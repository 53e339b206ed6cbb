------------------------- MODULE SubscriptionsProofs -------------------------
(***************************************************************************)
(* Proofs that every behaviour of Subscriptions, for any number of users,  *)
(* plans, references, rows and requests in flight, keeps Inv, and that it  *)
(* implements PaidAccess.                                                  *)
(***************************************************************************)
EXTENDS Subscriptions, TLAPS

-----------------------------------------------------------------------------
(* What the operators on rows return. *)

LEMMA PeriodPositive ==
    ASSUME NEW p \in Plans
    PROVE  PeriodDays(p) \in Nat /\ PeriodDays(p) > 0
BY ConstantsAssumption DEF PeriodDays

LEMMA DaysPositive ==
    ASSUME NEW n \in Nat
    PROVE  Days(n) \in Nat /\ (n > 0 => Days(n) > 0)
BY ConstantsAssumption DEF Days

LEMMA RowUpdates ==
    ASSUME NEW row \in Row, NEW n \in Nat
    PROVE  /\ [row EXCEPT !.status = "active", !.end = n, !.nextCharge = n] \in Row
           /\ [row EXCEPT !.end = n, !.status = "active", !.nextCharge = n] \in Row
           /\ [row EXCEPT !.end = n] \in Row
           /\ [row EXCEPT !.trialEnd = n] \in Row
           /\ [row EXCEPT !.auth = TRUE] \in Row
           /\ Expired(row) \in Row
           /\ Canceled(row) \in Row
BY DEF Row, SubStatus, Expired, Canceled

LEMMA ActivatedRow ==
    ASSUME TypeOK, NEW row \in Row
    PROVE  /\ Activated(row) \in Row
           /\ Activated(row).user = row.user
           /\ Activated(row).plan = row.plan
           /\ Activated(row).auth = row.auth
           /\ Activated(row).status = "active"
           /\ Activated(row).end # NoDate
           /\ Activated(row).nextCharge = Activated(row).end
<1>1. row.plan \in Plans
  BY DEF Row
<1>2. Days(PeriodDays(row.plan)) \in Nat /\ Days(PeriodDays(row.plan)) > 0
  BY <1>1, PeriodPositive, DaysPositive
<1>3. now \in Nat
  BY DEF TypeOK
<1>4. Activated(row) \in Row
  <2> DEFINE n == now + Days(PeriodDays(row.plan))
  <2>1. n \in Nat
    BY <1>2, <1>3
  <2> HIDE DEF n
  <2>2. [row EXCEPT !.status = "active", !.end = n, !.nextCharge = n] \in Row
    BY <2>1, RowUpdates
  <2> QED
    BY <2>2 DEF Activated, n
<1>5. /\ Activated(row).user = row.user
      /\ Activated(row).plan = row.plan
      /\ Activated(row).auth = row.auth
      /\ Activated(row).status = "active"
      /\ Activated(row).nextCharge = Activated(row).end
  BY DEF Activated, Row
<1>6. Activated(row).end = now + Days(PeriodDays(row.plan))
  BY DEF Activated, Row
<1> QED
  BY <1>2, <1>3, <1>4, <1>5, <1>6 DEF NoDate

LEMMA ExtendedRow ==
    ASSUME TypeOK, NEW row \in Row, NEW days \in ExtendDays
    PROVE  /\ Extended(row, days) \in Row
           /\ Extended(row, days).user = row.user
           /\ Extended(row, days).plan = row.plan
           /\ Extended(row, days).auth = row.auth
           /\ Extended(row, days).end > row.end
           /\ row.status = "expired" =>
                /\ Extended(row, days).status = "active"
                /\ Extended(row, days).nextCharge = Extended(row, days).end
           /\ row.status # "expired" =>
                /\ Extended(row, days).status = row.status
                /\ Extended(row, days).nextCharge = row.nextCharge
<1> DEFINE n == Postponed(row, days)
<1>1. n \in Nat /\ n > row.end
  <2>1. Days(days) \in Nat /\ Days(days) > 0
    BY ConstantsAssumption, DaysPositive
  <2> QED
    BY <2>1 DEF Postponed, TypeOK, Row, NoDate
<1>2. Extended(row, days) =
        IF row.status = "expired"
        THEN [row EXCEPT !.end = n, !.status = "active", !.nextCharge = n]
        ELSE [row EXCEPT !.end = n]
  BY DEF Extended
<1> HIDE DEF n
<1>3. Extended(row, days) \in Row
  BY <1>1, <1>2, RowUpdates
<1> QED
  BY <1>1, <1>2, <1>3 DEF Row

LEMMA BlankRowType ==
    ASSUME NEW u \in Users, NEW p \in Plans
    PROVE  BlankRow(u, p) \in Row
BY DEF BlankRow, Row, SubStatus, NoDate

LEMMA NullsApart ==
    /\ NoRow \notin Row
    /\ NoPayment \notin Payment
    /\ NoRef \notin Refs
    /\ NoSub \notin Subs
    /\ \A u \in Users, p \in Plans : NoRow # <<u, p>>
BY ConstantsAssumption DEF NoSub, Subs

-----------------------------------------------------------------------------
(* What no step undoes: an account is never changed, a charge never taken  *)
(* back, a row never removed.  Facts about entities held across an await   *)
(* survive the steps of others because they rest on these alone.           *)

PaymentsPersist ==
    \A r \in Refs : payment[r] # NoPayment =>
        payment'[r] # NoPayment /\ SameOwner(payment'[r], payment[r])

ChargesPersist == \A r \in Refs : charge[r] = "success" => charge'[r] = "success"

RowsPersist ==
    \A s \in Subs : sub[s] # NoRow => sub'[s] # NoRow /\ SameOwner(sub'[s], sub[s])

Persists == PaymentsPersist /\ ChargesPersist /\ RowsPersist

LEMMA PaidForPersists ==
    ASSUME Persists, NEW u, NEW p, PaidFor(u, p)
    PROVE  PaidFor(u, p)'
BY DEF Persists, PaymentsPersist, ChargesPersist, SameOwner, PaidFor

LEMMA SoundPersists ==
    ASSUME Persists, NEW row, Sound(row)
    PROVE  Sound(row)'
<1>1. PaidFor(row.user, row.plan) => PaidFor(row.user, row.plan)'
  BY PaidForPersists
<1> QED
  BY <1>1 DEF Sound

LEMMA CopyPersists ==
    ASSUME Persists, NEW row, NEW s \in Subs, CopyOfRow(row, s)
    PROVE  CopyOfRow(row, s)'
<1>1. Sound(row)'
  BY SoundPersists DEF CopyOfRow
<1> QED
  BY <1>1 DEF CopyOfRow, Persists, RowsPersist, SameOwner

LEMMA MatchesPersist ==
    ASSUME Persists, NEW r \in Refs, payment[r] # NoPayment, NEW s \in Matches(r)
    PROVE  s \in Matches(r)'
BY DEF Persists, PaymentsPersist, RowsPersist, SameOwner, Matches, OwnedBy

-----------------------------------------------------------------------------
(* Frames: a conjunct of Inv over variables a step leaves alone.           *)

LEMMA RowsFrame ==
    ASSUME Persists, RowsSound, sub' = sub, seen' = seen
    PROVE  RowsSound'
<1>1. ASSUME NEW s \in Subs, sub[s] # NoRow
      PROVE  Sound(sub[s])'
  <2>1. ASSUME NEW row, row = sub[s]
        PROVE  Sound(row)'
    BY <1>1, <2>1, SoundPersists DEF RowsSound
  <2> QED
    BY <2>1 DEF Sound, PaidFor
<1>2. InsertsSound'
  BY DEF RowsSound, InsertsSound, SameOwner
<1> QED
  BY <1>1, <1>2 DEF RowsSound

LEMMA TaskFrame ==
    ASSUME TypeOK, Persists, NEW t \in Tasks, TaskSound(t), task'[t] = task[t]
    PROVE  TaskSound(t)'
<1> DEFINE r == task[t].ref
           row == task[t].row
<1>1. r \in Refs /\ payment[r] # NoPayment =>
          payment'[r] # NoPayment /\ SameOwner(payment'[r], payment[r])
  BY DEF Persists, PaymentsPersist
<1>2. r \in Refs /\ charge[r] = "success" => charge'[r] = "success"
  BY DEF Persists, ChargesPersist
<1>3. r \in Refs /\ payment[r] # NoPayment => Matches(r) \subseteq Matches(r)'
  BY MatchesPersist
<1>4. task[t].id \in Subs /\ CopyOfRow(row, task[t].id) => CopyOfRow(row, task[t].id)'
  BY CopyPersists
<1>5. Sound(row) => Sound(row)'
  BY SoundPersists
<1>6. \A s \in task[t].searched : sub[s] # NoRow /\ ~SameOwner(row, sub[s]) =>
          sub'[s] # NoRow /\ ~SameOwner(row, sub'[s])
  BY DEF TypeOK, Task, Persists, RowsPersist, SameOwner
<1>7. r \in Refs /\ payment[r] # NoPayment /\ SameOwner(row, payment[r]) =>
          SameOwner(row, payment'[r])
  BY <1>1 DEF SameOwner
<1> HIDE DEF r, row
<1>8. task[t].pc = "granting" => TaskSound(t)'
  BY <1>1, <1>2, <1>3, <1>5, <1>6, <1>7 DEF TaskSound, r, row
<1>9. task[t].pc # "granting" => TaskSound(t)'
  BY <1>1, <1>2, <1>3, <1>4 DEF TaskSound, r, row
<1> QED
  BY <1>8, <1>9

LEMMA RenewalFrame ==
    ASSUME Persists, NEW l \in Loops, RenewalSound(l), renewal'[l] = renewal[l],
           renewal[l].pc # "loop" =>
               /\ payment'[renewal[l].ref] = payment[renewal[l].ref]
               /\ \A other \in Loops \ {l} : renewal'[other].ref # renewal[l].ref
    PROVE  RenewalSound(l)'
<1> DEFINE batch == renewal[l].batch
<1>1. ASSUME NEW s \in Subs, batch[s] # NoRow
      PROVE  CopyOfRow(batch[s], s)' /\ batch[s].status = "active"
  <2>1. CopyOfRow(batch[s], s) /\ batch[s].status = "active"
    BY <1>1 DEF RenewalSound
  <2> QED
    BY <1>1, <2>1, CopyPersists
<1>2. renewal[l].pc \in {"saving", "recording"} => charge'[renewal[l].ref] = "success"
  BY DEF RenewalSound, Persists, ChargesPersist
<1> QED
  BY <1>1, <1>2 DEF RenewalSound

\* The loops of the crons, for a step that leaves them alone.
LEMMA RenewalsFrame ==
    ASSUME Inv, Persists, renewal' = renewal,
           \A l \in Loops : renewal[l].pc # "loop" =>
               payment'[renewal[l].ref] = payment[renewal[l].ref]
    PROVE  \A l \in Loops : RenewalSound(l)'
<1> SUFFICES ASSUME NEW l \in Loops PROVE RenewalSound(l)'
  OBVIOUS
<1>1. RenewalSound(l)
  BY DEF Inv, CopiesSound
<1>2. renewal[l].pc # "loop" =>
          \A other \in Loops \ {l} : renewal'[other].ref # renewal[l].ref
  BY <1>1 DEF RenewalSound
<1> QED
  BY <1>1, <1>2, RenewalFrame

LEMMA ExpiryFrame ==
    ASSUME Persists, NEW l \in Loops, ExpirySound(l), expiry'[l] = expiry[l]
    PROVE  ExpirySound(l)'
<1> DEFINE batch == expiry[l]
<1>1. ASSUME NEW s \in Subs, batch[s] # NoRow
      PROVE  CopyOfRow(batch[s], s)' /\ batch[s].status = "active"
  <2>1. CopyOfRow(batch[s], s) /\ batch[s].status = "active"
    BY <1>1 DEF ExpirySound
  <2> QED
    BY <1>1, <2>1, CopyPersists
<1> QED
  BY <1>1 DEF ExpirySound

LEMMA ExpiriesFrame ==
    ASSUME Inv, Persists, expiry' = expiry
    PROVE  \A l \in Loops : ExpirySound(l)'
BY ExpiryFrame DEF Inv, CopiesSound

\* The money invariants survive a step that books and collects nothing, and
\* gives up a reference in hand only for a record, a row or interrupted.
LEMMA LedgerFrame ==
    ASSUME Persists, LedgerSound,
           \A r \in Refs : IsBooked(r)' => IsBooked(r),
           \A r \in Refs : charge'[r] = "success" => charge[r] = "success",
           \A r \in Refs : charge'[r] = "open" => charge[r] = "open" \/ payment'[r] # NoPayment,
           \A r \in Refs : InRenewal(r) =>
                InRenewal(r)' \/ payment'[r] # NoPayment \/ r \in interrupted',
           interrupted \subseteq interrupted',
           \A r \in Refs, t \in Tasks :
                task[t].ref = r /\ task[t].pc \in {"finding", "granting"} =>
                  \/ task'[t].ref = r /\ task'[t].pc \in {"finding", "granting"}
                  \/ Matches(r)' # {}
                  \/ r \in interrupted'
    PROVE  LedgerSound'
<1> USE DEF LedgerSound
<1>1. BookedIsCollected'
  BY DEF BookedIsCollected, Persists, ChargesPersist
<1>2. CollectedIsRecorded'
  BY DEF CollectedIsRecorded, Persists, PaymentsPersist
<1>3. ASSUME NEW r \in Refs, IsBooked(r), Matches(r) # {}
      PROVE  Matches(r)' # {}
  BY <1>3, MatchesPersist DEF IsBooked
<1>4. ASSUME NEW r \in Refs, IsBooked(r)'
      PROVE  \/ Matches(r)' # {}
             \/ \E t \in Tasks : task'[t].ref = r /\ task'[t].pc \in {"finding", "granting"}
             \/ r \in interrupted'
  <2>1. IsBooked(r)
    BY <1>4
  <2>2. CASE Matches(r) # {}
    BY <1>3, <2>1, <2>2
  <2>3. CASE \E t \in Tasks : task[t].ref = r /\ task[t].pc \in {"finding", "granting"}
    BY <2>3
  <2>4. CASE r \in interrupted
    BY <2>4
  <2> QED
    BY <2>1, <2>2, <2>3, <2>4 DEF SuccessIsGranted
<1>5. SuccessIsGranted'
  BY <1>4 DEF SuccessIsGranted
<1>6. OpenIsRecorded'
  BY DEF OpenIsRecorded, Persists, PaymentsPersist
<1> QED
  BY <1>1, <1>2, <1>5, <1>6

\* Every part of CopiesSound, for a step of request t that leaves the crons and
\* the other requests alone.
LEMMA RequestFrame ==
    ASSUME Inv, Persists, NEW t \in Tasks,
           RowsSound',
           \A other \in Tasks \ {t} : task'[other] = task[other],
           TaskSound(t)',
           renewal' = renewal,
           expiry' = expiry,
           \A l \in Loops : renewal[l].pc # "loop" =>
               payment'[renewal[l].ref] = payment[renewal[l].ref]
    PROVE  CopiesSound'
<1>1. \A l \in Loops : RenewalSound(l)' /\ ExpirySound(l)'
  BY RenewalsFrame, ExpiriesFrame
<1>2. ASSUME NEW other \in Tasks
      PROVE  TaskSound(other)'
  <2>1. CASE other = t
    BY <2>1
  <2>2. CASE other # t
    BY <2>2, TaskFrame DEF Inv, CopiesSound
  <2> QED
    BY <2>1, <2>2
<1> QED
  BY <1>1, <1>2 DEF CopiesSound

-----------------------------------------------------------------------------
(* How a request moves: its own task record changes, the others do not.    *)

LEMMA GotoTask ==
    ASSUME TypeOK, NEW t \in Tasks, NEW pc \in TaskPcs, Goto(t, pc)
    PROVE  /\ task' \in [Tasks -> Task]
           /\ \A other \in Tasks \ {t} : task'[other] = task[other]
           /\ task'[t].pc = pc
           /\ task'[t].ref = task[t].ref
           /\ task'[t].id = task[t].id
           /\ task'[t].row = task[t].row
BY DEF TypeOK, Task, Goto

LEMMA ReturnTask ==
    ASSUME TypeOK, NEW t \in Tasks, Returns(t)
    PROVE  /\ task' \in [Tasks -> Task]
           /\ \A other \in Tasks \ {t} : task'[other] = task[other]
           /\ task'[t] = IdleTask
           /\ TaskSound(t)'
<1>1. IdleTask \in Task
  BY DEF IdleTask, Task, TaskPcs
<1>2. task' = [task EXCEPT ![t] = IdleTask] /\ task \in [Tasks -> Task]
  BY DEF TypeOK, Returns
<1> HIDE DEF IdleTask
<1>3. task' \in [Tasks -> Task] /\ task'[t] = IdleTask
  BY <1>1, <1>2
<1>4. TaskSound(t)'
  BY <1>3 DEF TaskSound, IdleTask
<1> QED
  BY <1>2, <1>3, <1>4

\* A task record put in the place of another.
LEMMA PutTask ==
    ASSUME NEW t \in Tasks, task \in [Tasks -> Task], NEW new \in Task,
           task' = [task EXCEPT ![t] = new]
    PROVE  /\ task' \in [Tasks -> Task]
           /\ \A other \in Tasks \ {t} : task'[other] = task[other]
           /\ task'[t] = new
OBVIOUS

LEMMA StartTask ==
    ASSUME TypeOK, NEW t \in Tasks, NEW pc \in TaskPcs, NEW r \in Refs,
           task' = [task EXCEPT ![t].pc = pc, ![t].ref = r]
    PROVE  /\ task' \in [Tasks -> Task]
           /\ \A other \in Tasks \ {t} : task'[other] = task[other]
           /\ task'[t].pc = pc
           /\ task'[t].ref = r
           /\ task'[t].id = task[t].id
           /\ task'[t].row = task[t].row
<1> DEFINE new == [task[t] EXCEPT !.pc = pc, !.ref = r]
<1>1. task \in [Tasks -> Task] /\ task[t] \in Task
  BY DEF TypeOK
<1>2. new \in Task /\ new.pc = pc /\ new.ref = r /\ new.id = task[t].id /\ new.row = task[t].row
  BY <1>1 DEF Task
<1>3. task' = [task EXCEPT ![t] = new]
  BY <1>1
<1> HIDE DEF new
<1>4. /\ task' \in [Tasks -> Task]
      /\ \A other \in Tasks \ {t} : task'[other] = task[other]
      /\ task'[t] = new
  BY <1>1, <1>2, <1>3, PutTask
<1> QED
  BY <1>2, <1>4

\* A request at an await that has a reference has a recorded payment for it.
LEMMA TaskAt ==
    ASSUME Inv, NEW t \in Tasks
    PROVE  TaskSound(t) /\ task[t] \in Task
BY DEF Inv, CopiesSound, TypeOK

-----------------------------------------------------------------------------
(* Requests, one lemma per step. *)

LEMMA InitiatePaymentInv ==
    ASSUME Inv, NEW t \in Tasks, NEW u \in Users, NEW p \in Plans, NEW r \in Refs,
           InitiatePayment(t, u, p, r)
    PROVE  Inv'
<1> DEFINE new == [user |-> u, plan |-> p, status |-> "pending"]
<1> USE DEF Inv, CopiesSound
<1>1. /\ payment[r] = NoPayment
      /\ charge[r] = "none"
      /\ ~InRenewal(r)
      /\ task[t].pc = "idle"
  BY DEF InitiatePayment, Unused, Begins
<1>2. new \in Payment
  BY DEF Payment, PaymentStatus
<1>3. payment' = [payment EXCEPT ![r] = new]
  BY DEF InitiatePayment
<1> HIDE DEF new
<1>4. /\ task' \in [Tasks -> Task]
      /\ \A other \in Tasks \ {t} : task'[other] = task[other]
      /\ task'[t].pc = "opening"
      /\ task'[t].ref = r
  BY StartTask DEF InitiatePayment, TaskPcs
<1>5. /\ \A other \in Refs \ {r} : payment'[other] = payment[other]
      /\ payment'[r] = new
      /\ payment'[r] # NoPayment
  BY <1>2, <1>3, NullsApart DEF TypeOK
<1>6. TypeOK'
  BY <1>2, <1>3, <1>4 DEF TypeOK, InitiatePayment, paystack, crons
<1>7. Persists
  BY <1>1, <1>5 DEF InitiatePayment, paystack, crons, Persists, PaymentsPersist, ChargesPersist,
                    RowsPersist, SameOwner
<1>8. CopiesSound'
  <2>1. TaskSound(t)'
    BY <1>4, <1>5 DEF TaskSound
  <2>2. \A l \in Loops : renewal[l].pc # "loop" =>
             payment'[renewal[l].ref] = payment[renewal[l].ref]
    BY <1>1, <1>5 DEF RenewalSound, InRenewal
  <2>3. RowsSound'
    BY <1>7, RowsFrame DEF InitiatePayment
  <2> QED
    BY <1>4, <1>7, <2>1, <2>2, <2>3, RequestFrame DEF InitiatePayment, crons
<1>9. LedgerSound'
  <2>1. \A other \in Refs : IsBooked(other)' => IsBooked(other)
    BY <1>1, <1>5 DEF IsBooked, new
  <2> QED
    BY <1>1, <1>4, <1>7, <2>1, LedgerFrame DEF InitiatePayment, paystack, crons, InRenewal
<1> QED
  BY <1>6, <1>8, <1>9

\* A step that only moves a request, and does not drop a booking in hand.
LEMMA MoveInv ==
    ASSUME Inv, NEW t \in Tasks,
           UNCHANGED <<now, payment, sub, charge, declined, fired, renewal, expiry, interrupted, seen>>,
           task' \in [Tasks -> Task],
           \A other \in Tasks \ {t} : task'[other] = task[other],
           TaskSound(t)',
           task[t].pc \in {"finding", "granting"} =>
               task'[t].ref = task[t].ref /\ task'[t].pc \in {"finding", "granting"}
    PROVE  Inv'
<1> USE DEF Inv, CopiesSound
<1>1. TypeOK'
  BY DEF TypeOK
<1>2. Persists
  BY DEF Persists, PaymentsPersist, ChargesPersist, RowsPersist, SameOwner
<1>3. CopiesSound'
  BY <1>2, RowsFrame, RequestFrame
<1>4. LedgerSound'
  BY <1>2, LedgerFrame DEF InRenewal, IsBooked
<1> QED
  BY <1>1, <1>3, <1>4

LEMMA OpenTransactionInv ==
    ASSUME Inv, NEW t \in Tasks, OpenTransaction(t)
    PROVE  Inv'
<1> DEFINE r == task[t].ref
<1> USE DEF Inv, CopiesSound
<1>1. task[t].pc = "opening" /\ r \in Refs /\ payment[r] # NoPayment
  BY DEF OpenTransaction, At, TaskSound
<1>2. Returns(t) /\ charge[r] = "none" /\ charge' = [charge EXCEPT ![r] = "open"]
  BY DEF OpenTransaction
<1>3. /\ \A other \in Refs : charge'[other] = "success" <=> charge[other] = "success"
      /\ \A other \in Refs \ {r} : charge'[other] = charge[other]
  BY <1>1, <1>2 DEF TypeOK
<1>4. TypeOK'
  BY <1>1, <1>2, ReturnTask DEF TypeOK, OpenTransaction, store, crons
<1>5. Persists
  BY <1>3 DEF OpenTransaction, store, crons, Persists, PaymentsPersist, ChargesPersist,
              RowsPersist, SameOwner
<1>6. CopiesSound'
  BY <1>2, <1>5, ReturnTask, RowsFrame, RequestFrame DEF OpenTransaction, store, crons
<1>7. LedgerSound'
  <2>1. \A other \in Refs, o \in Tasks :
            task[o].ref = other /\ task[o].pc \in {"finding", "granting"} =>
              task'[o].ref = other /\ task'[o].pc \in {"finding", "granting"}
    BY <1>1, <1>2, ReturnTask
  <2> QED
    BY <1>1, <1>3, <1>5, <2>1, LedgerFrame DEF InRenewal, IsBooked, OpenTransaction, store, crons
<1> QED
  BY <1>4, <1>6, <1>7

LEMMA StartVerifyInv ==
    ASSUME Inv, NEW t \in Tasks, NEW r \in Refs, task[t].pc = "idle", StartVerify(t, r)
    PROVE  Inv'
<1> USE DEF Inv
<1>1. /\ task' \in [Tasks -> Task]
      /\ \A other \in Tasks \ {t} : task'[other] = task[other]
      /\ task'[t].pc = "verifying"
      /\ task'[t].ref = r
  BY StartTask DEF StartVerify, TaskPcs
<1>2. TaskSound(t)'
  BY <1>1 DEF TaskSound, StartVerify, store, crons
<1> QED
  BY <1>1, <1>2, MoveInv DEF StartVerify, store, paystack, crons

LEMMA WebhookChargeFailedInv ==
    ASSUME Inv, NEW t \in Tasks, NEW r \in Refs, WebhookChargeFailed(t, r)
    PROVE  Inv'
<1> USE DEF Inv
<1>1. /\ task' \in [Tasks -> Task]
      /\ \A other \in Tasks \ {t} : task'[other] = task[other]
      /\ task'[t].pc = "failing"
      /\ task'[t].ref = r
  BY StartTask DEF WebhookChargeFailed, TaskPcs
<1>2. TaskSound(t)'
  BY <1>1 DEF TaskSound, WebhookChargeFailed, store, crons
<1> QED
  BY <1>1, <1>2, MoveInv DEF WebhookChargeFailed, Begins, store, paystack, crons

LEMMA VerifyUnknownInv ==
    ASSUME Inv, NEW t \in Tasks, VerifyUnknown(t)
    PROVE  Inv'
BY ReturnTask, MoveInv DEF Inv, VerifyUnknown, At, store, paystack, crons

LEMMA VerifyAnsweredInv ==
    ASSUME Inv, NEW t \in Tasks, VerifyAnswered(t)
    PROVE  Inv'
<1> DEFINE next == Outcome(task[t].ref)
<1> USE DEF Inv
<1>1. /\ task' \in [Tasks -> Task]
      /\ \A other \in Tasks \ {t} : task'[other] = task[other]
      /\ task'[t].pc = next
      /\ task'[t].ref = task[t].ref
  BY GotoTask DEF VerifyAnswered, Outcome, TaskPcs
<1>2. TaskSound(t)'
  BY <1>1, TaskAt DEF TaskSound, VerifyAnswered, Outcome, At, store, paystack, crons
<1> QED
  BY <1>1, <1>2, MoveInv DEF VerifyAnswered, Outcome, At, store, paystack, crons

LEMMA FindSubscriptionInv ==
    ASSUME Inv, NEW t \in Tasks, FindSubscription(t)
    PROVE  Inv'
<1> DEFINE r == task[t].ref
           old(s) == [Found(r, s) EXCEPT !.auth = TRUE]
           row(s) == Activated(old(s))
           all == {x \in Subs : sub[x] # NoRow}
<1> USE DEF Inv
<1>1. /\ task[t].pc = "finding"
      /\ r \in Refs
      /\ payment[r] \in Payment
      /\ payment[r] # NoPayment
      /\ charge[r] = "success"
  BY TaskAt DEF FindSubscription, At, TaskSound, TypeOK
<1>2. PICK s \in IF Matches(r) = {} THEN {NoSub} ELSE Matches(r) :
          task' = [task EXCEPT ![t].pc = "granting", ![t].id = s, ![t].row = row(s),
                               ![t].searched = all]
  BY DEF FindSubscription
<1>3. s \in Subs \cup {NoSub} /\ (s # NoSub => s \in Matches(r)) /\ (s = NoSub => Matches(r) = {})
  BY <1>2, NullsApart DEF Matches
<1>4. Found(r, s) \in Row /\ SameOwner(Found(r, s), payment[r])
  <2>1. CASE s = NoSub
    BY <1>1, <2>1, BlankRowType DEF Found, BlankRow, Payment, SameOwner
  <2>2. CASE s # NoSub
    BY <1>3, <2>2 DEF Found, Matches, OwnedBy, SameOwner, TypeOK
  <2> QED
    BY <2>1, <2>2
<1>5. /\ old(s) \in Row
      /\ SameOwner(old(s), payment[r])
      /\ old(s).auth
  BY <1>4, RowUpdates DEF Row, SameOwner
<1> HIDE DEF old
<1>6. /\ row(s) \in Row
      /\ SameOwner(row(s), payment[r])
      /\ row(s).auth
      /\ row(s).end # NoDate
      /\ row(s).nextCharge = row(s).end
  BY <1>5, ActivatedRow DEF SameOwner
<1> HIDE DEF row
<1> PICK new : new = row(s)
  OBVIOUS
<1>7. Sound(new)
  <2>1. new.end \in Nat
    BY <1>6 DEF Row
  <2>2. PaidFor(new.user, new.plan)
    BY <1>1, <1>6 DEF PaidFor, SameOwner
  <2> QED
    BY <1>6, <2>1, <2>2 DEF Sound
<1>8. s = NoSub => \A x \in all : ~SameOwner(new, sub[x])
  BY <1>3, <1>6 DEF Matches, OwnedBy, SameOwner
<1>9. /\ task' \in [Tasks -> Task]
      /\ \A other \in Tasks \ {t} : task'[other] = task[other]
      /\ task'[t].pc = "granting"
      /\ task'[t].ref = r
      /\ task'[t].id = s
      /\ task'[t].row = new
      /\ task'[t].searched = all
  <2> DEFINE moved == [task[t] EXCEPT !.pc = "granting", !.id = s, !.row = new, !.searched = all]
  <2>1. task \in [Tasks -> Task] /\ task[t] \in Task
    BY DEF TypeOK
  <2>2. all \in SUBSET Subs /\ new \in Row /\ s \in Subs \cup {NoSub}
    BY <1>3, <1>6
  <2>3. task' = [task EXCEPT ![t] = moved]
    BY <1>2, <2>1
  <2> HIDE DEF all
  <2>4. /\ moved \in Task
        /\ moved.pc = "granting"
        /\ moved.ref = r
        /\ moved.id = s
        /\ moved.row = new
        /\ moved.searched = all
    BY <2>1, <2>2 DEF Task, TaskPcs
  <2> HIDE DEF moved
  <2>5. /\ task' \in [Tasks -> Task]
        /\ \A other \in Tasks \ {t} : task'[other] = task[other]
        /\ task'[t] = moved
    BY <2>1, <2>3, <2>4, PutTask
  <2> QED
    BY <2>4, <2>5
<1>10. UNCHANGED <<now, payment, sub, charge, declined, fired, renewal, expiry, interrupted, seen>>
  BY DEF FindSubscription, store, paystack, crons
<1>11. Sound(new)' /\ (s # NoSub => s \in Matches(task[t].ref)')
  <2>1. Persists
    BY <1>10 DEF Persists, PaymentsPersist, ChargesPersist, RowsPersist, SameOwner
  <2>2. Sound(new)'
    BY <1>7, <2>1, SoundPersists
  <2> QED
    BY <1>3, <1>9, <1>10, <2>2 DEF Matches, OwnedBy
<1>12. TaskSound(t)'
  BY <1>1, <1>3, <1>6, <1>8, <1>9, <1>10, <1>11 DEF TaskSound, Matches, OwnedBy
<1> QED
  BY <1>1, <1>9, <1>10, <1>12, MoveInv

\* A step of request t that sets the status of its own payment.
LEMMA SetStatusFacts ==
    ASSUME Inv, NEW r \in Refs, NEW status \in PaymentStatus,
           payment[r] # NoPayment, SetStatus(r, status)
    PROVE  /\ payment' \in [Refs -> Payment \cup {NoPayment}]
           /\ PaymentsPersist
           /\ \A other \in Refs : payment[other] = NoPayment <=> payment'[other] = NoPayment
           /\ \A other \in Refs \ {r} : payment'[other] = payment[other]
           /\ payment'[r].status = status
           /\ \A l \in Loops : renewal[l].pc # "loop" =>
                   payment'[renewal[l].ref] = payment[renewal[l].ref]
<1> DEFINE new == [payment[r] EXCEPT !.status = status]
<1>1. payment[r] \in Payment /\ payment \in [Refs -> Payment \cup {NoPayment}]
  BY DEF Inv, TypeOK
<1>2. new \in Payment /\ SameOwner(new, payment[r]) /\ new.status = status
  BY <1>1 DEF Payment, PaymentStatus, SameOwner
<1>3. payment' = [payment EXCEPT ![r] = new]
  BY DEF SetStatus
<1> HIDE DEF new
<1>4. /\ payment' \in [Refs -> Payment \cup {NoPayment}]
      /\ \A other \in Refs \ {r} : payment'[other] = payment[other]
      /\ payment'[r] = new
      /\ payment'[r] # NoPayment
  BY <1>1, <1>2, <1>3, NullsApart
<1>5. PaymentsPersist
  BY <1>2, <1>4 DEF PaymentsPersist, SameOwner
<1>6. \A l \in Loops : renewal[l].pc # "loop" =>
           payment'[renewal[l].ref] = payment[renewal[l].ref]
  BY <1>4 DEF Inv, CopiesSound, RenewalSound
<1> QED
  BY <1>2, <1>4, <1>5, <1>6

\* A step that only fails a payment and ends its request.
LEMMA FailPaymentInv ==
    ASSUME Inv, NEW t \in Tasks, task[t].pc \in {"refused", "failing"},
           SetStatus(task[t].ref, "failed"), Returns(t),
           UNCHANGED <<now, sub, charge, declined, fired, renewal, expiry, interrupted, seen>>
    PROVE  Inv'
<1> USE DEF Inv
<1>1. task[t].ref \in Refs /\ payment[task[t].ref] # NoPayment
  BY TaskAt DEF TaskSound
<1>2. "failed" \in PaymentStatus
  BY DEF PaymentStatus
<1>3. /\ payment' \in [Refs -> Payment \cup {NoPayment}]
      /\ PaymentsPersist
      /\ \A r \in Refs : payment[r] = NoPayment <=> payment'[r] = NoPayment
      /\ \A r \in Refs \ {task[t].ref} : payment'[r] = payment[r]
      /\ payment'[task[t].ref].status = "failed"
      /\ \A l \in Loops : renewal[l].pc # "loop" =>
              payment'[renewal[l].ref] = payment[renewal[l].ref]
  BY <1>1, <1>2, SetStatusFacts
<1>4. /\ task' \in [Tasks -> Task]
      /\ \A other \in Tasks \ {t} : task'[other] = task[other]
      /\ TaskSound(t)'
  BY ReturnTask
<1>5. TypeOK'
  BY <1>3, <1>4 DEF TypeOK
<1>6. Persists
  BY <1>3 DEF Persists, ChargesPersist, RowsPersist, SameOwner
<1>7. CopiesSound'
  BY <1>3, <1>4, <1>6, RowsFrame, RequestFrame DEF CopiesSound
<1>8. \A r \in Refs : IsBooked(r)' => IsBooked(r)
  BY <1>3 DEF IsBooked
<1>9. \A r \in Refs, o \in Tasks :
          task[o].ref = r /\ task[o].pc \in {"finding", "granting"} =>
            task'[o].ref = r /\ task'[o].pc \in {"finding", "granting"}
  BY <1>4
<1>10. LedgerSound'
  BY <1>6, <1>8, <1>9, LedgerFrame DEF InRenewal
<1> QED
  BY <1>5, <1>7, <1>10

LEMMA RecordRefusalInv ==
    ASSUME Inv, NEW t \in Tasks, RecordRefusal(t)
    PROVE  Inv'
BY FailPaymentInv DEF RecordRefusal, At, paystack, crons

LEMMA RecordFailureInv ==
    ASSUME Inv, NEW t \in Tasks, RecordFailure(t)
    PROVE  Inv'
BY FailPaymentInv DEF RecordFailure, At, paystack, crons

\* A step that books the payment of request t, which goes on to next.
LEMMA BookPaymentInv ==
    ASSUME Inv, NEW t \in Tasks, task[t].pc \in {"paid", "linking"},
           SetStatus(task[t].ref, "success"),
           UNCHANGED <<now, sub, charge, declined, fired, renewal, expiry, interrupted, seen>>,
           task' \in [Tasks -> Task],
           \A other \in Tasks \ {t} : task'[other] = task[other],
           TaskSound(t)',
           task[t].pc = "paid" => task'[t].pc = "finding" /\ task'[t].ref = task[t].ref
    PROVE  Inv'
<1> DEFINE r == task[t].ref
<1> USE DEF Inv, LedgerSound
<1>1. /\ r \in Refs
      /\ payment[r] # NoPayment
      /\ charge[r] = "success"
      /\ task[t].pc = "linking" => Matches(r) # {}
  BY TaskAt DEF TaskSound
<1> HIDE DEF r
<1>2. "success" \in PaymentStatus
  BY DEF PaymentStatus
<1>3. /\ payment' \in [Refs -> Payment \cup {NoPayment}]
      /\ PaymentsPersist
      /\ \A other \in Refs : payment[other] = NoPayment <=> payment'[other] = NoPayment
      /\ \A other \in Refs \ {r} : payment'[other] = payment[other]
      /\ \A l \in Loops : renewal[l].pc # "loop" =>
              payment'[renewal[l].ref] = payment[renewal[l].ref]
  BY <1>1, <1>2, SetStatusFacts DEF r
<1>4. TypeOK'
  BY <1>3 DEF TypeOK
<1>5. Persists
  BY <1>3 DEF Persists, ChargesPersist, RowsPersist, SameOwner
<1>6. CopiesSound'
  BY <1>3, <1>5, RowsFrame, RequestFrame DEF CopiesSound
<1>7. \A other \in Refs : IsBooked(other)' => IsBooked(other) \/ other = r
  BY <1>3 DEF IsBooked
<1>8. BookedIsCollected'
  BY <1>1, <1>7 DEF BookedIsCollected
<1>9. CollectedIsRecorded'
  BY <1>3 DEF CollectedIsRecorded, InRenewal
<1>10. SuccessIsGranted'
  <2> SUFFICES ASSUME NEW other \in Refs, IsBooked(other)'
               PROVE  \/ Matches(other)' # {}
                      \/ \E o \in Tasks : task'[o].ref = other /\ task'[o].pc \in {"finding", "granting"}
                      \/ other \in interrupted'
    BY DEF SuccessIsGranted
  <2>1. ASSUME payment[other] # NoPayment, Matches(other) # {}
        PROVE  Matches(other)' # {}
    BY <1>5, <2>1, MatchesPersist
  <2>2. CASE other = r
    BY <1>1, <2>1, <2>2 DEF r
  <2>3. CASE other # r
    <3>1. IsBooked(other) /\ payment[other] # NoPayment
      BY <1>7, <2>3 DEF IsBooked
    <3>2. CASE Matches(other) # {}
      BY <2>1, <3>1, <3>2
    <3>3. CASE \E o \in Tasks : task[o].ref = other /\ task[o].pc \in {"finding", "granting"}
      BY <3>3
    <3>4. CASE other \in interrupted
      BY <3>4
    <3> QED
      BY <3>1, <3>2, <3>3, <3>4 DEF SuccessIsGranted
  <2> QED
    BY <2>2, <2>3
<1>11. OpenIsRecorded'
  BY <1>3 DEF OpenIsRecorded
<1> QED
  BY <1>4, <1>6, <1>8, <1>9, <1>10, <1>11

LEMMA RecordSuccessInv ==
    ASSUME Inv, NEW t \in Tasks, RecordSuccess(t)
    PROVE  Inv'
<1>1. /\ task' \in [Tasks -> Task]
      /\ \A other \in Tasks \ {t} : task'[other] = task[other]
      /\ task'[t].pc = "finding"
      /\ task'[t].ref = task[t].ref
  BY GotoTask DEF Inv, RecordSuccess, TaskPcs
<1>2. /\ task[t].ref \in Refs
      /\ payment[task[t].ref] # NoPayment
      /\ charge[task[t].ref] = "success"
  BY TaskAt DEF TaskSound, RecordSuccess, At
<1>3. payment'[task[t].ref] # NoPayment
  BY <1>2, SetStatusFacts DEF RecordSuccess, PaymentStatus
<1>4. TaskSound(t)'
  BY <1>1, <1>2, <1>3 DEF TaskSound, RecordSuccess, paystack, crons
<1> QED
  BY <1>1, <1>4, BookPaymentInv DEF RecordSuccess, At, paystack, crons

LEMMA LinkPaymentInv ==
    ASSUME Inv, NEW t \in Tasks, LinkPayment(t)
    PROVE  Inv'
BY ReturnTask, BookPaymentInv DEF Inv, LinkPayment, At, paystack, crons

-----------------------------------------------------------------------------
(* Steps that write a row of user_subscriptions. *)

LEMMA RowWritten ==
    ASSUME Inv, NEW s \in Subs, NEW row \in Row,
           sub' = [sub EXCEPT ![s] = row],
           sub[s] # NoRow => SameOwner(row, sub[s]),
           Sound(row),
           seen' \in [Subs -> SUBSET Subs],
           \A x \in Subs : \A other \in seen'[x] : other \in seen[x] \/
               (x = s /\ sub[other] # NoRow /\ ~SameOwner(row, sub[other])),
           UNCHANGED <<payment, charge>>
    PROVE  /\ sub' \in [Subs -> Row \cup {NoRow}]
           /\ Persists
           /\ RowsSound'
           /\ sub'[s] = row
<1> USE DEF Inv, CopiesSound
<1>1. /\ sub' \in [Subs -> Row \cup {NoRow}]
      /\ sub'[s] = row
      /\ row # NoRow
      /\ \A other \in Subs \ {s} : sub'[other] = sub[other]
  BY NullsApart DEF TypeOK
<1>2. Persists
  BY <1>1 DEF Persists, PaymentsPersist, ChargesPersist, RowsPersist, SameOwner
<1>3. ASSUME NEW other \in Subs, sub'[other] # NoRow
      PROVE  Sound(sub[other])'
  <2>1. ASSUME NEW x, x = sub'[other], Sound(x)
        PROVE  Sound(x)'
    BY <1>2, <2>1, SoundPersists
  <2>2. Sound(sub'[other])
    BY <1>1, <1>3 DEF RowsSound
  <2> QED
    BY <2>1, <2>2 DEF Sound, PaidFor
<1>4. InsertsSound'
  <2> SUFFICES ASSUME NEW x \in Subs, NEW other \in seen'[x]
               PROVE  /\ sub'[x] # NoRow
                      /\ sub'[other] # NoRow
                      /\ ~SameOwner(sub'[x], sub'[other])
    BY DEF InsertsSound
  <2>1. other \in Subs
    OBVIOUS
  <2>2. CASE other \in seen[x]
    <3>1. sub[x] # NoRow /\ sub[other] # NoRow /\ ~SameOwner(sub[x], sub[other])
      BY <2>2 DEF RowsSound, InsertsSound
    <3> QED
      BY <1>2, <2>1, <3>1 DEF Persists, RowsPersist, SameOwner
  <2>3. CASE other \notin seen[x]
    <3>1. x = s /\ sub[other] # NoRow /\ ~SameOwner(row, sub[other])
      BY <2>3
    <3>2. other # s
      BY <3>1
    <3> QED
      BY <1>1, <2>1, <3>1, <3>2
  <2> QED
    BY <2>2, <2>3
<1> QED
  BY <1>1, <1>2, <1>3, <1>4 DEF RowsSound

\* The row a verified payment grants: its account is the payment's, and paid.
LEMMA GrantWrites ==
    ASSUME Inv, NEW t \in Tasks, Grant(t)
    PROVE  \E s \in Subs, row \in Row :
               /\ sub' = [sub EXCEPT ![s] = row]
               /\ sub[s] # NoRow => SameOwner(row, sub[s])
               /\ Sound(row)
               /\ SameOwner(row, payment[task[t].ref])
               /\ seen' \in [Subs -> SUBSET Subs]
               /\ \A x \in Subs : \A other \in seen'[x] : other \in seen[x] \/
                      (x = s /\ sub[other] # NoRow /\ ~SameOwner(row, sub[other]))
               /\ task[t].id = NoSub => sub[s] = NoRow
               /\ task[t].id # NoSub => s = task[t].id
<1> DEFINE r == task[t].ref
           id == task[t].id
           row == task[t].row
<1> USE DEF Inv, CopiesSound
<1>1. /\ row \in Row
      /\ Sound(row)
      /\ SameOwner(row, payment[r])
      /\ id # NoSub => id \in Matches(r)
      /\ id = NoSub => \A x \in task[t].searched : sub[x] # NoRow /\ ~SameOwner(row, sub[x])
      /\ task[t].searched \subseteq Subs
  BY TaskAt DEF TaskSound, Grant, At, Task
<1>2. CASE id = NoSub
  <2>1. PICK s \in Subs : /\ sub[s] = NoRow
                          /\ sub' = [sub EXCEPT ![s] = row]
                          /\ seen' = [seen EXCEPT ![s] = task[t].searched]
    BY <1>2 DEF Grant, IsNextId, IsFree
  <2>2. /\ seen' \in [Subs -> SUBSET Subs]
        /\ seen'[s] = task[t].searched
        /\ \A x \in Subs \ {s} : seen'[x] = seen[x]
    BY <1>1, <2>1 DEF TypeOK
  <2>3. \A x \in Subs : \A other \in seen'[x] : other \in seen[x] \/
            (x = s /\ sub[other] # NoRow /\ ~SameOwner(row, sub[other]))
    BY <1>1, <1>2, <2>2
  <2> HIDE DEF r, row
  <2> QED
    BY <1>1, <1>2, <2>1, <2>2, <2>3 DEF r
<1>3. CASE id # NoSub
  <2>1. sub' = [sub EXCEPT ![id] = row] /\ seen' = seen
    BY <1>3 DEF Grant
  <2>2. id \in Subs /\ SameOwner(row, sub[id])
    BY <1>1, <1>3 DEF Matches, OwnedBy, SameOwner
  <2> HIDE DEF r, row
  <2> QED
    BY <1>1, <1>3, <2>1, <2>2 DEF TypeOK, r
<1> QED
  BY <1>2, <1>3

LEMMA GrantInv ==
    ASSUME Inv, NEW t \in Tasks, Grant(t)
    PROVE  Inv'
<1> DEFINE r == task[t].ref
<1> USE DEF Inv, CopiesSound
<1>1. /\ r \in Refs
      /\ payment[r] # NoPayment
      /\ charge[r] = "success"
  BY TaskAt DEF TaskSound, Grant, At
<1>2. PICK s \in Subs, row \in Row :
          /\ sub' = [sub EXCEPT ![s] = row]
          /\ sub[s] # NoRow => SameOwner(row, sub[s])
          /\ Sound(row)
          /\ SameOwner(row, payment[r])
          /\ seen' \in [Subs -> SUBSET Subs]
          /\ \A x \in Subs : \A other \in seen'[x] : other \in seen[x] \/
                 (x = s /\ sub[other] # NoRow /\ ~SameOwner(row, sub[other]))
  BY GrantWrites
<1>3. UNCHANGED <<now, payment, charge, declined, fired, renewal, expiry, interrupted>>
  BY DEF Grant, paystack, crons
<1>4. /\ sub' \in [Subs -> Row \cup {NoRow}]
      /\ Persists
      /\ RowsSound'
      /\ sub'[s] = row
  BY <1>2, <1>3, RowWritten
<1>5. /\ task' \in [Tasks -> Task]
      /\ \A other \in Tasks \ {t} : task'[other] = task[other]
      /\ task'[t].pc = "linking"
      /\ task'[t].ref = r
  BY GotoTask DEF Grant, TaskPcs
<1>6. s \in Matches(task[t].ref)'
  BY <1>2, <1>3, <1>4, <1>5, NullsApart DEF Matches, OwnedBy, SameOwner
<1>7. TaskSound(t)'
  BY <1>1, <1>3, <1>5, <1>6 DEF TaskSound
<1>8. TypeOK'
  BY <1>2, <1>3, <1>4, <1>5 DEF TypeOK
<1>9. CopiesSound'
  BY <1>3, <1>4, <1>5, <1>7, RequestFrame
<1>10. LedgerSound'
  <2>1. \A other \in Refs, o \in Tasks :
            task[o].ref = other /\ task[o].pc \in {"finding", "granting"} =>
              \/ task'[o].ref = other /\ task'[o].pc \in {"finding", "granting"}
              \/ Matches(other)' # {}
    BY <1>5, <1>6
  <2> QED
    BY <1>3, <1>4, <2>1, LedgerFrame DEF InRenewal, IsBooked
<1> QED
  BY <1>8, <1>9, <1>10

LEMMA SaveSubscriptionInv ==
    ASSUME Inv, NEW t \in Tasks, SaveSubscription(t)
    PROVE  Inv'
<1> USE DEF Inv, CopiesSound
<1>1. /\ task[t].pc = "saving"
      /\ task[t].id \in Subs
      /\ task[t].row \in Row
      /\ SameOwner(task[t].row, sub[task[t].id])
      /\ Sound(task[t].row)
  BY TaskAt DEF TaskSound, CopyOfRow, SaveSubscription, At
<1>2. UNCHANGED <<now, payment, charge, declined, fired, renewal, expiry, interrupted, seen>>
  BY DEF SaveSubscription, paystack, crons
<1>3. /\ sub' \in [Subs -> Row \cup {NoRow}]
      /\ Persists
      /\ RowsSound'
  BY <1>1, <1>2, RowWritten DEF SaveSubscription, TypeOK
<1>4. /\ task' \in [Tasks -> Task]
      /\ \A other \in Tasks \ {t} : task'[other] = task[other]
      /\ TaskSound(t)'
  BY ReturnTask DEF SaveSubscription
<1>5. TypeOK'
  BY <1>2, <1>3, <1>4 DEF TypeOK
<1>6. CopiesSound'
  BY <1>2, <1>3, <1>4, RequestFrame
<1>7. LedgerSound'
  <2>1. \A r \in Refs, o \in Tasks :
            task[o].ref = r /\ task[o].pc \in {"finding", "granting"} =>
              task'[o].ref = r /\ task'[o].pc \in {"finding", "granting"}
    BY <1>1, <1>4
  <2> QED
    BY <1>2, <1>3, <2>1, LedgerFrame DEF InRenewal, IsBooked
<1> QED
  BY <1>5, <1>6, <1>7

\* A cancellation or an extension holds a copy that is sound from the start.
LEMMA HoldCopyInv ==
    ASSUME Inv, NEW t \in Tasks, NEW s \in Subs, NEW row \in Row,
           task[t].pc = "idle",
           NEW was \in SubStatus,
           task' = [task EXCEPT ![t].pc = "saving", ![t].id = s, ![t].row = row, ![t].was = was],
           CopyOfRow(row, s),
           was = "canceled" => row.status = "canceled",
           UNCHANGED <<now, payment, sub, charge, declined, fired, renewal, expiry, interrupted, seen>>
    PROVE  Inv'
<1> DEFINE new == [task[t] EXCEPT !.pc = "saving", !.id = s, !.row = row, !.was = was]
<1> USE DEF Inv
<1>1. /\ task' \in [Tasks -> Task]
      /\ \A other \in Tasks \ {t} : task'[other] = task[other]
      /\ task'[t].pc = "saving"
      /\ task'[t].id = s
      /\ task'[t].row = row
      /\ task'[t].was = was
  <2>1. new \in Task /\ new.pc = "saving" /\ new.id = s /\ new.row = row /\ new.was = was
    BY TaskAt DEF Task, TaskPcs
  <2>2. task' = [task EXCEPT ![t] = new] /\ task \in [Tasks -> Task]
    BY DEF TypeOK
  <2> HIDE DEF new
  <2>3. /\ task' \in [Tasks -> Task]
        /\ \A other \in Tasks \ {t} : task'[other] = task[other]
        /\ task'[t] = new
    BY <2>1, <2>2, PutTask
  <2> QED
    BY <2>1, <2>3
<1>2. Persists
  BY DEF Persists, PaymentsPersist, ChargesPersist, RowsPersist, SameOwner
<1>3. CopyOfRow(row, s)'
  BY <1>2, CopyPersists
<1>4. TaskSound(t)'
  BY <1>1, <1>3 DEF TaskSound
<1> QED
  BY <1>1, <1>4, MoveInv

LEMMA CancelSubscriptionInv ==
    ASSUME Inv, NEW t \in Tasks, NEW s \in Subs, CancelSubscription(t, s)
    PROVE  Inv'
<1>1. sub[s] # NoRow /\ sub[s] \in Row
  BY DEF CancelSubscription, Inv, TypeOK
<1>2. /\ Canceled(sub[s]) \in Row
      /\ Canceled(sub[s]).status = "canceled"
      /\ SameOwner(Canceled(sub[s]), sub[s])
  BY <1>1, RowUpdates DEF Canceled, SameOwner, Row
<1>3. CopyOfRow(Canceled(sub[s]), s)
  BY <1>1, <1>2 DEF CopyOfRow, Sound
<1> QED
  BY <1>1, <1>2, <1>3, HoldCopyInv DEF CancelSubscription, Begins, Row, store, paystack, crons

LEMMA ExtendSubscriptionInv ==
    ASSUME Inv, NEW t \in Tasks, NEW s \in Subs, NEW days \in ExtendDays,
           ExtendSubscription(t, s, days)
    PROVE  Inv'
<1> DEFINE row == Extended(sub[s], days)
<1>1. sub[s] # NoRow /\ sub[s] \in Row /\ Sound(sub[s])
  BY DEF ExtendSubscription, Inv, TypeOK, CopiesSound, RowsSound
<1>2. /\ row \in Row
      /\ row.user = sub[s].user
      /\ row.plan = sub[s].plan
      /\ row.auth = sub[s].auth
      /\ row.end > sub[s].end
      /\ sub[s].status = "expired" => row.status = "active" /\ row.nextCharge = row.end
      /\ sub[s].status # "expired" =>
            row.status = sub[s].status /\ row.nextCharge = sub[s].nextCharge
  BY <1>1, ExtendedRow DEF Inv
<1> HIDE DEF row
<1>3. /\ row.end \in Nat /\ row.nextCharge \in Nat
      /\ sub[s].end \in Nat /\ sub[s].nextCharge \in Nat
  BY <1>1, <1>2 DEF Row
<1>4. Sound(row)
  <2> SUFFICES ASSUME row.status \in {"active", "expired"}
               PROVE  /\ PaidFor(row.user, row.plan)
                      /\ row.auth
                      /\ row.end # NoDate
                      /\ row.nextCharge # NoDate
                      /\ row.nextCharge <= row.end
    BY DEF Sound
  <2>1. sub[s].status \in {"active", "expired"}
    BY <1>2
  <2>2. PaidFor(row.user, row.plan) /\ row.auth
    BY <1>1, <1>2, <2>1 DEF Sound
  <2>3. sub[s].end # NoDate /\ sub[s].nextCharge # NoDate /\ sub[s].nextCharge <= sub[s].end
    BY <1>1, <2>1 DEF Sound
  <2> QED
    BY <1>2, <1>3, <2>2, <2>3 DEF NoDate
<1>5. CopyOfRow(row, s)
  BY <1>1, <1>2, <1>4 DEF CopyOfRow, SameOwner
<1> QED
  BY <1>1, <1>2, <1>5, HoldCopyInv DEF ExtendSubscription, Begins, Row, store, paystack, crons, row

LEMMA TrialWrites ==
    ASSUME Inv, NEW u \in Users, NEW p \in Plans, CreateTrialSubscription(u, p)
    PROVE  \E s \in Subs, row \in Row :
               /\ sub[s] = NoRow
               /\ sub' = [sub EXCEPT ![s] = row]
               /\ row.status = "trial"
<1> DEFINE row == [BlankRow(u, p) EXCEPT !.trialEnd = now + Days(TrialDays[p])]
<1> USE DEF Inv, CopiesSound
<1>1. PICK s \in Subs : sub[s] = NoRow /\ sub' = [sub EXCEPT ![s] = row]
  BY DEF CreateTrialSubscription, IsNextId, IsFree
<1>2. now + Days(TrialDays[p]) \in Nat
  BY ConstantsAssumption, DaysPositive DEF TypeOK
<1>3. row \in Row /\ row.status = "trial"
  <2>1. BlankRow(u, p) \in Row
    BY BlankRowType
  <2>2. row \in Row
    BY <1>2, <2>1, RowUpdates
  <2>3. BlankRow(u, p).status = "trial"
    BY DEF BlankRow
  <2> QED
    BY <2>1, <2>2, <2>3 DEF Row
<1> QED
  BY <1>1, <1>3

LEMMA CreateTrialSubscriptionInv ==
    ASSUME Inv, NEW u \in Users, NEW p \in Plans, CreateTrialSubscription(u, p)
    PROVE  Inv'
<1> USE DEF Inv, CopiesSound
<1>1. PICK s \in Subs, row \in Row :
          /\ sub[s] = NoRow
          /\ sub' = [sub EXCEPT ![s] = row]
          /\ row.status = "trial"
  BY TrialWrites
<1>2. Sound(row)
  BY <1>1 DEF Sound
<1>3. UNCHANGED <<now, payment, charge, declined, task, fired, renewal, expiry, interrupted, seen>>
  BY DEF CreateTrialSubscription, paystack, crons
<1>4. /\ sub' \in [Subs -> Row \cup {NoRow}]
      /\ Persists
      /\ RowsSound'
  BY <1>1, <1>2, <1>3, RowWritten DEF TypeOK
<1>5. TypeOK'
  BY <1>3, <1>4 DEF TypeOK
<1>6. CopiesSound'
  BY <1>3, <1>4, TaskFrame, RenewalsFrame, ExpiriesFrame
<1>7. LedgerSound'
  BY <1>3, <1>4, LedgerFrame DEF InRenewal, IsBooked
<1> QED
  BY <1>5, <1>6, <1>7

-----------------------------------------------------------------------------
(* The customer, the clock and failures. *)

LEMMA CustomerPaysInv ==
    ASSUME Inv, NEW r \in Refs, CustomerPays(r)
    PROVE  Inv'
<1> USE DEF Inv, CopiesSound, LedgerSound
<1>1. UNCHANGED <<now, payment, sub, declined, task, fired, renewal, expiry, interrupted, seen>>
  BY DEF CustomerPays, store, crons
<1>2. /\ charge[r] = "open"
      /\ charge' \in [Refs -> {"none", "open", "failed", "success"}]
      /\ charge'[r] = "success"
      /\ \A other \in Refs \ {r} : charge'[other] = charge[other]
  BY DEF CustomerPays, TypeOK
<1>3. TypeOK'
  BY <1>1, <1>2 DEF TypeOK
<1>4. Persists
  BY <1>1, <1>2 DEF Persists, PaymentsPersist, ChargesPersist, RowsPersist, SameOwner
<1>5. CopiesSound'
  BY <1>1, <1>4, RowsFrame, TaskFrame, RenewalsFrame, ExpiriesFrame
<1>6. BookedIsCollected'
  BY <1>1, <1>2 DEF BookedIsCollected, IsBooked
<1>7. CollectedIsRecorded' /\ OpenIsRecorded'
  BY <1>1, <1>2 DEF CollectedIsRecorded, OpenIsRecorded, InRenewal
<1>8. SuccessIsGranted'
  BY <1>1 DEF SuccessIsGranted, IsBooked, Matches, OwnedBy
<1> QED
  BY <1>3, <1>5, <1>6, <1>7, <1>8

\* A step that changes neither a table, nor a charge, nor work in flight.
LEMMA IdleInv ==
    ASSUME Inv, TypeOK',
           UNCHANGED <<payment, sub, charge, task, renewal, expiry, interrupted, seen>>
    PROVE  Inv'
<1> USE DEF Inv, CopiesSound
<1>1. Persists
  BY DEF Persists, PaymentsPersist, ChargesPersist, RowsPersist, SameOwner
<1>2. CopiesSound'
  BY <1>1, RowsFrame, TaskFrame, RenewalsFrame, ExpiriesFrame
<1>3. LedgerSound'
  BY <1>1, LedgerFrame DEF InRenewal, IsBooked
<1> QED
  BY <1>2, <1>3

LEMMA CustomerDeclinedInv ==
    ASSUME Inv, NEW r \in Refs, CustomerDeclined(r)
    PROVE  Inv'
<1>1. TypeOK'
  BY DEF Inv, TypeOK, CustomerDeclined, store, crons
<1> QED
  BY <1>1, IdleInv DEF CustomerDeclined, store, crons

LEMMA TickInv ==
    ASSUME Inv, Tick
    PROVE  Inv'
<1>1. TypeOK'
  BY DEF Inv, TypeOK, Tick, paystack, crons
<1> QED
  BY <1>1, IdleInv DEF Tick, paystack, crons

LEMMA RequestThrowsInv ==
    ASSUME Inv, NEW t \in Tasks, RequestThrows(t)
    PROVE  Inv'
<1> USE DEF Inv, CopiesSound
<1>1. UNCHANGED <<now, payment, sub, charge, declined, fired, renewal, expiry, seen>>
  BY DEF RequestThrows, store, paystack, crons
<1>2. /\ task' \in [Tasks -> Task]
      /\ \A other \in Tasks \ {t} : task'[other] = task[other]
      /\ TaskSound(t)'
  BY ReturnTask DEF RequestThrows
<1>3. /\ interrupted' = interrupted \cup CutShort(t)
      /\ CutShort(t) \subseteq Refs
      /\ task[t].pc \in {"finding", "granting"} => task[t].ref \in CutShort(t)
  BY TaskAt DEF RequestThrows, CutShort, TaskSound
<1>4. TypeOK'
  BY <1>1, <1>2, <1>3 DEF TypeOK
<1>5. Persists
  BY <1>1 DEF Persists, PaymentsPersist, ChargesPersist, RowsPersist, SameOwner
<1>6. CopiesSound'
  BY <1>1, <1>2, <1>5, RowsFrame, RequestFrame
<1>7. LedgerSound'
  <2>1. \A r \in Refs, o \in Tasks :
            task[o].ref = r /\ task[o].pc \in {"finding", "granting"} =>
              \/ task'[o].ref = r /\ task'[o].pc \in {"finding", "granting"}
              \/ r \in interrupted'
    BY <1>2, <1>3
  <2> QED
    BY <1>1, <1>3, <1>5, <2>1, LedgerFrame DEF InRenewal, IsBooked
<1> QED
  BY <1>4, <1>6, <1>7

LEMMA ProcessStopsInv ==
    ASSUME Inv, ProcessStops
    PROVE  Inv'
<1> USE DEF Inv, CopiesSound
<1> DEFINE cuts == (UNION {CutShort(t) : t \in Tasks})
           cut == cuts \cup {r \in Refs : InRenewal(r)}
<1>1. UNCHANGED <<now, payment, sub, charge, declined, fired, seen>>
  BY DEF ProcessStops, store, paystack
<1>2. Nothing \in Batch /\ \A s \in Subs : Nothing[s] = NoRow
  BY DEF Nothing, Batch
<1>3. /\ renewal' \in [Loops -> Renewal]
      /\ \A l \in Loops : /\ renewal'[l].pc = "loop"
                          /\ renewal'[l].ref = NoRef
                          /\ renewal'[l].batch = Nothing
  BY <1>2 DEF ProcessStops, Renewal, RenewalPcs, NoRenewal
<1>4. expiry' \in [Loops -> Batch] /\ \A l \in Loops : expiry'[l] = Nothing
  BY <1>2 DEF ProcessStops
<1>5. /\ task' \in [Tasks -> Task]
      /\ \A t \in Tasks : task'[t].pc = "idle"
  BY DEF ProcessStops, Task, TaskPcs, IdleTask
<1>6. interrupted' = interrupted \cup cut
  <2>1. interrupted' = interrupted \cup cuts \cup {r \in Refs : InRenewal(r)}
    BY DEF ProcessStops
  <2> HIDE DEF cuts
  <2> QED
    BY <2>1
<1>7. \A t \in Tasks : CutShort(t) \subseteq Refs
  BY TaskAt DEF CutShort, TaskSound
<1>8. /\ cut \subseteq Refs
      /\ \A t \in Tasks : CutShort(t) \subseteq cut
      /\ \A r \in Refs : InRenewal(r) => r \in cut
  <2>1. cuts \subseteq Refs
    BY <1>7
  <2>2. \A t \in Tasks : CutShort(t) \subseteq cuts
    OBVIOUS
  <2> HIDE DEF cuts
  <2> QED
    BY <2>1, <2>2
<1> HIDE DEF cut
<1>9. TypeOK'
  BY <1>1, <1>3, <1>4, <1>5, <1>6, <1>8 DEF TypeOK
<1>10. Persists
  BY <1>1 DEF Persists, PaymentsPersist, ChargesPersist, RowsPersist, SameOwner
<1>11. \A l \in Loops : RenewalSound(l)' /\ ExpirySound(l)'
  BY <1>2, <1>3, <1>4 DEF RenewalSound, ExpirySound
<1>12. \A t \in Tasks : TaskSound(t)'
  BY <1>5 DEF TaskSound
<1>13. RowsSound'
  BY <1>1, <1>10, RowsFrame
<1>14. LedgerSound'
  <2>1. ASSUME NEW r \in Refs, NEW t \in Tasks, task[t].ref = r, task[t].pc \in {"finding", "granting"}
        PROVE  r \in interrupted'
    <3>1. r \in CutShort(t)
      BY <2>1 DEF CutShort
    <3> QED
      BY <1>6, <1>8, <3>1
  <2>2. \A r \in Refs : InRenewal(r) => r \in interrupted'
    BY <1>6, <1>8
  <2> QED
    BY <1>1, <1>6, <1>10, <2>1, <2>2, LedgerFrame DEF IsBooked
<1> QED
  BY <1>9, <1>11, <1>12, <1>13, <1>14

-----------------------------------------------------------------------------
(* The renewal cron. *)

\* A step that takes loop l to x: its copies stay sound and its reference its own.
LEMMA LoopMoves ==
    ASSUME Inv, Persists, NEW l \in Loops, NEW x \in Renewal,
           renewal' = [renewal EXCEPT ![l] = x],
           x.pc = "loop" => x.ref = NoRef,
           x.pc # "loop" =>
               /\ x.cur \in Subs
               /\ x.batch[x.cur] # NoRow
               /\ x.ref \in Refs
               /\ payment'[x.ref] = NoPayment
               /\ x.ref = renewal[l].ref \/ ~InRenewal(x.ref),
           x.pc \in {"saving", "recording"} => charge'[x.ref] = "success",
           \A s \in Subs : x.batch[s] # NoRow =>
               CopyOfRow(x.batch[s], s) /\ x.batch[s].status = "active",
           \A o \in Loops \ {l} : renewal[o].pc # "loop" =>
               payment'[renewal[o].ref] = payment[renewal[o].ref],
           RowsSound', task' = task, expiry' = expiry
    PROVE  renewal' \in [Loops -> Renewal] /\ CopiesSound'
<1> USE DEF Inv, CopiesSound
<1>1. /\ renewal' \in [Loops -> Renewal]
      /\ renewal'[l] = x
      /\ \A o \in Loops \ {l} : renewal'[o] = renewal[o]
  BY DEF TypeOK
<1>2. \A o \in Loops : /\ RenewalSound(o)
                       /\ renewal[o].pc = "loop" => renewal[o].ref = NoRef
                       /\ renewal[o].pc # "loop" => renewal[o].ref \in Refs
  BY DEF RenewalSound
<1>3. ASSUME NEW o \in Loops \ {l}, renewal[o].pc # "loop" \/ x.pc # "loop"
      PROVE  x.ref # renewal[o].ref
  <2>1. CASE x.pc = "loop"
    BY <1>2, <1>3, <2>1, NullsApart
  <2>2. CASE x.pc # "loop" /\ x.ref = renewal[l].ref
    BY <1>2, <2>2, NullsApart DEF RenewalSound
  <2>3. CASE x.pc # "loop" /\ ~InRenewal(x.ref)
    BY <2>3 DEF InRenewal
  <2> QED
    BY <2>1, <2>2, <2>3
<1>4. ASSUME NEW o \in Loops \ {l}
      PROVE  RenewalSound(o)'
  <2>1. renewal[o].pc # "loop" =>
            \A other \in Loops \ {o} : renewal'[other].ref # renewal[o].ref
    BY <1>1, <1>2, <1>3 DEF RenewalSound
  <2> QED
    BY <1>1, <1>2, <2>1, RenewalFrame
<1>5. RenewalSound(l)'
  <2>1. ASSUME NEW s \in Subs, x.batch[s] # NoRow
        PROVE  CopyOfRow(x.batch[s], s)' /\ x.batch[s].status = "active"
    BY <2>1, CopyPersists
  <2>2. x.pc # "loop" => \A o \in Loops \ {l} : renewal'[o].ref # x.ref
    BY <1>1, <1>3
  <2> QED
    BY <1>1, <2>1, <2>2 DEF RenewalSound
<1>6. \A t \in Tasks : TaskSound(t)'
  BY TaskFrame
<1>7. \A o \in Loops : ExpirySound(o)'
  BY ExpiriesFrame
<1> QED
  BY <1>1, <1>4, <1>5, <1>6, <1>7

LEMMA RenewalAt ==
    ASSUME Inv, NEW l \in Loops
    PROVE  /\ renewal[l] \in Renewal
           /\ renewal[l].batch \in [Subs -> Row \cup {NoRow}]
           /\ \A s \in Subs : renewal[l].batch[s] # NoRow =>
                  /\ CopyOfRow(renewal[l].batch[s], s)
                  /\ renewal[l].batch[s].status = "active"
           /\ renewal[l].pc # "loop" =>
                /\ renewal[l].cur \in Subs
                /\ renewal[l].ref \in Refs
                /\ payment[renewal[l].ref] = NoPayment
                /\ InHand(l) \in Row
                /\ InHand(l) # NoRow
                /\ InHand(l).status = "active"
                /\ sub[renewal[l].cur] # NoRow
                /\ SameOwner(InHand(l), sub[renewal[l].cur])
                /\ Sound(InHand(l))
           /\ renewal[l].pc \in {"saving", "recording"} => charge[renewal[l].ref] = "success"
BY DEF Inv, CopiesSound, RenewalSound, InHand, TypeOK, Renewal, Batch, CopyOfRow

\* A reference in the hands of a loop stays there, if not another loop moves.
LEMMA RefKept ==
    ASSUME Inv, NEW l \in Loops, NEW x \in Renewal, renewal' = [renewal EXCEPT ![l] = x],
           NEW r \in Refs, InRenewal(r), renewal[l].ref # r \/ x.ref = r
    PROVE  InRenewal(r)'
<1>1. /\ renewal'[l] = x
      /\ \A o \in Loops \ {l} : renewal'[o] = renewal[o]
  BY DEF Inv, TypeOK
<1> QED
  BY <1>1 DEF InRenewal

LEMMA HandleSubscriptionRenewalInv ==
    ASSUME Inv, NEW l \in Loops, HandleSubscriptionRenewal(l)
    PROVE  Inv'
<1> USE DEF Inv, CopiesSound
<1> PICK batch : batch = CopyOf(DueSubs)
  OBVIOUS
<1> DEFINE x == [renewal[l] EXCEPT !.batch = batch]
<1>1. UNCHANGED <<now, payment, sub, charge, declined, task, expiry, interrupted, seen>>
  BY DEF HandleSubscriptionRenewal, store, paystack
<1>2. batch \in Batch
  BY DEF CopyOf, TypeOK, Batch
<1>3. \A s \in Subs : batch[s] # NoRow =>
          batch[s] = sub[s] /\ sub[s] # NoRow /\ sub[s].status = "active"
  BY DEF CopyOf, DueSubs, Due
<1>4. renewal[l].pc = "loop" /\ renewal[l].ref = NoRef
  BY DEF HandleSubscriptionRenewal, RenewalIdle, NoRenewal
<1>5. renewal' = [renewal EXCEPT ![l] = x]
  BY DEF HandleSubscriptionRenewal
<1>6. x \in Renewal /\ x.pc = "loop" /\ x.ref = NoRef /\ x.batch = batch
  BY <1>2, <1>4, RenewalAt DEF Renewal
<1> HIDE DEF x
<1>7. Persists
  BY <1>1 DEF Persists, PaymentsPersist, ChargesPersist, RowsPersist, SameOwner
<1>8. \A s \in Subs : batch[s] # NoRow => CopyOfRow(batch[s], s) /\ batch[s].status = "active"
  BY <1>3 DEF CopyOfRow, SameOwner, RowsSound
<1>9. RowsSound'
  BY <1>1, <1>7, RowsFrame
<1>10. renewal' \in [Loops -> Renewal] /\ CopiesSound'
  BY <1>1, <1>5, <1>6, <1>7, <1>8, <1>9, LoopMoves
<1>11. TypeOK'
  BY <1>1, <1>10 DEF TypeOK, HandleSubscriptionRenewal
<1>12. \A r \in Refs : InRenewal(r) => InRenewal(r)'
  BY <1>4, <1>5, <1>6, NullsApart, RefKept
<1>13. LedgerSound'
  BY <1>1, <1>7, <1>12, LedgerFrame DEF IsBooked
<1> QED
  BY <1>10, <1>11, <1>13

LEMMA ChargesInv ==
    ASSUME Inv, NEW l \in Loops, NEW s \in Subs, NEW r \in Refs, NEW row \in Row,
           NEW answer \in {"none", "failed", "success"}, NEW next \in {"saving", "failing"},
           next = "saving" => answer = "success",
           renewal[l].batch[s] # NoRow => CopyOfRow(row, s) /\ row.status = "active",
           Charges(l, s, r, answer, next, row), declined' \subseteq Refs
    PROVE  Inv'
<1> USE DEF Inv, CopiesSound, LedgerSound
<1> DEFINE batch == [renewal[l].batch EXCEPT ![s] = row]
           x == [renewal[l] EXCEPT !.pc = next, !.cur = s, !.ref = r, !.batch = batch]
<1>1. UNCHANGED <<now, payment, sub, task, fired, expiry, interrupted, seen>>
  BY DEF Charges, store
<1>2. /\ renewal[l].pc = "loop"
      /\ renewal[l].batch[s] # NoRow
      /\ payment[r] = NoPayment
      /\ charge[r] = "none"
      /\ ~InRenewal(r)
      /\ renewal[l].ref = NoRef
  BY DEF Charges, Unused, RenewalSound
<1>3. /\ charge' \in [Refs -> {"none", "open", "failed", "success"}]
      /\ charge'[r] = answer
      /\ \A other \in Refs \ {r} : charge'[other] = charge[other]
  BY DEF Charges, TypeOK
<1>4. /\ batch \in [Subs -> Row \cup {NoRow}]
      /\ batch[s] = row
      /\ \A other \in Subs \ {s} : batch[other] = renewal[l].batch[other]
  BY RenewalAt
<1>5. renewal' = [renewal EXCEPT ![l] = x]
  BY DEF Charges
<1> HIDE DEF batch
<1>6. x \in Renewal /\ x.pc = next /\ x.cur = s /\ x.ref = r /\ x.batch = batch
  BY <1>4, RenewalAt DEF Renewal, RenewalPcs, Batch
<1> HIDE DEF x
<1>7. Persists
  BY <1>1, <1>2, <1>3 DEF Persists, PaymentsPersist, ChargesPersist, RowsPersist, SameOwner
<1>8. RowsSound'
  BY <1>1, <1>7, RowsFrame
<1>9. \A other \in Subs : batch[other] # NoRow =>
          CopyOfRow(batch[other], other) /\ batch[other].status = "active"
  BY <1>2, <1>4, RenewalAt
<1>10. batch[s] # NoRow
  BY <1>4, NullsApart
<1>11. renewal' \in [Loops -> Renewal] /\ CopiesSound'
  BY <1>1, <1>2, <1>3, <1>5, <1>6, <1>7, <1>8, <1>9, <1>10, LoopMoves
<1>12. TypeOK'
  BY <1>1, <1>3, <1>11 DEF TypeOK
<1>13. \A other \in Refs : InRenewal(other) => InRenewal(other)'
  BY <1>2, <1>5, <1>6, NullsApart, RefKept
<1>14. InRenewal(r)'
  BY <1>5, <1>6 DEF InRenewal, TypeOK
<1>15. BookedIsCollected'
  BY <1>1, <1>2, <1>3 DEF BookedIsCollected, IsBooked
<1>16. CollectedIsRecorded' /\ OpenIsRecorded'
  BY <1>1, <1>2, <1>3, <1>13, <1>14 DEF CollectedIsRecorded, OpenIsRecorded
<1>17. SuccessIsGranted'
  BY <1>1 DEF SuccessIsGranted, IsBooked, Matches, OwnedBy
<1> QED
  BY <1>11, <1>12, <1>15, <1>16, <1>17

LEMMA ChargeInv ==
    ASSUME Inv, NEW l \in Loops, NEW s \in Subs, NEW r \in Refs,
           ChargeSucceeds(l, s, r) \/ ChargeDeclined(l, s, r) \/ ChargeThrows(l, s, r)
    PROVE  Inv'
<1> PICK old : old = renewal[l].batch[s]
  OBVIOUS
<1> PICK new : new = Activated(old)
  OBVIOUS
<1>1. declined' \subseteq Refs
  BY DEF Inv, TypeOK, ChargeSucceeds, ChargeDeclined, ChargeThrows
<1>2. old # NoRow
  BY DEF ChargeSucceeds, ChargeDeclined, ChargeThrows, Charges
<1>3. old \in Row /\ CopyOfRow(old, s) /\ old.status = "active"
  BY <1>2, RenewalAt
<1>4. new \in Row /\ CopyOfRow(new, s) /\ new.status = "active"
  BY <1>3, ActivatedRow DEF Inv, CopyOfRow, SameOwner, Sound, Row
<1>5. CASE ChargeSucceeds(l, s, r)
  BY <1>1, <1>4, <1>5, ChargesInv DEF ChargeSucceeds
<1>6. CASE ChargeDeclined(l, s, r)
  BY <1>1, <1>3, <1>6, ChargesInv DEF ChargeDeclined
<1>7. CASE ChargeThrows(l, s, r)
  BY <1>1, <1>3, <1>7, ChargesInv DEF ChargeThrows
<1> QED
  BY <1>5, <1>6, <1>7

\* The loop goes on to its next entity: the current one leaves the batch.
LEMMA NextInLoopFacts ==
    ASSUME Inv, Persists, NEW l \in Loops, renewal[l].pc # "loop", renewal' = NextInLoop(l),
           \A o \in Loops \ {l} : renewal[o].pc # "loop" =>
               payment'[renewal[o].ref] = payment[renewal[o].ref],
           RowsSound', task' = task, expiry' = expiry
    PROVE  /\ renewal' \in [Loops -> Renewal]
           /\ CopiesSound'
           /\ \A r \in Refs : InRenewal(r) => InRenewal(r)' \/ r = renewal[l].ref
<1> DEFINE batch == [renewal[l].batch EXCEPT ![renewal[l].cur] = NoRow]
           x == [renewal[l] EXCEPT !.pc = "loop", !.cur = NoSub, !.ref = NoRef, !.batch = batch]
<1>1. /\ batch \in [Subs -> Row \cup {NoRow}]
      /\ \A s \in Subs : batch[s] = NoRow \/ batch[s] = renewal[l].batch[s]
  BY RenewalAt
<1>2. renewal' = [renewal EXCEPT ![l] = x]
  BY DEF NextInLoop
<1> HIDE DEF batch
<1>3. x \in Renewal /\ x.pc = "loop" /\ x.ref = NoRef /\ x.batch = batch
  BY <1>1, RenewalAt DEF Renewal, RenewalPcs, Batch
<1> HIDE DEF x
<1>4. \A s \in Subs : batch[s] # NoRow => CopyOfRow(batch[s], s) /\ batch[s].status = "active"
  BY <1>1, RenewalAt
<1>5. renewal' \in [Loops -> Renewal] /\ CopiesSound'
  BY <1>2, <1>3, <1>4, LoopMoves
<1>6. \A r \in Refs : InRenewal(r) => InRenewal(r)' \/ r = renewal[l].ref
  BY <1>2, <1>3, RefKept
<1> QED
  BY <1>5, <1>6

\* A step of a loop that keeps its reference and its copies.
LEMMA NextAwait ==
    ASSUME Inv, Persists, NEW l \in Loops, renewal[l].pc # "loop",
           NEW pc \in RenewalPcs \ {"loop"},
           renewal' = [renewal EXCEPT ![l].pc = pc],
           pc \in {"saving", "recording"} => renewal[l].pc \in {"saving", "recording"},
           UNCHANGED <<now, payment, charge, declined, task, fired, expiry, interrupted>>,
           sub' \in [Subs -> Row \cup {NoRow}],
           seen' \in [Subs -> SUBSET Subs],
           RowsSound'
    PROVE  Inv'
<1> USE DEF Inv
<1> DEFINE x == [renewal[l] EXCEPT !.pc = pc]
<1>1. renewal' = [renewal EXCEPT ![l] = x]
  OBVIOUS
<1>2. /\ x \in Renewal
      /\ x.pc = pc
      /\ x.cur = renewal[l].cur
      /\ x.ref = renewal[l].ref
      /\ x.batch = renewal[l].batch
  BY RenewalAt DEF Renewal
<1> HIDE DEF x
<1>3. /\ x.pc # "loop"
      /\ x.cur \in Subs
      /\ x.batch[x.cur] # NoRow
      /\ x.ref \in Refs
      /\ payment'[x.ref] = NoPayment
      /\ x.pc \in {"saving", "recording"} => charge'[x.ref] = "success"
      /\ \A s \in Subs : x.batch[s] # NoRow =>
             CopyOfRow(x.batch[s], s) /\ x.batch[s].status = "active"
  BY <1>2, RenewalAt DEF InHand
<1>4. renewal' \in [Loops -> Renewal] /\ CopiesSound'
  <2>1. UNCHANGED <<payment, task, expiry>>
    OBVIOUS
  <2> QED
    BY <1>1, <1>2, <1>3, <2>1, LoopMoves
<1>5. TypeOK'
  BY <1>4 DEF TypeOK
<1>6. \A r \in Refs : InRenewal(r) => InRenewal(r)'
  BY <1>1, <1>2, RefKept
<1>7. LedgerSound'
  BY <1>6, LedgerFrame DEF IsBooked
<1> QED
  BY <1>4, <1>5, <1>7

LEMMA RenewalSaveInv ==
    ASSUME Inv, NEW l \in Loops, RenewalSave(l)
    PROVE  Inv'
<1> PICK cur : cur = renewal[l].cur
  OBVIOUS
<1> PICK row : row = InHand(l)
  OBVIOUS
<1>1. UNCHANGED <<now, payment, charge, declined, task, fired, expiry, interrupted, seen>>
  BY DEF RenewalSave, paystack
<1>2. /\ renewal[l].pc = "saving"
      /\ cur \in Subs
      /\ row \in Row
      /\ SameOwner(row, sub[cur])
      /\ Sound(row)
      /\ sub' = [sub EXCEPT ![cur] = row]
  BY RenewalAt DEF RenewalSave
<1>3. /\ sub' \in [Subs -> Row \cup {NoRow}]
      /\ Persists
      /\ RowsSound'
  BY <1>1, <1>2, RowWritten DEF Inv, TypeOK
<1>4. /\ renewal' = [renewal EXCEPT ![l].pc = "recording"]
      /\ "recording" \in RenewalPcs \ {"loop"}
      /\ renewal[l].pc # "loop"
      /\ seen' \in [Subs -> SUBSET Subs]
  BY <1>1, <1>2 DEF RenewalSave, RenewalPcs, Inv, TypeOK
<1> QED
  BY <1>1, <1>2, <1>3, <1>4, NextAwait

LEMMA RenewalFailureSaveInv ==
    ASSUME Inv, NEW l \in Loops, RenewalFailureSave(l)
    PROVE  Inv'
<1> PICK cur : cur = renewal[l].cur
  OBVIOUS
<1> PICK row : row = Expired(InHand(l))
  OBVIOUS
<1>1. UNCHANGED <<now, payment, charge, declined, task, fired, expiry, interrupted, seen>>
  BY DEF RenewalFailureSave, paystack
<1>2. /\ renewal[l].pc = "failing"
      /\ cur \in Subs
      /\ InHand(l) \in Row
      /\ InHand(l).status = "active"
      /\ SameOwner(InHand(l), sub[cur])
      /\ Sound(InHand(l))
      /\ sub' = [sub EXCEPT ![cur] = row]
  BY RenewalAt DEF RenewalFailureSave
<1>3. /\ row \in Row
      /\ row.user = InHand(l).user
      /\ row.plan = InHand(l).plan
      /\ row.auth = InHand(l).auth
      /\ row.end = InHand(l).end
      /\ row.nextCharge = InHand(l).nextCharge
  BY <1>2, RowUpdates DEF Expired, Row
<1>4. Sound(row) /\ SameOwner(row, sub[cur])
  BY <1>2, <1>3 DEF Sound, SameOwner
<1>5. /\ sub' \in [Subs -> Row \cup {NoRow}]
      /\ Persists
      /\ RowsSound'
  BY <1>1, <1>2, <1>3, <1>4, RowWritten DEF Inv, TypeOK
<1>6. /\ renewal' = [renewal EXCEPT ![l].pc = "recordingFailure"]
      /\ "recordingFailure" \in RenewalPcs \ {"loop"}
      /\ renewal[l].pc # "loop"
      /\ seen' \in [Subs -> SUBSET Subs]
  BY <1>1, <1>2 DEF RenewalFailureSave, RenewalPcs, Inv, TypeOK
<1> QED
  BY <1>1, <1>2, <1>5, <1>6, NextAwait

LEMMA RenewalThrowsInv ==
    ASSUME Inv, NEW l \in Loops, RenewalThrows(l)
    PROVE  Inv'
<1>1. UNCHANGED <<now, payment, sub, charge, declined, task, fired, expiry, interrupted, seen>>
  BY DEF RenewalThrows, store, paystack
<1>2. Persists
  BY <1>1 DEF Persists, PaymentsPersist, ChargesPersist, RowsPersist, SameOwner
<1>3. RowsSound'
  BY <1>1, <1>2, RowsFrame DEF Inv, CopiesSound
<1> QED
  BY <1>1, <1>2, <1>3, NextAwait DEF RenewalThrows, RenewalPcs, Inv, TypeOK

\* The payment row of the charge in hand is inserted and the loop goes on.
LEMMA RecordPaymentInv ==
    ASSUME Inv, NEW l \in Loops, NEW status \in {"success", "failed"},
           renewal[l].pc # "loop",
           status = "success" => charge[renewal[l].ref] = "success",
           RenewalPayment(l, status),
           renewal' = NextInLoop(l),
           UNCHANGED <<now, sub, charge, declined, task, fired, expiry, interrupted, seen>>
    PROVE  Inv'
<1> USE DEF Inv, CopiesSound, LedgerSound
<1> PICK new : new = [user |-> InHand(l).user, plan |-> InHand(l).plan, status |-> status]
  OBVIOUS
<1> PICK ref : ref = renewal[l].ref
  OBVIOUS
<1> PICK cur : cur = renewal[l].cur
  OBVIOUS
<1>1. /\ cur \in Subs
      /\ ref \in Refs
      /\ payment[ref] = NoPayment
      /\ InHand(l) \in Row
      /\ sub[cur] # NoRow
      /\ SameOwner(InHand(l), sub[cur])
  BY RenewalAt
<1>2. /\ new \in Payment
      /\ new.user = InHand(l).user
      /\ new.plan = InHand(l).plan
      /\ new.status = status
  BY <1>1 DEF Row, Payment, PaymentStatus
<1>3. /\ payment' \in [Refs -> Payment \cup {NoPayment}]
      /\ payment'[ref] = new
      /\ \A r \in Refs \ {ref} : payment'[r] = payment[r]
  BY <1>1, <1>2 DEF RenewalPayment, TypeOK
<1>4. Persists
  BY <1>1, <1>3 DEF Persists, PaymentsPersist, ChargesPersist, RowsPersist, SameOwner
<1>5. RowsSound'
  BY <1>4, RowsFrame
<1>6. \A o \in Loops \ {l} : renewal[o].pc # "loop" =>
          payment'[renewal[o].ref] = payment[renewal[o].ref]
  BY <1>3, RenewalAt DEF RenewalSound
<1>7. /\ renewal' \in [Loops -> Renewal]
      /\ CopiesSound'
      /\ \A r \in Refs : InRenewal(r) => InRenewal(r)' \/ r = ref
  BY <1>4, <1>5, <1>6, NextInLoopFacts
<1>8. TypeOK'
  BY <1>3, <1>7 DEF TypeOK
<1>9. BookedIsCollected'
  BY <1>2, <1>3 DEF BookedIsCollected, IsBooked
<1>10. CollectedIsRecorded' /\ OpenIsRecorded'
  BY <1>2, <1>3, <1>7, NullsApart DEF CollectedIsRecorded, OpenIsRecorded
<1>11. SuccessIsGranted'
  <2>1. cur \in Matches(ref)'
    BY <1>1, <1>2, <1>3 DEF Matches, OwnedBy, SameOwner
  <2>2. ASSUME NEW r \in Refs \ {ref}
        PROVE  /\ IsBooked(r)' = IsBooked(r)
               /\ Matches(r)' = Matches(r)
    BY <1>3, <2>2 DEF IsBooked, Matches, OwnedBy
  <2> QED
    BY <2>1, <2>2 DEF SuccessIsGranted
<1> QED
  BY <1>7, <1>8, <1>9, <1>10, <1>11

LEMMA RenewalRecordInv ==
    ASSUME Inv, NEW l \in Loops, RenewalRecord(l)
    PROVE  Inv'
<1>1. renewal[l].pc = "recording" /\ charge[renewal[l].ref] = "success"
  BY RenewalAt DEF RenewalRecord
<1> QED
  BY <1>1, RecordPaymentInv DEF RenewalRecord, paystack

LEMMA RenewalFailureRecordInv ==
    ASSUME Inv, NEW l \in Loops, RenewalFailureRecord(l)
    PROVE  Inv'
BY RecordPaymentInv DEF RenewalFailureRecord, paystack

LEMMA RenewalFailureThrowsInv ==
    ASSUME Inv, NEW l \in Loops, RenewalFailureThrows(l)
    PROVE  Inv'
<1> USE DEF Inv, CopiesSound
<1>1. UNCHANGED <<now, payment, sub, charge, declined, task, fired, expiry, seen>>
  BY DEF RenewalFailureThrows, store, paystack
<1>2. /\ renewal[l].pc # "loop"
      /\ renewal[l].ref \in Refs
      /\ interrupted' = interrupted \cup {renewal[l].ref}
      /\ renewal' = NextInLoop(l)
  BY RenewalAt DEF RenewalFailureThrows
<1>3. Persists
  BY <1>1 DEF Persists, PaymentsPersist, ChargesPersist, RowsPersist, SameOwner
<1>4. RowsSound'
  BY <1>1, <1>3, RowsFrame
<1>5. /\ renewal' \in [Loops -> Renewal]
      /\ CopiesSound'
      /\ \A r \in Refs : InRenewal(r) => InRenewal(r)' \/ r = renewal[l].ref
  BY <1>1, <1>2, <1>3, <1>4, NextInLoopFacts
<1>6. TypeOK'
  BY <1>1, <1>2, <1>5 DEF TypeOK
<1>7. LedgerSound'
  BY <1>1, <1>2, <1>3, <1>5, LedgerFrame DEF IsBooked
<1> QED
  BY <1>5, <1>6, <1>7

-----------------------------------------------------------------------------
(* The expiry cron. *)

\* A step that takes an expiry loop to a batch of sound copies.
LEMMA ExpiryMoves ==
    ASSUME Inv, Persists, NEW l \in Loops, NEW batch \in Batch,
           expiry' = [expiry EXCEPT ![l] = batch],
           \A s \in Subs : batch[s] # NoRow =>
               CopyOfRow(batch[s], s) /\ batch[s].status = "active",
           UNCHANGED <<now, payment, charge, declined, task, renewal, interrupted>>,
           sub' \in [Subs -> Row \cup {NoRow}],
           seen' \in [Subs -> SUBSET Subs],
           fired' \subseteq {"renewal", "expiry"},
           RowsSound'
    PROVE  Inv'
<1> USE DEF Inv, CopiesSound
<1>1. /\ expiry' \in [Loops -> Batch]
      /\ expiry'[l] = batch
      /\ \A o \in Loops \ {l} : expiry'[o] = expiry[o]
  BY DEF TypeOK
<1>2. ExpirySound(l)'
  <2>1. ASSUME NEW s \in Subs, batch[s] # NoRow
        PROVE  CopyOfRow(batch[s], s)' /\ batch[s].status = "active"
    BY <2>1, CopyPersists
  <2> QED
    BY <1>1, <2>1 DEF ExpirySound
<1>3. \A o \in Loops : ExpirySound(o)'
  BY <1>1, <1>2, ExpiryFrame
<1>4. \A o \in Loops : RenewalSound(o)'
  BY RenewalsFrame
<1>5. CopiesSound'
  BY <1>3, <1>4, TaskFrame
<1>6. TypeOK'
  BY <1>1 DEF TypeOK
<1>7. LedgerSound'
  BY LedgerFrame DEF InRenewal, IsBooked
<1> QED
  BY <1>5, <1>6, <1>7

LEMMA HandleExpiredSubscriptionsInv ==
    ASSUME Inv, NEW l \in Loops, HandleExpiredSubscriptions(l)
    PROVE  Inv'
<1> USE DEF Inv, CopiesSound
<1> PICK batch : batch = CopyOf(LapsedSubs)
  OBVIOUS
<1>1. UNCHANGED <<now, payment, sub, charge, declined, task, renewal, interrupted, seen>>
  BY DEF HandleExpiredSubscriptions, store, paystack
<1>2. batch \in Batch
  BY DEF CopyOf, TypeOK, Batch
<1>3. \A s \in Subs : batch[s] # NoRow =>
          batch[s] = sub[s] /\ sub[s] # NoRow /\ sub[s].status = "active"
  BY DEF CopyOf, LapsedSubs, Lapsed
<1>4. expiry' = [expiry EXCEPT ![l] = batch] /\ fired' \subseteq {"renewal", "expiry"}
  BY DEF HandleExpiredSubscriptions, TypeOK
<1>5. Persists
  BY <1>1 DEF Persists, PaymentsPersist, ChargesPersist, RowsPersist, SameOwner
<1>6. \A s \in Subs : batch[s] # NoRow => CopyOfRow(batch[s], s) /\ batch[s].status = "active"
  BY <1>3 DEF CopyOfRow, SameOwner, RowsSound
<1>7. RowsSound'
  BY <1>1, <1>5, RowsFrame
<1> QED
  BY <1>1, <1>2, <1>4, <1>5, <1>6, <1>7, ExpiryMoves DEF TypeOK

LEMMA ExpiryAt ==
    ASSUME Inv, NEW l \in Loops
    PROVE  /\ expiry[l] \in [Subs -> Row \cup {NoRow}]
           /\ \A s \in Subs : expiry[l][s] # NoRow =>
                  /\ expiry[l][s] \in Row
                  /\ CopyOfRow(expiry[l][s], s)
                  /\ SameOwner(expiry[l][s], sub[s])
                  /\ Sound(expiry[l][s])
                  /\ expiry[l][s].status = "active"
BY DEF Inv, TypeOK, CopiesSound, ExpirySound, Batch, CopyOfRow

LEMMA ExpireOneInv ==
    ASSUME Inv, NEW l \in Loops, NEW s \in Subs, ExpireOne(l, s)
    PROVE  Inv'
<1> USE DEF Inv, CopiesSound
<1> DEFINE left == [expiry[l] EXCEPT ![s] = NoRow]
<1> PICK held : held = expiry[l][s]
  OBVIOUS
<1>1. UNCHANGED <<now, payment, charge, declined, task, fired, renewal, interrupted, seen>>
  BY DEF ExpireOne, paystack
<1>2. held \in Row /\ SameOwner(held, sub[s]) /\ Sound(held) /\ held.status = "active"
  BY ExpiryAt DEF ExpireOne
<1>3. /\ Expired(held) \in Row
      /\ Expired(held).user = held.user
      /\ Expired(held).plan = held.plan
      /\ Expired(held).auth = held.auth
      /\ Expired(held).end = held.end
      /\ Expired(held).nextCharge = held.nextCharge
  BY <1>2, RowUpdates DEF Expired, Row
<1>4. Sound(Expired(held)) /\ SameOwner(Expired(held), sub[s])
  BY <1>2, <1>3 DEF Sound, SameOwner
<1>5. sub' = [sub EXCEPT ![s] = Expired(held)]
  BY DEF ExpireOne
<1>6. /\ sub' \in [Subs -> Row \cup {NoRow}]
      /\ Persists
      /\ RowsSound'
  BY <1>1, <1>3, <1>4, <1>5, RowWritten DEF TypeOK
<1>7. /\ left \in Batch
      /\ \A x \in Subs : left[x] = NoRow \/ left[x] = expiry[l][x]
  BY ExpiryAt DEF Batch
<1>8. expiry' = [expiry EXCEPT ![l] = left]
  BY DEF ExpireOne
<1> HIDE DEF left
<1>9. \A x \in Subs : left[x] # NoRow => CopyOfRow(left[x], x) /\ left[x].status = "active"
  BY <1>7, ExpiryAt
<1> QED
  BY <1>1, <1>6, <1>7, <1>8, <1>9, ExpiryMoves DEF TypeOK

LEMMA ExpiryThrowsInv ==
    ASSUME Inv, NEW l \in Loops, ExpiryThrows(l)
    PROVE  Inv'
<1> USE DEF Inv, CopiesSound
<1>1. UNCHANGED <<now, payment, sub, charge, declined, task, fired, renewal, interrupted, seen>>
  BY DEF ExpiryThrows, store, paystack
<1>2. Persists
  BY <1>1 DEF Persists, PaymentsPersist, ChargesPersist, RowsPersist, SameOwner
<1>3. Nothing \in Batch /\ \A s \in Subs : Nothing[s] = NoRow
  BY DEF Nothing, Batch
<1>4. RowsSound'
  BY <1>1, <1>2, RowsFrame
<1> QED
  BY <1>1, <1>2, <1>3, <1>4, ExpiryMoves DEF TypeOK, ExpiryThrows

-----------------------------------------------------------------------------
(* The invariant and what follows from it. *)

LEMMA InitInv == Init => Inv
<1> SUFFICES ASSUME Init PROVE Inv
  OBVIOUS
<1> USE DEF Init, StoreInit
<1>1. Nothing \in Batch /\ \A s \in Subs : Nothing[s] = NoRow
  BY DEF Nothing, Batch
<1>2. TypeOK
  <2>1. renewal \in [Loops -> Renewal] /\ expiry \in [Loops -> Batch]
    BY <1>1 DEF Renewal, RenewalPcs, NoRenewal
  <2>2. task \in [Tasks -> Task]
    BY DEF Task, TaskPcs, IdleTask
  <2> QED
    BY <2>1, <2>2 DEF TypeOK
<1>3. RowsSound /\ \A l \in Loops : RenewalSound(l) /\ ExpirySound(l)
  BY <1>1 DEF RowsSound, InsertsSound, RenewalSound, ExpirySound, NoRenewal
<1>4. \A t \in Tasks : TaskSound(t)
  BY DEF TaskSound, IdleTask
<1>5. LedgerSound
  BY DEF LedgerSound, BookedIsCollected, CollectedIsRecorded, OpenIsRecorded,
         SuccessIsGranted, IsBooked
<1> QED
  BY <1>2, <1>3, <1>4, <1>5 DEF Inv, CopiesSound

LEMMA RequestInv ==
    ASSUME Inv, NEW t \in Tasks,
           Opens(t) \/ Manages(t) \/ RequestStep(t) \/ RequestThrows(t)
    PROVE  Inv'
<1>1. CASE Opens(t)
  <2> PICK r \in Refs : \/ \E u \in Users, p \in Plans : InitiatePayment(t, u, p, r)
                        \/ VerifyPayment(t, r)
                        \/ WebhookChargeSuccess(t, r)
                        \/ WebhookChargeFailed(t, r)
    BY <1>1 DEF Opens
  <2>1. CASE \E u \in Users, p \in Plans : InitiatePayment(t, u, p, r)
    BY <2>1, InitiatePaymentInv
  <2>2. CASE VerifyPayment(t, r)
    BY <2>2, StartVerifyInv DEF VerifyPayment, Begins
  <2>3. CASE WebhookChargeSuccess(t, r)
    BY <2>3, StartVerifyInv DEF WebhookChargeSuccess, Begins
  <2>4. CASE WebhookChargeFailed(t, r)
    BY <2>4, WebhookChargeFailedInv
  <2> QED
    BY <2>1, <2>2, <2>3, <2>4
<1>2. CASE Manages(t)
  BY <1>2, CancelSubscriptionInv, ExtendSubscriptionInv DEF Manages
<1>3. CASE Continues(t)
  BY <1>3, OpenTransactionInv, VerifyUnknownInv, VerifyAnsweredInv, RecordRefusalInv,
     RecordSuccessInv, FindSubscriptionInv, GrantInv, LinkPaymentInv, RecordFailureInv
     DEF Continues
<1>4. CASE SaveSubscription(t)
  BY <1>4, SaveSubscriptionInv
<1>5. CASE RequestThrows(t)
  BY <1>5, RequestThrowsInv
<1> QED
  BY <1>1, <1>2, <1>3, <1>4, <1>5 DEF RequestStep

LEMMA CronsInv ==
    ASSUME Inv, NEW l \in Loops, Crons(l)
    PROVE  Inv'
<1>1. CASE HandleSubscriptionRenewal(l)
  BY <1>1, HandleSubscriptionRenewalInv
<1>2. CASE RenewalStep(l)
  BY <1>2, ChargeInv, RenewalSaveInv, RenewalRecordInv, RenewalFailureSaveInv,
     RenewalFailureRecordInv DEF RenewalStep
<1>3. CASE RenewalFault(l)
  BY <1>3, ChargeInv, RenewalThrowsInv, RenewalFailureThrowsInv DEF RenewalFault
<1>4. CASE HandleExpiredSubscriptions(l)
  BY <1>4, HandleExpiredSubscriptionsInv
<1>5. CASE \E s \in Subs : ExpireOne(l, s)
  BY <1>5, ExpireOneInv
<1>6. CASE ExpiryThrows(l)
  BY <1>6, ExpiryThrowsInv
<1> QED
  BY <1>1, <1>2, <1>3, <1>4, <1>5, <1>6 DEF Crons

LEMMA NextInv == Inv /\ [Next]_vars => Inv'
<1> SUFFICES ASSUME Inv, [Next]_vars PROVE Inv'
  OBVIOUS
<1>1. CASE \E t \in Tasks : Opens(t) \/ Manages(t) \/ RequestStep(t) \/ RequestThrows(t)
  BY <1>1, RequestInv
<1>2. CASE Trial
  BY <1>2, CreateTrialSubscriptionInv DEF Trial
<1>3. CASE Customer
  BY <1>3, CustomerPaysInv, CustomerDeclinedInv DEF Customer
<1>4. CASE \E l \in Loops : Crons(l)
  BY <1>4, CronsInv
<1>5. CASE Tick
  BY <1>5, TickInv
<1>6. CASE ProcessStops
  BY <1>6, ProcessStopsInv
<1>7. CASE UNCHANGED vars
  <2>1. TypeOK'
    BY <1>7 DEF Inv, TypeOK, vars
  <2> QED
    BY <1>7, <2>1, IdleInv DEF vars
<1> QED
  BY <1>1, <1>2, <1>3, <1>4, <1>5, <1>6, <1>7 DEF Next

\* However requests, webhooks, crons, failures and stops interleave, every entity
\* held across an await stays a sound, if stale, copy of a row of its own account,
\* and the payments table, Paystack and the subscriptions agree as LedgerSound says.
THEOREM Invariance == Spec => []Inv
BY InitInv, NextInv, PTL DEF Spec

\* Every variable of the subscriptions module keeps its type.
THEOREM TypeCorrect == Spec => []TypeOK
BY Invariance, PTL DEF Inv

\* verifyPayment and the renewal cron book a payment as SUCCESS only when
\* Paystack collected its money, whatever other handlers write meanwhile.
THEOREM BookedCorrect == Spec => []BookedIsCollected
<1>1. Inv => BookedIsCollected
  BY DEF Inv, LedgerSound
<1> QED
  BY <1>1, Invariance, PTL

\* No stale copy saved by a cancellation, an extension or a cron turns a row
\* into an active or expired one unless its own user paid for its own plan.
THEOREM PaidRowCorrect == Spec => []PaidRowWasPaid
<1>1. Inv => PaidRowWasPaid
  BY DEF Inv, CopiesSound, RowsSound, Sound, PaidRowWasPaid
<1> QED
  BY <1>1, Invariance, PTL

\* A payment booked as SUCCESS has its subscription row, unless the request that
\* booked it is still to write it or an error or a stop cut that request short.
THEOREM GrantCorrect == Spec => []SuccessIsGranted
<1>1. Inv => SuccessIsGranted
  BY DEF Inv, LedgerSound
<1> QED
  BY <1>1, Invariance, PTL

\* Money Paystack collected has its row in the payments table, unless the renewal
\* cron is still to insert it or was cut short before it did.
THEOREM RecordCorrect == Spec => []CollectedIsRecorded
<1>1. Inv => CollectedIsRecorded
  BY DEF Inv, LedgerSound
<1> QED
  BY <1>1, Invariance, PTL

\* verifyPayment inserts a second row of an account only if its request searched
\* the table before the first was there: whatever the other requests, the crons
\* and failures do in between, a row that was there to be seen is updated.
THEOREM InsertsCorrect == Spec => []InsertsWhatItMissed
<1>1. Inv => InsertsWhatItMissed
  BY DEF Inv, CopiesSound, RowsSound, InsertsSound, InsertsWhatItMissed
<1> QED
  BY <1>1, Invariance, PTL

\* However extensions, renewals and expiries overlap, only a verified payment for
\* a canceled row, or the save of a copy read before the cancellation, takes the
\* row out of its status.
THEOREM CancellationCorrect == Spec => CancellationSticks
<1> DEFINE Sticks == \A s \in Subs :
               sub[s] # NoRow /\ sub[s].status = "canceled" /\ sub'[s].status # "canceled"
                   => \/ \E t \in Tasks : At(t, "granting") /\ task[t].id = s
                      \/ HoldsUncanceled(s)
<1>1. Inv /\ [Next]_vars => [Sticks]_vars
  <2> SUFFICES ASSUME Inv, Next, NEW s \in Subs,
                      sub[s] # NoRow, sub[s].status = "canceled", sub'[s].status # "canceled"
               PROVE  \/ \E t \in Tasks : At(t, "granting") /\ task[t].id = s
                      \/ HoldsUncanceled(s)
    OBVIOUS
  <2>0. sub'[s] # sub[s] /\ sub' # sub
    OBVIOUS
  <2>1. ASSUME NEW t \in Tasks, Opens(t) \/ Manages(t) \/ RequestThrows(t)
        PROVE  FALSE
    BY <2>0, <2>1 DEF Opens, InitiatePayment, VerifyPayment, WebhookChargeSuccess, StartVerify,
       WebhookChargeFailed, Manages, CancelSubscription, ExtendSubscription, RequestThrows, store
  <2>2. ASSUME NEW t \in Tasks, Continues(t), ~Grant(t)
        PROVE  FALSE
    BY <2>0, <2>2 DEF Continues, OpenTransaction, VerifyUnknown, VerifyAnswered, RecordRefusal,
       RecordSuccess, FindSubscription, LinkPayment, RecordFailure, store
  <2>3. ASSUME NEW t \in Tasks, Grant(t)
        PROVE  At(t, "granting") /\ task[t].id = s
    <3>1. PICK x \in Subs, row \in Row :
              sub' = [sub EXCEPT ![x] = row] /\ (task[t].id = NoSub => sub[x] = NoRow)
                                            /\ (task[t].id # NoSub => x = task[t].id)
      BY <2>3, GrantWrites
    <3> QED
      BY <2>0, <2>3, <3>1 DEF Grant, Inv, TypeOK
  <2>4. ASSUME NEW t \in Tasks, SaveSubscription(t)
        PROVE  HoldsUncanceled(s)
    <3>1. /\ At(t, "saving")
          /\ task[t].id \in Subs
          /\ task[t].was = "canceled" => task[t].row.status = "canceled"
          /\ sub' = [sub EXCEPT ![task[t].id] = task[t].row]
      BY <2>4, TaskAt DEF SaveSubscription, At, TaskSound
    <3>2. task[t].id = s /\ task[t].row.status # "canceled"
      BY <2>0, <3>1 DEF Inv, TypeOK
    <3> QED
      BY <3>1, <3>2 DEF HoldsUncanceled
  <2>5. ASSUME NEW l \in Loops, Crons(l)
        PROVE  HoldsUncanceled(s)
    <3>1. CASE RenewalSave(l) \/ RenewalFailureSave(l)
      <4>1. /\ renewal[l].pc # "loop"
            /\ \A x \in Subs \ {renewal[l].cur} : sub'[x] = sub[x]
        BY <3>1 DEF RenewalSave, RenewalFailureSave, Inv, TypeOK
      <4> QED
        BY <2>0, <4>1, RenewalAt DEF InHand, HoldsUncanceled
    <3>2. ASSUME NEW x \in Subs, ExpireOne(l, x)
          PROVE  HoldsUncanceled(s)
      <4>1. expiry[l][x] # NoRow /\ \A y \in Subs \ {x} : sub'[y] = sub[y]
        BY <3>2 DEF ExpireOne, Inv, TypeOK
      <4> QED
        BY <2>0, <4>1 DEF HoldsUncanceled
    <3>3. CASE \/ HandleSubscriptionRenewal(l) \/ RenewalFault(l)
               \/ HandleExpiredSubscriptions(l) \/ ExpiryThrows(l)
      BY <2>0, <3>3 DEF HandleSubscriptionRenewal, RenewalFault, ChargeThrows, Charges,
         RenewalThrows, RenewalFailureThrows, HandleExpiredSubscriptions, ExpiryThrows, store
    <3>4. CASE RenewalStep(l) /\ ~(RenewalSave(l) \/ RenewalFailureSave(l))
      BY <2>0, <3>4 DEF RenewalStep, ChargeSucceeds, ChargeDeclined, Charges, RenewalRecord,
         RenewalFailureRecord, store
    <3> QED
      BY <2>5, <3>1, <3>2, <3>3, <3>4 DEF Crons
  <2>6. CASE Trial \/ Customer \/ Tick \/ ProcessStops
    <3>1. Trial
      BY <2>0, <2>6 DEF Customer, CustomerPays, CustomerDeclined, Tick, ProcessStops, store
    <3>2. PICK x \in Subs : sub[x] = NoRow /\ \A y \in Subs \ {x} : sub'[y] = sub[y]
      BY <3>1 DEF Trial, CreateTrialSubscription, IsNextId, IsFree, Inv, TypeOK
    <3> QED
      BY <2>0, <3>2
  <2> QED
    BY <2>1, <2>2, <2>3, <2>4, <2>5, <2>6 DEF Next, RequestStep
<1> QED
  BY <1>1, Invariance, PTL DEF Spec, CancellationSticks

-----------------------------------------------------------------------------
(* Subscriptions implements PaidAccess. *)

\* What the refinement mapping needs of a row is its account.
LEMMA AccountOfRow ==
    ASSUME NEW row \in Row
    PROVE  Account(row) \in Users \X Plans /\ Account(row) # NoRow
BY NullsApart DEF Account, Row

LEMMA AccountOfPayment ==
    ASSUME NEW p \in Payment
    PROVE  Account(p) \in Users \X Plans /\ Account(p) # NoRow
BY NullsApart DEF Account, Payment

LEMMA SoundHasPaid ==
    ASSUME Inv, NEW row \in Row, Sound(row), row.status \in {"active", "expired"}
    PROVE  Access!HasPaid(Account(row))
<1>1. PICK r \in Refs : /\ payment[r] # NoPayment
                        /\ payment[r].user = row.user
                        /\ payment[r].plan = row.plan
                        /\ charge[r] = "success"
  BY DEF Sound, PaidFor
<1>2. r \in Collected /\ Payers[r] = Account(row)
  BY <1>1 DEF Collected, Payers, Account
<1> QED
  BY <1>2 DEF Access!HasPaid

LEMMA StutterMaps ==
    ASSUME UNCHANGED <<payment, charge, sub>>
    PROVE  UNCHANGED Access!pvars
BY DEF Access!pvars, Payers, Holders, Collected, Booked, PaidSubs, IsBooked

LEMMA CollectMaps ==
    ASSUME Inv, NEW r \in Refs, charge' = [charge EXCEPT ![r] = "success"],
           UNCHANGED <<payment, sub>>
    PROVE  Access!Next
<1>1. Collected' = Collected \cup {r}
  BY DEF Collected, Inv, TypeOK
<1>2. UNCHANGED <<Payers, Booked, Holders, PaidSubs>>
  BY DEF Payers, Booked, Holders, PaidSubs, IsBooked
<1> QED
  BY <1>1, <1>2 DEF Access!Next, Access!Collect

\* A charge that does not collect leaves the abstract state alone.
LEMMA NoCollectMaps ==
    ASSUME Inv, NEW r \in Refs, NEW answer \in {"none", "open", "failed"},
           charge[r] # "success", charge' = [charge EXCEPT ![r] = answer],
           UNCHANGED <<payment, sub>>
    PROVE  UNCHANGED Access!pvars
<1>1. Collected' = Collected
  BY DEF Collected, Inv, TypeOK
<1> QED
  BY <1>1 DEF Access!pvars, Payers, Holders, Booked, PaidSubs, IsBooked

\* A payment row is inserted.
LEMMA InsertPaymentMaps ==
    ASSUME Inv, NEW r \in Refs, NEW new \in Payment,
           payment[r] = NoPayment, payment' = [payment EXCEPT ![r] = new],
           new.status = "success" => charge[r] = "success",
           UNCHANGED <<charge, sub>>
    PROVE  Access!Next
<1> DEFINE a == Account(new)
           isBooked == new.status = "success"
<1>1. UNCHANGED <<Collected, Holders, PaidSubs>>
  BY DEF Collected, Holders, PaidSubs
<1>2. payment'[r] = new /\ \A other \in Refs \ {r} : payment'[other] = payment[other]
  BY DEF Inv, TypeOK
<1>3. a \in Users \X Plans /\ isBooked \in BOOLEAN /\ new # NoPayment
  BY AccountOfPayment, NullsApart
<1>4. Payers' = [Payers EXCEPT ![r] = a]
  <2>1. \A x \in Refs : (IF payment'[x] = NoPayment THEN NoRow ELSE Account(payment'[x]))
                        = IF x = r THEN a ELSE Payers[x]
    BY <1>2, <1>3 DEF Payers
  <2>2. Payers' = [x \in Refs |-> IF x = r THEN a ELSE Payers[x]]
    BY <2>1 DEF Payers, Account
  <2> QED
    BY <2>2 DEF Payers
<1>5. Payers[r] = NoRow
  BY DEF Payers
<1>6. Booked' = IF isBooked THEN Booked \cup {r} ELSE Booked
  BY <1>2, <1>3 DEF Booked, IsBooked
<1>7. isBooked => r \in Collected
  BY DEF Collected
<1>8. Access!Record(r, a, isBooked)
  BY <1>1, <1>4, <1>5, <1>6, <1>7 DEF Access!Record
<1> QED
  BY <1>3, <1>8 DEF Access!Next

\* The status of a payment row changes.
LEMMA SetStatusMaps ==
    ASSUME Inv, NEW r \in Refs, NEW status \in PaymentStatus,
           payment[r] # NoPayment, SetStatus(r, status),
           status = "success" => charge[r] = "success",
           UNCHANGED <<charge, sub>>
    PROVE  Access!Next
<1>1. UNCHANGED <<Collected, Holders, PaidSubs>>
  BY DEF Collected, Holders, PaidSubs
<1>2. /\ payment[r] \in Payment
      /\ payment'[r] = [payment[r] EXCEPT !.status = status]
      /\ \A other \in Refs \ {r} : payment'[other] = payment[other]
  BY DEF SetStatus, Inv, TypeOK
<1>3. /\ payment'[r] # NoPayment
      /\ payment'[r].user = payment[r].user
      /\ payment'[r].plan = payment[r].plan
      /\ payment'[r].status = status
  BY <1>2, SetStatusFacts DEF Payment
<1>4. Payers' = Payers
  BY <1>2, <1>3 DEF Payers, Account
<1>5. Payers[r] # NoRow
  BY <1>2, AccountOfPayment DEF Payers
<1>6. CASE status = "success"
  <2>1. Booked' = Booked \cup {r} /\ r \in Collected
    BY <1>2, <1>3, <1>6 DEF Booked, IsBooked, Collected
  <2>2. Access!Book(r)
    BY <1>1, <1>4, <1>5, <2>1 DEF Access!Book
  <2> QED
    BY <2>2 DEF Access!Next
<1>7. CASE status # "success"
  <2>1. Booked' = Booked \ {r}
    BY <1>2, <1>3, <1>7 DEF Booked, IsBooked
  <2>2. Access!Unbook(r)
    BY <1>1, <1>4, <2>1 DEF Access!Unbook
  <2> QED
    BY <2>2 DEF Access!Next
<1> QED
  BY <1>6, <1>7

\* A row is inserted, or an entity is saved over the row it was read from.
LEMMA WriteRowMaps ==
    ASSUME Inv, NEW s \in Subs, NEW row \in Row,
           sub' = [sub EXCEPT ![s] = row],
           sub[s] # NoRow => SameOwner(row, sub[s]),
           Sound(row),
           UNCHANGED <<payment, charge>>
    PROVE  Access!Next
<1> DEFINE a == Account(row)
           isPaid == row.status \in {"active", "expired"}
<1>1. UNCHANGED <<Payers, Collected, Booked>>
  BY DEF Payers, Collected, Booked, IsBooked
<1>2. /\ sub'[s] = row
      /\ row # NoRow
      /\ \A other \in Subs \ {s} : sub'[other] = sub[other]
  BY NullsApart DEF Inv, TypeOK
<1>3. isPaid => Access!HasPaid(a)
  BY SoundHasPaid
<1>4. a \in Users \X Plans /\ a # NoRow
  BY AccountOfRow
<1>5. PaidSubs' = IF isPaid THEN PaidSubs \cup {s} ELSE PaidSubs \ {s}
  BY <1>2 DEF PaidSubs
<1>6. CASE sub[s] = NoRow
  <2>1. Holders' = [Holders EXCEPT ![s] = a] /\ Holders[s] = NoRow
    <3>1. \A x \in Subs : (IF sub'[x] = NoRow THEN NoRow ELSE Account(sub'[x]))
                          = IF x = s THEN a ELSE Holders[x]
      BY <1>2 DEF Holders
    <3>2. Holders' = [x \in Subs |-> IF x = s THEN a ELSE Holders[x]]
      BY <3>1 DEF Holders, Account
    <3> QED
      BY <1>6, <3>2 DEF Holders
  <2>2. PaidSubs' = IF isPaid THEN PaidSubs \cup {s} ELSE PaidSubs
    BY <1>5, <1>6 DEF PaidSubs
  <2>3. Access!Open(s, a, isPaid)
    BY <1>1, <1>3, <2>1, <2>2 DEF Access!Open
  <2>4. isPaid \in BOOLEAN
    OBVIOUS
  <2> HIDE DEF a, isPaid
  <2> QED
    BY <1>4, <2>3, <2>4 DEF Access!Next
<1>7. CASE sub[s] # NoRow
  <2>1. Holders' = Holders /\ Holders[s] = a
    BY <1>2, <1>7 DEF Holders, Account, SameOwner
  <2>2. CASE isPaid
    BY <1>1, <1>3, <1>4, <1>5, <2>1, <2>2 DEF Access!Next, Access!Admit
  <2>3. CASE ~isPaid
    BY <1>1, <1>5, <2>1, <2>3 DEF Access!Next, Access!Withdraw
  <2> QED
    BY <2>2, <2>3
<1> QED
  BY <1>6, <1>7

LEMMA ContinuesMaps ==
    ASSUME Inv, NEW t \in Tasks, Continues(t)
    PROVE  [Access!Next]_(Access!pvars)
<1> USE DEF Inv, CopiesSound
<1> DEFINE r == task[t].ref
<1>1. TaskSound(t) /\ task[t] \in Task
  BY TaskAt
<1>2. CASE OpenTransaction(t)
  <2>1. r \in Refs
    BY <1>1, <1>2 DEF OpenTransaction, At, TaskSound
  <2>2. charge[r] # "success" /\ charge' = [charge EXCEPT ![r] = "open"]
    BY <1>2 DEF OpenTransaction
  <2>3. UNCHANGED <<payment, sub>>
    BY <1>2 DEF OpenTransaction, store, crons
  <2> QED
    BY <2>1, <2>2, <2>3, NoCollectMaps
<1>3. CASE VerifyUnknown(t) \/ VerifyAnswered(t) \/ FindSubscription(t)
  BY <1>3, StutterMaps DEF VerifyUnknown, VerifyAnswered, FindSubscription, store, paystack, crons
<1>4. CASE RecordRefusal(t) \/ RecordFailure(t)
  <2>1. r \in Refs /\ payment[r] # NoPayment
    BY <1>1, <1>4 DEF RecordRefusal, RecordFailure, At, TaskSound
  <2>2. SetStatus(r, "failed") /\ UNCHANGED <<charge, sub>>
    BY <1>4 DEF RecordRefusal, RecordFailure, paystack, crons
  <2> QED
    BY <2>1, <2>2, SetStatusMaps DEF PaymentStatus
<1>5. CASE RecordSuccess(t) \/ LinkPayment(t)
  <2>1. r \in Refs /\ payment[r] # NoPayment /\ charge[r] = "success"
    BY <1>1, <1>5 DEF RecordSuccess, LinkPayment, At, TaskSound
  <2>2. SetStatus(r, "success") /\ UNCHANGED <<charge, sub>>
    BY <1>5 DEF RecordSuccess, LinkPayment, paystack, crons
  <2> QED
    BY <2>1, <2>2, SetStatusMaps DEF PaymentStatus
<1>6. CASE Grant(t)
  <2>1. PICK s \in Subs, row \in Row :
            /\ sub' = [sub EXCEPT ![s] = row]
            /\ sub[s] # NoRow => SameOwner(row, sub[s])
            /\ Sound(row)
    BY <1>6, GrantWrites
  <2>2. UNCHANGED <<payment, charge>>
    BY <1>6 DEF Grant, paystack, crons
  <2> QED
    BY <2>1, <2>2, WriteRowMaps
<1> QED
  BY <1>2, <1>3, <1>4, <1>5, <1>6 DEF Continues

LEMMA RequestMaps ==
    ASSUME Inv, NEW t \in Tasks,
           Opens(t) \/ Manages(t) \/ RequestStep(t) \/ RequestThrows(t)
    PROVE  [Access!Next]_(Access!pvars)
<1> USE DEF Inv, CopiesSound
<1>1. CASE \E u \in Users, p \in Plans, r \in Refs : InitiatePayment(t, u, p, r)
  <2> PICK u \in Users, p \in Plans, r \in Refs : InitiatePayment(t, u, p, r)
    BY <1>1
  <2> DEFINE new == [user |-> u, plan |-> p, status |-> "pending"]
  <2>1. new \in Payment /\ new.status # "success"
    BY DEF Payment, PaymentStatus
  <2>2. payment[r] = NoPayment /\ payment' = [payment EXCEPT ![r] = new]
    BY DEF InitiatePayment, Unused
  <2>3. UNCHANGED <<charge, sub>>
    BY DEF InitiatePayment, paystack, crons
  <2> HIDE DEF new
  <2> QED
    BY <2>1, <2>2, <2>3, InsertPaymentMaps
<1>2. CASE \E r \in Refs : \/ VerifyPayment(t, r)
                           \/ WebhookChargeSuccess(t, r)
                           \/ WebhookChargeFailed(t, r)
  BY <1>2, StutterMaps DEF VerifyPayment, WebhookChargeSuccess, WebhookChargeFailed,
                           StartVerify, store, paystack, crons
<1>3. CASE Manages(t)
  BY <1>3, StutterMaps DEF Manages, CancelSubscription, ExtendSubscription, store, paystack, crons
<1>4. CASE Continues(t)
  BY <1>4, ContinuesMaps
<1>5. CASE SaveSubscription(t)
  <2>1. /\ task[t].id \in Subs
        /\ task[t].row \in Row
        /\ SameOwner(task[t].row, sub[task[t].id])
        /\ Sound(task[t].row)
    BY <1>5, TaskAt DEF TaskSound, CopyOfRow, SaveSubscription, At
  <2>2. sub' = [sub EXCEPT ![task[t].id] = task[t].row] /\ UNCHANGED <<payment, charge>>
    BY <1>5 DEF SaveSubscription, paystack, crons
  <2> QED
    BY <2>1, <2>2, WriteRowMaps
<1>6. CASE RequestThrows(t)
  BY <1>6, StutterMaps DEF RequestThrows, store, paystack, crons
<1> QED
  BY <1>1, <1>2, <1>3, <1>4, <1>5, <1>6 DEF Opens, RequestStep

LEMMA CronsMap ==
    ASSUME Inv, NEW l \in Loops, Crons(l)
    PROVE  [Access!Next]_(Access!pvars)
<1>1. CASE \/ HandleSubscriptionRenewal(l)
           \/ RenewalThrows(l)
           \/ RenewalFailureThrows(l)
           \/ HandleExpiredSubscriptions(l)
           \/ ExpiryThrows(l)
  BY <1>1, StutterMaps DEF HandleSubscriptionRenewal, RenewalThrows, RenewalFailureThrows,
                           HandleExpiredSubscriptions, ExpiryThrows, store, paystack
<1>2. ASSUME NEW s \in Subs, NEW r \in Refs, NEW answer \in {"none", "failed", "success"},
             NEW next, NEW row, Charges(l, s, r, answer, next, row)
      PROVE  [Access!Next]_(Access!pvars)
  <2>1. /\ charge[r] # "success"
        /\ charge' = [charge EXCEPT ![r] = answer]
        /\ UNCHANGED <<payment, sub>>
    BY <1>2 DEF Charges, Unused, store
  <2> QED
    BY <2>1, CollectMaps, NoCollectMaps
<1>3. CASE \E s \in Subs, r \in Refs :
               ChargeSucceeds(l, s, r) \/ ChargeDeclined(l, s, r) \/ ChargeThrows(l, s, r)
  BY <1>2, <1>3 DEF ChargeSucceeds, ChargeDeclined, ChargeThrows
<1>4. CASE RenewalSave(l)
  <2> PICK row : row = InHand(l)
    OBVIOUS
  <2> PICK cur : cur = renewal[l].cur
    OBVIOUS
  <2>1. cur \in Subs /\ row \in Row /\ SameOwner(row, sub[cur]) /\ Sound(row)
    BY <1>4, RenewalAt DEF RenewalSave
  <2>2. sub' = [sub EXCEPT ![cur] = row] /\ UNCHANGED <<payment, charge>>
    BY <1>4 DEF RenewalSave, paystack
  <2> QED
    BY <2>1, <2>2, WriteRowMaps
<1>5. CASE RenewalFailureSave(l)
  <2> PICK row : row = Expired(InHand(l))
    OBVIOUS
  <2> PICK cur : cur = renewal[l].cur
    OBVIOUS
  <2>1. /\ cur \in Subs
        /\ InHand(l) \in Row
        /\ InHand(l).status = "active"
        /\ SameOwner(InHand(l), sub[cur])
        /\ Sound(InHand(l))
    BY <1>5, RenewalAt DEF RenewalFailureSave
  <2>2. row \in Row /\ SameOwner(row, sub[cur]) /\ Sound(row)
    BY <2>1, RowUpdates DEF SameOwner, Sound, Row, Expired
  <2>3. sub' = [sub EXCEPT ![cur] = row] /\ UNCHANGED <<payment, charge>>
    BY <1>5 DEF RenewalFailureSave, paystack
  <2> QED
    BY <2>1, <2>2, <2>3, WriteRowMaps
<1>6. CASE RenewalRecord(l) \/ RenewalFailureRecord(l)
  <2> PICK new : new = [user |-> InHand(l).user, plan |-> InHand(l).plan,
                        status |-> IF RenewalRecord(l) THEN "success" ELSE "failed"]
    OBVIOUS
  <2> PICK ref : ref = renewal[l].ref
    OBVIOUS
  <2>1. /\ ref \in Refs
        /\ payment[ref] = NoPayment
        /\ InHand(l) \in Row
        /\ RenewalRecord(l) => charge[ref] = "success"
    BY <1>6, RenewalAt DEF RenewalRecord, RenewalFailureRecord
  <2>2. new \in Payment /\ (new.status = "success" => charge[ref] = "success")
    BY <2>1 DEF Row, Payment, PaymentStatus
  <2>3. payment' = [payment EXCEPT ![ref] = new] /\ UNCHANGED <<charge, sub>>
    BY <1>6 DEF RenewalRecord, RenewalFailureRecord, RenewalPayment, paystack
  <2> QED
    BY <2>1, <2>2, <2>3, InsertPaymentMaps
<1>7. ASSUME NEW s \in Subs, ExpireOne(l, s)
      PROVE  [Access!Next]_(Access!pvars)
  <2> PICK held : held = expiry[l][s]
    OBVIOUS
  <2> PICK row : row = Expired(held)
    OBVIOUS
  <2>1. held \in Row /\ held.status = "active" /\ SameOwner(held, sub[s]) /\ Sound(held)
    BY <1>7, ExpiryAt DEF ExpireOne
  <2>2. row \in Row /\ SameOwner(row, sub[s]) /\ Sound(row)
    BY <2>1, RowUpdates DEF SameOwner, Sound, Row, Expired
  <2>3. sub' = [sub EXCEPT ![s] = row] /\ UNCHANGED <<payment, charge>>
    BY <1>7 DEF ExpireOne, paystack
  <2> QED
    BY <2>1, <2>2, <2>3, WriteRowMaps
<1> QED
  BY <1>1, <1>3, <1>4, <1>5, <1>6, <1>7 DEF Crons, RenewalStep, RenewalFault

LEMMA NextMaps == Inv /\ [Next]_vars => [Access!Next]_(Access!pvars)
<1> SUFFICES ASSUME Inv, [Next]_vars PROVE [Access!Next]_(Access!pvars)
  OBVIOUS
<1>1. CASE \E t \in Tasks : Opens(t) \/ Manages(t) \/ RequestStep(t) \/ RequestThrows(t)
  BY <1>1, RequestMaps
<1>2. CASE Trial
  <2>1. PICK u \in Users, p \in Plans, s \in Subs, row \in Row :
            /\ sub[s] = NoRow
            /\ sub' = [sub EXCEPT ![s] = row]
            /\ row.status = "trial"
    BY <1>2, TrialWrites DEF Trial, Inv
  <2>2. Sound(row) /\ UNCHANGED <<payment, charge>>
    BY <1>2, <2>1 DEF Sound, Trial, CreateTrialSubscription, paystack, crons
  <2> QED
    BY <2>1, <2>2, WriteRowMaps
<1>3. CASE Customer
  <2>1. ASSUME NEW r \in Refs, CustomerPays(r)
        PROVE  Access!Next
    BY <2>1, CollectMaps DEF CustomerPays, store, crons
  <2>2. ASSUME NEW r \in Refs, CustomerDeclined(r)
        PROVE  UNCHANGED Access!pvars
    BY <2>2, StutterMaps DEF CustomerDeclined, store, crons
  <2> QED
    BY <1>3, <2>1, <2>2 DEF Customer
<1>4. CASE \E l \in Loops : Crons(l)
  BY <1>4, CronsMap
<1>5. CASE Tick \/ ProcessStops \/ UNCHANGED vars
  BY <1>5, StutterMaps DEF Tick, ProcessStops, vars, store, paystack, crons
<1> QED
  BY <1>1, <1>2, <1>3, <1>4, <1>5 DEF Next

LEMMA InitMaps == Init => Access!Init
BY DEF Init, StoreInit, Access!Init, Payers, Collected, Booked, Holders, PaidSubs, IsBooked

\* Seen through its payments, charges and rows, the whole module with its
\* handlers, crons, stale copies and failures only takes PaidAccess's atomic
\* steps: accounts are kept, bookings follow collections, and only an account
\* that paid holds an active or expired subscription.
THEOREM Implementation == Spec => ImplementsPaidAccess
<1>1. Inv /\ [Next]_vars => [Access!Next]_(Access!pvars)
  BY NextMaps
<1> QED
  BY <1>1, InitMaps, Invariance, PTL DEF Spec, ImplementsPaidAccess, Access!Spec
=============================================================================
