# AutoPadi-BE: a verification project

AutoPadi-BE is the NestJS/TypeORM backend of a marketplace for drivers, car
dealers and service providers. This directory holds TLA+ modules translated from
its source, TLC configurations that check them on small instances, and TLAPS
proofs of what matters most for every instance.

All of the backend is one Node.js process over one PostgreSQL database. Nothing
runs in parallel inside the process, but every `await` gives way to every other
handler, cron or socket event, almost no query runs in a transaction, and
almost every update is *read the entity, change it, save the whole entity*. The
models therefore have one action per stretch of code between two awaits that
touch shared state, and keep the entity a handler has read as local state of
that handler. That is where the interesting failures are.

## 1. Inventory

| Component | State | Operations | Interacts with | What is hard | What makes it correct |
|---|---|---|---|---|---|
| Payments (`modules/subscriptions/services/payment.service.ts`, `paystack.service.ts`, `webhook.controller.ts`) | table `payments` | initiate, verify, trial, record failure | Paystack (REST, webhooks), subscriptions | browser and webhook verify the same payment; late or repeated events; stop between two saves | booked = collected; booked = granted; a second row only where a lookup raced |
| User subscriptions (`user-subscription.service.ts`, `subscription.guard.ts`) | table `user_subscriptions` | cancel, extend, validity, guard | payments, crons | stale whole-entity saves | paid rows were paid for; only copies read before a cancellation undo it |
| Renewal (`subscription-renewal.service.ts`) | the entities of a running loop | 2 AM renewal, 3 AM expiry | Paystack, both tables | loops over copies read at their start; the next day's loop; timestamps; failure handler; missed days | money recorded; lapsed rows are expired; the loop ends |
| Subscription plans, notices (`subscription-plan.service.ts`, `subscription-notification.service.ts`) | table `subscription_plans`; e-mail and events | CRUD; notify | all of the above; notifications | an e-mail that fails before its event | plan names are unique; whoever is owed a notice gets it |
| Booking (`modules/booking`) | `bookings`, `reviews`, `reports` | create, change status, cancel, review, report | listings, notifications | stale saves of status; check-then-insert of reviews; suspended parties | closed is closed; one review, of a completed booking; the other side is told |
| Messaging (`modules/messaging`) | `conversations`, participants, `messages`; sockets and the online map | create, send, read, delete, report; join, leave, presence | notifications, push | check-then-insert of conversations; joins racing disconnects; failures between the save and the announcement; suspended counterparts | only participants hear; stored = announced; badge = inbox; one conversation per pair; online = has a socket |
| Notifications (`modules/notifications`) | `notifications`, `device_tokens`, `notification_preferences` | notify, broadcast, push, mark as read, register and remove a device, preferences, feed | event emitter, FCM, sockets, admins | a device that changes hands under a push; preferences read before they change; chunks of a broadcast; pages that shift | a notice is in all its feeds or none; off means off; a push reaches who is signed in |
| Auth and settings (`modules/auth`, `modules/settings`, `modules/global/public`) | `users`, `user_roles` | login, sign up, Google, roles, codes, profile, confirm, suspend | mailer, guards, every token | updates nobody awaits; whole-row saves; tokens made of copies | the active role is held; a token is true; the code last mailed works once |
| Listings (`modules/serviceprovider`, `autodealer`, `driver`, `driver-employer`) | `services`, `stores`, `products`, `driver_jobs`, `driver_profiles`, their counters and status | create, update, delete, moderate, count visits, match | analytics, admin, bookings | whole-row saves over counters and moderation; a cascade under a save; a stop between a save and its event | counters agree with the log; what was answered stands; deleted stays deleted |
| Dashboard, analytics, admin lists (`modules/dashboard`, `modules/analytics`, `modules/admin`) | the log of visits; otherwise read models | search, lists, log | listings | pages over changing tables, two tables under one page number | who reads to the last page has seen everything |
| Superadmin CRUD, uploads, mailer, logging, config, views, static data | configuration | single queries, pass-through I/O | | | not modelled: no state machine of their own |

## 2. Plan

Done:

1. **Subscriptions** (`SubscriptionStore` to `Subscriptions`): store, payments,
   management and crons composed; the abstract specification `PaidAccess`; the
   inductive invariant, every safety property and the refinement proved.
2. **Booking** (`BookingService`, `Bookings`): status machine under stale saves,
   reviews, reports, suspended parties; the abstract specification
   `BookingLifecycle`; the inductive invariant and how far the module keeps the
   lifecycle proved.
3. **Messaging and presence** (`MessagingGateway`, `MessagingService`,
   `Messaging`): conversations, read marks, the gateway's maps against connect
   and disconnect; the abstract specification `PrivateTalk`; the inductive
   invariant, the badge, the pairs and the refinement proved.
4. **Accounts** (`AccountStore`, `AuthService`, `AccountSettings`, `Accounts`):
   roles, tokens, codes and suspension; the inductive invariant about roles proved.
5. **Notifications** (`NotificationsService`, `NotificationsSubscriber`,
   `Notifications`): feeds, preferences, devices, broadcasts; the inductive invariant
   and every property of the run proved.
6. **Marketplace** (`ListingStore`, `ListingServices`, `ListingQueries`,
   `Marketplace`): the five tables of listings, visits, moderation and paged
   lists; the inductive invariant, the properties of rows and the walks proved.

Left, in this order:

7. Subscription plans and expiry warnings, reports of conversations.
8. One composition of bookings with listings: a service deleted or rejected while
   it is being booked.

## 3. Subscriptions

### Modules

| Module | Models |
|---|---|
| `SubscriptionStore` | the two tables, Paystack's record of each charge, work in flight; the row updates the handlers share; the type invariant |
| `PaymentService` | `initiatePayment`, `verifyPayment`, `handlePaymentFailure`, `createTrialSubscription`, both webhook events, the customer at Paystack |
| `UserSubscriptionService` | both cancellations, `extendSubscription`, `isSubscriptionValid`, `SubscriptionGuard`, the list of expired rows |
| `SubscriptionRenewal` | the 2 AM and 3 AM crons and the failure handler |
| `Subscriptions` | their composition, failing calls, process stops, time, fairness, every property |
| `PaidAccess` | what all of it promises about money and access, each change one atomic step |
| `MCSubscriptions` | instances for TLC |
| `SubscriptionsProofs` | the proofs |

### State and actions

`payment` and `sub` are the tables, keyed by `paystack_reference` and by id;
`charge` and `declined` are Paystack's side. A request in flight is a record
`task[t]`: `pc` names the await it sits at, `ref`, `id` and `row` are its locals.
`verifyPayment` is `StartVerify` (find the payment), `VerifyAnswered` (Paystack's
answer), `RecordRefusal` or `RecordSuccess` (first save), `FindSubscription`,
`Grant` (save the row), `LinkPayment` (second save of the payment). The browser
and the webhook enter the same steps. `handleChargeSuccess` asks Paystack once
more before it calls `verifyPayment`; the answer is the guard of
`WebhookChargeSuccess`. Cancellation and extension read in one action and save in
another (`SaveSubscription`), holding the changed entity in `task[t].row`.

`renewal[l]` is a loop of the 2 AM cron: `batch` maps each row still to be
processed to the entity read at the start, `cur` and `ref` are the row being
charged and its reference. `@Cron` starts a loop whether or not the one of the
day before has ended, so there are several, as many as `Loops`. `ChargeSucceeds`, `ChargeDeclined` and `ChargeThrows` are the three
answers to `chargeAuthorization` (an exception may hide a successful charge);
`RenewalSave` and `RenewalRecord` are the two saves; `RenewalFailureSave` and
`RenewalFailureRecord` are `handleRenewalFailure`, which also runs after an
exception of either save, on an entity the code has already activated in memory
(`RenewalThrows`). An exception of the failure handler is swallowed and the loop
goes on (`RenewalFailureThrows`). `expiry[l]` is a loop of the 3 AM cron, which
one exception ends. `ProcessStops` forgets everything but the tables.

`interrupted` and `seen` are history variables that no action reads: the
references whose processing an error or a stop cut short, which is the exact
exception in `SuccessIsGranted` and `CollectedIsRecorded`; and for each row the
rows its inserter had searched. `InsertsWhatItMissed` says with the latter what
is left of "create or update" (`payment.service.ts:122`) under overlap: two rows of
one account exist only if the request that inserted the later one had looked
before the earlier one was there, or did not look because it starts a trial.
`CancellationSticks` says the same of cancellations: what makes a canceled row
something else is a verified payment or the save of a copy read before.

### Abstractions

* Dates are instants, as the timestamp columns are. A day has `Hours` of them, the
  crons strike at `RenewalHour` and `ExpiryHour`, and every date the code computes
  is some days from the present one (`Days`); `MonthDays`, `YearDays` stand for 30
  and 365. A row granted or renewed later than the 2 AM query is therefore due
  later than the 2 AM query of its last day, as in the code. The dates are taken where
  the entity is changed in memory (`ChargeSucceeds`, `FindSubscription`), which may be
  long before its save.
* The last instant of an instance stands for all later ones: both crons may strike
  in it again and again (`Strikes`).
* A row keeps the columns the handlers decide on: owner, status, end, next
  charge, whether a card is on file, end of trial. `payment_pending`, which no
  code writes, is left out, as are amounts, start dates and names.
* References never repeat (`Date.now()` in the code). Paystack's answer always
  carries an authorization code, as its type in `paystack.service.ts` says; a
  missing one throws, which `RequestThrows` covers.
* Notifications are left out: they change nothing here, and swallow their errors.

## 4. Bookings

### Modules

| Module | Models |
|---|---|
| `BookingService` | `createBooking`, `updateBookingStatus`, `cancelBooking`, `addReview`, `addReport`, the change of a service's price, the booking events |
| `BookingLifecycle` | what the module promises: one atomic step per change of a booking's life |
| `Bookings` | every property, the inductive invariant, the mapping to `BookingLifecycle` |
| `MCBookings`, `BookingsProofs` | instances for TLC; the proofs |

### State and actions

`booking` is the table, each row with the ids of the reviews and reports that
refer to it; `price` is `estimated_cost` of each service. A request in flight is
`task[t]`: where it awaits, which booking it is about, the entity it holds
(`row`), and whom the event goes to. `UpdateBookingStatus` and `CancelBooking`
read (`GetBookingById`, which replaces a missing cost by the price of the
service), check and change the entity in memory; `SaveBooking` writes all of it;
`Announce` emits the event. A review is `OpenReview` (read and check),
`LookForReview` (find an earlier one), `SaveReview`, `Announce`; a report is
`OpenReport` and `SaveReport`. `RequestThrows` leaves a handler at an await that
fails, `ProcessStops` drops all requests.

Users are suspended and reactivated by administrators at any time. A suspended
user's token still works (`JwtStrategy` looks nobody up), but a join leaves such a
user out (`Joined`): `created_by` of a service, `user` and `service_provider` of a
booking and `reviewer` of a review are then null in the entity. The owner checks
read them, `save` writes NULL into the columns, and between the save and the event
the id of the party to be told is taken from null: `AnnounceThrows` ends the
handler, the status is stored, and nobody is told.

`supplied`, `reached`, `interrupted` and `overtaken` are history variables: the cost
the buyer supplied, the statuses a row has had in the table, the bookings whose
event a stop cut off, and the requests whose booking another request has written,
or whose reviewer was suspended, since they read it. No guard reads them.
`StatusIsTold` excepts, besides `interrupted`, a row that has itself lost the party
to be told. `KeepsLifecycle` is the promise of `BookingLifecycle` for every step
but two: the save of a request in `overtaken`, and a second review where the first no
longer names its customer.

### Abstractions

* TypeORM's `save` of an entity that was loaded with its `reviews` and `reports`
  writes the columns, and makes the rows that refer to the booking exactly those
  lists: a row missing from a list loses its `booking_id`. `SaveBooking` therefore
  assigns the whole held entity.
* `created_by` of a service never changes, and a foreign key keeps a service that
  has bookings. Final cost, reasons, dates, texts and ratings decide nothing.
* A request that is refused changes nothing and is not a step.
* The lookup of an earlier review joins the reviewer, so it misses the review of
  one who is suspended.

## 5. Messaging and presence

### Modules

| Module | Models |
|---|---|
| `MessagingGateway` | connections, socket.io rooms, `onlineUsers`, the presence events |
| `MessagingService` | conversations, participants, messages, read marks, deletion, joins, the push of the notifications subscriber; extends the gateway |
| `PrivateTalk` | what the module promises its users: a talk with two sides, each change one atomic step |
| `Messaging` | every property, the inductive invariant, the mapping to `PrivateTalk` |
| `MCMessaging`, `MessagingProofs` | instances for TLC; the proofs |

### State and actions

`client[s]` is the user authenticated on a socket; `onlineUsers` is the gateway's
map, `presence` the last thing it told about a user. `status`, `members`, `message`, `is_read`, `deleted` are the three
tables by column; `watching` are the users with a socket on the notifications
namespace. `HandleConnection`, `HandleDisconnect` and `HandleLeaveConversation`
are single steps; a join is `HandleJoinConversation` (check the participant) and
`JoinEnds` (enter the room). A creation is `CreateConversation` (look for one
between the two), `SaveConversation`, `SaveParticipants`. Sending is
`SendMessage`, `SaveMessage`, `AnnounceMessage`; marking as read, deletion and the
changes of a conversation's status are pairs of a check and a save. A request carries the socket it came over, or `Null`
for REST: only what comes over a socket is emitted to the room.

`Inbox`, `UnreadIn` and `Unread` are the queries of the inbox and of the badge. The
inbox counts by the id of the receiver, which a join yields (`Receiver`); of a
suspended receiver it is undefined, TypeORM drops the condition, and unread messages
of both sides count. `BadgeWithinInbox` is what then holds: the badge is the inbox
without what its user wrote to suspended counterparts; `BadgeMatchesInbox`, what a
comment says, is refuted by `v_badge`.

`pushed`, `skipped`, `heard`, `interrupted` and `seen` are history variables that no
guard reads; `seen[c]` are the conversations that had participants when the creator of
`c` looked for one. `NoSecondInSight` says that two conversations of a pair come only
from a creator who looked before the other had its participants, which an orphan
left by a failure must not change.

### Abstractions

* `handleConnection` is one step although it awaits the verification of the
  token: `jsonwebtoken` verifies HS256 in the same turn, so the promise resolves
  in a microtask, before any other socket event.
* socket.io never reuses an id, empties a socket's rooms before `disconnect`, and
  lets a disconnected socket object join a room.
* `isUserOnline` asks the in-memory adapter of the notifications namespace, so
  the decision to push is in the step that announces.
* Rows that a handler reads again only to return them, as after `SaveRead` and
  `SaveStatus` and before `AnnounceMessage`, are not steps: nothing depends on them.
* A conversation has two participants, inserted in one transaction, so the push
  has one recipient. Suspended users stay participants: the rows refer to them, and
  tokens and sockets go on working.
* Left out: reports of conversations, `updated_at` and `last_read_at`, which
  order lists and decide nothing else, typing events, and the gateway's
  `userConversations`, which is written and never read.

## 6. Accounts

### Modules

| Module | Models |
|---|---|
| `AccountStore` | tables `users` and `user_roles`, requests in flight, updates sent and not awaited, failures and stops |
| `AuthService` | `login` and its guard, `createAccount`, `googleAuth`, `addRole`, `switchRole`, `forgotPassword`, both resend handlers, `resetPassword` |
| `AccountSettings` | `SettingsService`, `confirmUserEmail`, an administrator's suspension and reactivation, the migration that grants every role |
| `Accounts` | their composition, every property, the inductive invariant |
| `MCAccounts` | an instance for TLC |
| `AccountsProofs`, `AccountsCalmProofs` | the proofs: about roles; about accounts whose requests follow one another |

### State and actions

`account[u]` is a row of `users`; `suspended` stands for `deleted_at`, which TypeORM
leaves out of what it finds and not of what it updates. A request is `task[t]`:
where it awaits, whose it is, and the copies it made of the row and the roles. It
ends in `Answer`, with the token `TokenOf(t)` made of those copies. `createAccount`
of a known address is `CreateAccount`, `SaveRole`, `Activate`; of a new one
`CreateNew`, `Insert`; `googleAuth` shares all four. `switchRole` is `SwitchRole`,
`SaveActiveRole`, `Reread`, `ListRoles`; `addRole` joins at `Reread`.

Updates that are sent and not awaited are members of `writes` and land in any
order (`Land`), or never, when the process stops: the code of `forgotPassword`,
its removal after a reset, and the confirmation. `forgotPassword` may thus mail a
code before it is stored. `SettingsService` saves the whole row it read
(`SaveProfile`): what it writes is every column that was selected, so the password,
the code and `deleted_at` stay as they are, and role, address and confirmation go back
to what they were.

`latest`, `used`, `raced` and `cut` are history: the code an account was last
mailed, codes that did their work, accounts with two requests at once, and with a
request or update that failed. They are the exact exceptions of the properties.

### Abstractions

* Passwords and codes are values; hashing, cookies, names, documents and pictures
  are left out. A code is fresh: that two accounts draw the same six digits is not
  modelled.
* A check that fails before anything was written is not a step.
* `createAccount` inserts an account and its roles in one transaction.
* The guards on routes read the token and change nothing.

## 7. Notifications

### Modules

| Module | Models |
|---|---|
| `NotificationsService` | `notify`, `notifyUsers`, `pushToUser`, `pushToUsers`, device tokens, preferences, the feed; `FcmService` behind them |
| `NotificationsSubscriber` | the handlers of domain events and chat messages, the broadcasts of administrators, `SubscriptionNotificationService` |
| `Notifications` | their composition, every property, the inductive invariant |
| `NotificationsProofs` | the proofs |
| `MCNotifications` | an instance for TLC |

### State and actions

`owner[d]` is the row of a device token, `off[u]` what a user switched off, `feed[u]`
the rows of the feed and `read[u]` those with `read_at`. A request stands for one
notice. A subscription notice is `Notify`, `SendEmail`, `Deliver`, then as any
event `SaveRows` (rows and the live emit), `CheckPushEnabled`, `FindDevices`,
`SendToTokens` (one call of FCM; `pushToUsers` repeats it chunk after chunk), `Prune`.
A broadcast begins with `DropOptedOut`; a chat message at `CheckPushEnabled`. A
registration is `RegisterDeviceToken` (find the token) and `SaveToken`, or
`RefuseToken` when the unique index refuses a second row.

FCM delivers to any of the tokens, calls any others dead, and refuses a call with
too many. `reader` is somebody who opens page after page of the feed.
`task[t].off` is what was off when the request began and has been ever since;
`delivered` is what the last step sent; `asked`, `holder`, `pruned`, `unsure` and `cut`
are history: whom a request must tell, who signed in last on a device, devices
deleted as dead, devices two requests were about at once, requests that failed.

### Abstractions

* A notice is its number; text and data are left out. None of the events of the
  code has a promotional tag, so `promo` is asked of broadcasts only.
* Firebase is configured: without it pushes are skipped and nothing else changes.
* The order of the feed is that of insertion, as `created_at` is for rows of
  different requests.
* A client signs out with the token it registered.
* The recipients of a broadcast are a set. `userIds` of
  `superadmin/controller/notification.controller.ts:31` may name a user twice, who then gets
  two rows; that is not modelled.
* Sockets: an emit reaches whoever is connected; who that is, is in `MessagingGateway`.

## 8. Marketplace

### Modules

| Module | Models |
|---|---|
| `ListingStore` | the five tables in one numbering, what all their services do alike, the log of visits, accounts, failures and stops |
| `ListingServices` | each operation of `ServiceService`, `StoreService`, `ProductService`, `DriverJobService`, `DriverProfileService`, and moderation |
| `ListingQueries` | the paged lists of the services, the dashboard and the panel, both matches, a reader of pages |
| `Marketplace` | their composition, every property, the inductive invariant |
| `MarketplaceProofs` | the proofs |
| `MCMarketplace` | instances for TLC |

### State and actions

`listing[id]` is a row with its kind, owner, status, counter, store and text. Every
service over it finds a row, compares the owner, changes the copy and saves it:
`Edit` and `Decide` find, `Save` writes the whole copy, and `Tell`, after the await of
that save, answers the owner or emits the event to the provider; `Discard` and `Remove`
delete, a store with its products; `Visit`, `Increment`, `LogEvent` count. TypeORM's `save`
compares with the row of that moment and writes every column that differs; if the
row is gone it inserts the copy again under its old id, unless a foreign key
refuses it (`Refuse`). `created_by` is joined, and the join leaves suspended users out:
`Loaded` has no owner then, so the owner checks fail and a moderation saves NULL.

A list is a query `q`; `Rows(q)` are its rows, `PageOf` what a page shows, `PagesOf` the
number of pages it announces. `Open` and `NextPage` are a reader who goes on to the last
page; `quiet` says that no row left the list meanwhile, and that no row came to fit a match
below one that is still to be seen. `Widened` is the other list that a match page with too
few rows is replaced by.

`born`, `told`, `untold`, `raced`, `disowned`, `gone` and `unlogged` are history: what a
row was made with, what its owner and provider were last told of it (at first what its
owner made it with), answers and events a stop cut off between the save and the telling,
rows with two requests in each other's window from find to telling (`Clash`), services
moderated while their provider was suspended, rows removed, visits counted and not
logged. `AnswersStand` excepts what is on its way or `untold`, until it is told anew.

### Abstractions

* Every column an owner writes is one text; views, clicks and enquiries, which are
  counted alike, are one counter. The conditions of a match are the set `Fitting`. A
  driver's profile is looked up again for each page of a match (`Admits`); `findOne`
  names no order, so any of several may be meant, and `Fitting` does not depend on which.
* Categories, prices and search words narrow a list and are left out, so lists are
  the widest that occur.
* The order of a list is that of the ids, as `created_at` is.
* The log of a visit of one listing is one number.

## 9. Runs

| Run | Instance | Question |
|---|---|---|
| `requests` | 2 plans (one yearly), 2 rows, 1 payment, 2 requests of every kind, failures and stops | is a booked payment granted; was a paid row paid for; where do second rows come from; does the module implement `PaidAccess`? |
| `crons` | 1 user, 2 references, 1 row, 1 request, 2 loops of each cron, 2 instants a day, failures and stops | do stale copies in the crons and requests keep the inductive invariant; is SUCCESS money; is money recorded; what undoes a cancellation? |
| `live` | 2 plans, 2 rows, 1 loop of each cron, crons that fail, fairness | do lapsed rows and the renewal loop come to an end; does who paid get a row? |
| `bookings` | 1 booking, 2 amounts, 2 requests, 2 reviews, 1 report, suspensions, failures and stops | what do stale copies never break; is the other side told; what alone breaks the lifecycle? |
| `messages` | 3 users, 1 conversation, 1 message, 2 sockets, 2 requests, failures and stops | who hears a message; is presence true; does the module implement `PrivateTalk`? |
| `conversations` | 2 users as buyer or dealer, 2 conversations, 1 message, 2 requests over REST, suspensions, failures and stops | where do second conversations come from; does the badge agree with the inbox; is every stored message announced? |
| `accounts` | 2 users, 2 addresses, 2 roles, 2 codes, 2 requests in flight of 3, failures | do roles, tokens, codes and confirmations survive stale copies and updates nobody awaits? |
| `notifications` | 2 users, 2 devices, one of them the reader's, 2 requests, 1 token per call, pages of 1, failures | who is told, who is pushed to, what is missed? |
| `marketplace` | 5 users, 3 initial tables, 5 rows, 2 requests in flight of 3, pages of 2, failures | do counters, answers, deletions and page walks survive stale copies? |
| `v_guard`, `v_due`, `v_badge` | the smallest that show it | statements of comments that the code does not keep |

`CHECK_DEADLOCK FALSE` stands in the cfgs whose requests are bounded: when the
bound is reached and nothing is in flight, the instance stops, not the system.

### Bounds

The bounds of subscriptions (`MaxNow`, `MaxEnd`, `NumSubs`, `Refs`, `Tasks`, `Loops`,
`Requests`, `Faults`) are constants of the modules and appear in the guards. In
`crons` a month is one day of two instants, the 2 AM and the 3 AM cron's: four
instants hold a purchase, its renewal and the expiry of a row that was due too late;
the last repeats, so that a cron may strike while its loop of before still runs. Two
references allow a purchase and one renewal, or one charge by each of two loops. In
`requests`, two requests give every pair of handlers, two rows the second insert of a
race, and two plans a payment granted to the wrong one. In `live` a day is one
instant, which makes both crons strike at every one of them, and two rows let a failed
save end the loop before the row after it. References, loops and request slots are
interchangeable and declared symmetric in safety runs only; rows are not, since new
ids grow.

`bookings` has one booking, since bookings share nothing but the id counters, and
two requests, which give every pair of handlers on it; two amounts tell a
supplied cost from a price and a price from a later one; two reviews let there be a
second. `Buyers` bounds who books: one of the two users, as the other provides.

In messaging, `Sockets` bounds the connections ever made, `Statuses` what an
update of a conversation asks for, `Joinable` whose rooms are joined, `Watchers` who
connects to the notifications namespace, `Suspendable` whom administrators suspend. The
two runs share the work: in `messages`, one message and two requests give every pair
of handlers on it, two sockets give a user two devices, or a sender and a listener,
and the third user is who must not hear. In `conversations` there are no sockets,
which neither inbox nor creation look at, and two conversations, which a pair can
then have. Ids, sockets and request slots are symmetric, and so are users: all of them
watch and may be suspended, or none. The invariants of subscriptions, bookings and
messaging are proved for any number of rows and requests besides.

In `accounts`, two addresses let an edit take an address another account gave up or
is about to get, and two codes let a later code overtake an earlier one; the third
request begins when one of the two in flight has ended, which a spent code or a
stale save needs. In `notifications`, one token per call makes every broadcast to two
devices a chunked one, and every push to two devices of one user a refused one;
pages of one row make every arrival shift the feed. There, at the start one device
is the reader's and the other is somebody else's or nobody's (`MCInit`): any other
distribution is one sign-in or sign-out away. In `marketplace`, the three
initial tables are one per way in which rows depend on each other: alone, by
cascade, by match. Five rows allow a creation beside each; a page of two is full,
or not, with the rows there are.

### What the violation runs show

`v_guard`: the newest ACTIVE or TRIAL row decides; trials never expire in the
table, so a finished trial hides a running paid subscription.

`v_due`: "(next_charge_date is today or earlier)" (`subscription-renewal.service.ts:36`)
says days, the query compares instants. Whatever was granted after 2 AM, or renewed by
a loop seconds after it began, is not found on its last day. If it ends
before 3 AM, as after a renewal within the hour, the expiry cron makes the row EXPIRED
without a charge, and no later 2 AM query takes it, for they ask for ACTIVE. The trace is
a grant at the last instant of a day and the 2 AM cron that passes over its row a day later.

`v_badge`: "so the badge matches the scoped inbox" (`messaging.service.ts:508-509`) does
not hold when the counterpart of a conversation is suspended (section 5): the inbox
shows own messages as unread, the badge does not count them.

### Other statements the code does not keep

Met while modelling and evident from the code; no run has them as its property:

* Two verifications of one payment, or two creations of a conversation of one
  pair, or two reviews of one booking that overlap each find none and insert two;
  `InsertsWhatItMissed`, `NoSecondInSight` and `KeepsLifecycle` say that nothing else does,
  but for trials, and for reviews that lost their reviewer.
* "Cancel a user's subscription immediately" (`superadmin-subscription.controller.ts:141`):
  the 2 AM loop holds the entity it read and looks at nothing before it charges.
  Cancel while it runs, and the card is charged and the stale save makes the row
  active again; `CancellationSticks` says that a copy read before is the only way.
* Two loops of the 2 AM cron that overlap, a day's and the next one's, may hold copies of
  one row, and charge its card twice.
* "Mark subscriptions as expired" (`subscription-renewal.service.ts:177`): the 3 AM loop
  joins `user`, which is null for a suspended one, and the save of such a row would write
  NULL into `user_id`, which is NOT NULL. The exception ends the loop, every day again, and
  whatever row comes after in the unordered result is not expired. `LapsedEnds` assumes
  saves that do not fail for ever, so it speaks of tables without such a row.
* A status change whose other party is suspended is stored, answered with an error, and
  told to nobody (`booking.service.ts:166`, `195`; a creation at `49`, a review at `233`), and
  the save has taken the party out of the row.
* "Cannot cancel a … booking", closed ones among them (`booking.service.ts:183-185`): a
  cancellation and a completion that overlap both pass their checks, and the later
  save turns one closed status into the other; both sides are told.
* "those who are online already receive the message live over the messaging
  socket" (`notifications-subscriber.service.ts:84-85`): online is asked of the
  notifications namespace (`notifications.gateway.ts:64-68`); a message sent over
  REST is never emitted to the room (`messaging.controller.ts:134-152`), and one
  sent over the socket only reaches who joined it (`messaging.gateway.ts:186`).
* Extending an active subscription moves its end, not its next charge; the
  renewal counts from the charge, and the added days are gone.
* The list of expired subscriptions asks for status ACTIVE
  (`user-subscription.service.ts:290`).
* A status change of a booking without a cost saves the price of the service that
  `getBookingById` filled in for display (`booking.service.ts:129-133`).
* `markMessageAsRead` and `updateConversation` return a deleted message with its
  text (`messaging.service.ts:464` says it is cleared on reads).
* A sender can mark the own message as read, and the receiver's badge drops
  (`messaging.service.ts:98` counts what the receiver has not read).
* A join that resolves after the disconnect leaves an entry in
  `userConversations` for good (`messaging.gateway.ts:120-121`).
* "login already fails for these accounts — no extra wiring needed"
  (`admin-users.service.ts:26-28`): login does, but a token signed before goes on
  working, and with it `addRole` and `switchRole`, which answer with a token that
  names nobody (`auth.service.ts:387`, `TokenOf`).
* "Single entry point ... pushes via FCM to all of the user's registered devices"
  (`notifications.service.ts:265-266`): `pushToUser` passes all tokens in one call,
  which FCM refuses beyond 500; `pushToUsers` chunks.
* "has been approved and is now live" (`notifications-subscriber.service.ts:188`):
  `getAllServices` of the dashboard lists services of every status.
* "Service approved. Provider notified." (`listings.view.controller.ts:116`): when the
  provider is suspended the row is saved without its owner, the handler then fails
  on `created_by.id`, nobody is notified, and after a reactivation the service is
  nobody's.
* "grouped so one broadcast = one row" (`admin-communication.service.ts:38`): equal
  announcements of one minute are one row.
* "Cannot delete group with child groups" (`group.service.ts:68`): the condition is
  that the group was not found; children are not looked at.
* "Create or update" (`payment.service.ts:122`): even without overlap an account gets a
  second row that the crons charge, when its user takes a trial beside a paid row.
  `createTrialSubscription` asks for no row of the account, and the `findOne` of the next
  verified payment names no order, so it may activate the row of the trial.
* A reader of a match who goes on to the last page can miss a row although none left
  the list: pages with fewer than `Enough` matches are replaced by pages of the other
  list (`driver-job.service.ts:302-310`), so when an older row comes to fit the match
  between two requests, the reader changes from one list to the other past the row. It
  takes six rows, more than `marketplace` has; the proof of `WalkMissesNothing` found it,
  and an instance with one job, five profiles and pages of two confirms it.
* `getCategory` pages without an order (`dashboard.service.ts:139-162`), so its
  pages need not be parts of one list; `WalkMissesNothing` leaves it out.

## 10. Fairness

`FairSpec` of `Subscriptions` assumes only what runs by itself: Node.js resumes
a handler whose await resolved (weak fairness of each request and of the renewal loop's steps);
the process is awake at 3 AM on some late day (weak fairness of the expiry cron
at the instant that stands for all later ones); the save of a given row does not
fail for ever (strong fairness of `ExpireOne`, as a failed save ends the loop and a
later cron starts over), which holds of rows whose owner is not suspended; Paystack delivers a charge.success event (strong fairness, because the
number of request slots is a bound of the model and a slot must be waited for).
Redelivery is asked for only while the row is not granted. The webhook answers
200 whatever happens, so a delivery that failed is not repeated: in `live` the
crons fail and requests do not (`Faults`), and one delivery is enough.
Users, superadmins and customers are never obliged to act.

## 11. Proofs

`SubscriptionsProofs` proves, for any users, plans, references, number of rows
and of requests in flight, under `ConstantsAssumption` (types of the constants;
the null values differ from what they stand beside; periods are positive):

* `Invariance`: `Spec => []Inv`. The properties below are not inductive: a stale
  entity saved later could break any of them. `Inv` adds what every *held* entity
  keeps true of itself however stale it is: it belongs to the account of the row
  it will be saved over (`SameOwner`), and it can be active or expired only if
  that account paid, has a card on file, and its next charge falls no later than
  its end (`Sound`). These facts survive the steps of others because accounts,
  successful charges and rows are never taken back (`Persists`), which every
  action is shown to respect. `Inv` is an invariant of the run `crons` too.
* `TypeCorrect`, `BookedCorrect`, `PaidRowCorrect`, `GrantCorrect`, `RecordCorrect`,
  `InsertsCorrect`: the invariants the runs check. For the last, `TaskSound` says of a
  request about to insert that none of the rows it searched is of its account.
* `CancellationCorrect`: the action property, from what `Inv` says of copies: one read from
  a canceled row is canceled (`task[t].was`), and the loops hold rows that were active.
* `Implementation`: `Spec => ImplementsPaidAccess`, by one lemma per kind of
  write (insert a payment, change its status, collect, write a row) and one case
  per action.

`BookingsProofs` proves, for any users, services, amounts, rows and requests in
flight, under `BookingAssumption`:

* `BookingsInvariance`: `Spec => []Inv`. The status, cost and reviews of the table
  can be overwritten by an entity read long ago, so none of the properties is
  inductive. `Inv` adds that a held entity was right when it was read about facts
  that are never taken back (`RightAbout`: the supplied cost, the statuses the
  booking has *had*), hence is right when it is saved; that an event is told, on its
  way, cut off or without an addressee for the status of the table (`ToldInv`); and that
  the copy of a request nobody has overtaken still fits the row (`FreshInv`).
* `CostCorrect`, `CompletionCorrect`, `ReviewCorrect`, `NoticeCorrect`,
  `AnswersCorrect`: the properties of the run `bookings`, and that a booking with a
  review was completed once.
* `LifecycleImplemented`: every step is one of `BookingLifecycle`, a stutter or a
  `StaleSave`, by one case per write; the saves rest on `FreshInv`.

`MessagingProofs` proves, for any users, ids, sockets and requests in flight,
under `MessagingAssumption`:

* `MessagingInvariance`: `Spec => []Inv`. A handler checks, awaits and acts. `Inv`
  says for every await what the handler may still rely on (`Knows`), and `Grows`,
  which every action is shown to respect, is why: rows are never removed, a
  conversation gets its participants from the one request that inserted it, and a
  socket keeps its user until it is gone.
* `PresenceCorrect`, `RoomsCorrect`, `AnnouncedCorrect`, `BadgeCorrect`, `PairsCorrect`:
  the invariants of the runs. The badge needs that a conversation has two sides
  (`MembersInv`), the pairs that what a creator saw is not its pair's (`SeenInv`).
* `TalkImplemented`: `Spec => ImplementsPrivateTalk`. The kinds of
  write that change what the promise sees have a lemma each (participants, a message, an
  announcement, a mark); every other step stutters. It rests on the same `Knows`: a sender
  or a listener checked before an await is still one of the two sides after it, which
  `SidesStay` and `HearersAreMembers` say in the promise's words.

`AccountsProofs` proves, for any users, addresses, roles, codes and requests in
flight, under `AccountAssumption`:

* `RoleInvAlways`: `Spec => []RoleInv`. The active role can be overwritten by a row
  read long ago, so that it is held is not inductive. Roles are never taken away
  (`Grows`), so a copy that was right about them when it was read is right when it
  is saved or signed: `HeldInv` says so of every request, `BusyInv` and `WriteInv`
  that requests and updates carry what their steps need.
* `ActiveRoleIsHeldAlways`, `TokenIsTrueAlways`: what follows for accounts and tokens.

`AccountsCalmProofs` goes on, under the same assumption, to the properties that
except accounts with two requests at once:

* `InvAlways`: `Spec => []Inv`, where `Inv` adds `CalmInv` to `RoleInv`. An account
  that was never `raced` is calm: one request or the update it sent is in flight
  (`Alone`), what the request read is still in the row (`StillSo`), its codes were
  not used (`Unused`), and the row holds the last code or the update under way will
  make it so (`Mailed`). Other accounts race meanwhile, so the argument goes by
  account: a step has a subject, and leaves alone what is said of any other
  (`UntouchedSteady`). What binds accounts together is that no code is shared with a
  calm account (`CodeInv`; a fresh code is nobody's, `FreshIsNew`, and a step moves
  codes only within its subject, `Confined`) and that no address is shared
  (`OwnerInv`), for updates by address reach the rows of their own account.
* `TokenIsCurrentAlways`, `SpentCodeIsClearedAlways`, `MailedCodeWorksAlways`: what
  follows, the last two for an account about which nothing is in flight (`AtRest`).
* `ConfirmationSticksAlways`: the action property, from `StillSo` of the edit that
  saves a whole row.

`NotificationsProofs` proves, for any users, devices, limits of a call and of a page,
requests in flight and failures, under `NotificationAssumption`:

* `InvAlways`: `Spec => []Inv`, by way of `IndInv`, which says the same request by
  request: what it is by itself (`Sane`), what it knows of feeds (`Fed`), preferences
  (`Closed`) and devices (`Reaches`), and what a registration nobody disturbed knows
  of its token (`Alone`). What a push says is fixed long before it is sent: that it
  is still true then rests on rows of the feed staying, on the `off` of a request
  shrinking with the preferences, and on `unsure` naming every device that two
  requests were about at once. Most steps leave all of that alone (`Steady`), so
  one lemma (`MovesOn`) covers them; `BeginKeeps` covers those that begin a request.
* `ToldAllOrNoneAlways`, `EveryDeviceOnceAlways`, `TokenFollowsSignInAlways`,
  `WalkMissesNothingAlways`: the properties of the run. The chunks a broadcast has
  sent are the rows before the next one (`SentInv`, `ChunkExtends`), whatever the
  limit; what a reader has not seen is among the oldest rows, all but the pages
  opened (`WalkInv`, `PageTakes`), and the last page has none left (`PagesCover`).
* `PushedIsStoredAlways`, `OffMeansOffAlways`, `PushReachesItsUserAlways`: conjuncts
  of `Inv` on what each step sends.

`MarketplaceProofs` proves, for any users, rows, initial tables and requests in
flight, under `ListingAssumption`:

* `InvAlways`: `Spec => []Inv`. A stale save writes a whole row, and after a removal
  inserts it again. `Inv` adds that every copy is true to what a row was born with
  (`TrueTo`: kind, store, owner), that two writers of one row make it `raced`
  (`RaceInv`), and that the copy of a row nobody raced for still agrees with it in
  all its own request does not change (`CopyInv`), and that what is about to be
  told is what the row says (`TellInv`).
* `CountersMatchLogAlways`, `AnswersStandAlways`, `DeletedStaysDeletedAlways`,
  `ProductHasStoreAlways`: what follows for counters, moderation and removals, and
  that the foreign key keeps every product with a store of its owner.
* `WalkMissesNothingAlways`: a walk that stayed quiet has shown all, for any size of page
  and any tables. `WalkInv` says of a row still to be seen that at least as many rows as
  the opened pages hold stand before it among its kind, and among the matches too, unless the
  matches from it on are too few to fill a page, so that the list which replaces a narrow
  page shows it. Places have no gap (every place below that
  of a row is taken, `PlacesAreTaken`), so a page that rows follow is full (`PageIsFull`),
  and the last page announced covers every place (`PagesCover`); rows that come in only
  add to the rows before (`BeforeGrows`), and `Stays` is what a reader must be spared for
  the matches from a row on not to grow again.

Only model-checked: the liveness properties (`LapsedEnds`, `RenewalEnds`,
`PaidIsGranted`), which are out of the prover's reach. Every safety property of a passing
run is proved. No theorem is stated for what the violation runs refute.

## 12. Not modelled

`PROJECT.json` lists every component with its status and the reason. In short:

* Single queries that nothing waits for: CRUD of plans, banners, attributes, groups,
  super-admins and their roles; reports of conversations; states and cities.
* Read models: monthly statistics, the overview of the panel, details of one row.
* Uploads, mail rendering, logging, configuration, guards on routes, validation.
* Code with no caller: `createJob` and the transactional variants of
  `NotificationsService`, `renewSubscription`, `markAsExpired`, personal access
  tokens.
* Errors thrown by an event handler: the event emitter (`@nestjs/event-emitter` 2.1)
  catches them, so they end the handler and not the request that emitted.
