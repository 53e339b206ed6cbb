---------------------- MODULE NotificationsSubscriber ----------------------
(***************************************************************************)
(* What makes NotificationsService speak: the domain events its subscriber *)
(* listens to, the notices about subscriptions, which are e-mailed before  *)
(* their event is emitted, and what administrators send.                   *)
(***************************************************************************)
EXTENDS NotificationsService

Telling(t, local, users) ==
    /\ Begins(t, local)
    /\ asked' = [asked EXCEPT ![begun + 1] = users]
    /\ Silent
    /\ UNCHANGED <<tables, reader, devices, cut>>

\* on...: an event of bookings, moderation or an account, for one user.
OnEvent(t, u) ==
    Telling(t, [IdleTask EXCEPT !.pc = "saving", !.users = {u}], {u})

\* onMessageSent: whoever is not connected is pushed to, and has no row in the feed.
OnMessageSent(t, u) ==
    Telling(t, [IdleTask EXCEPT !.pc = "preferring", !.kind = "chat", !.users = {u}], {})

\* send and broadcast of the super-administrator, announcements_send of the panel.
Broadcast(t, users, promo) ==
    Telling(t, [IdleTask EXCEPT !.pc = "filtering", !.kind = "broadcast", !.promo = promo,
                                !.users = users],
            users \ (IF promo THEN PreferenceOff("promotions") ELSE {}))

-----------------------------------------------------------------------------
(* SubscriptionNotificationService *)

\* notify...: an e-mail, then the event, whose handler runs as it is emitted.
Notify(t, u) ==
    Telling(t, [IdleTask EXCEPT !.pc = "emailing", !.kind = "notice", !.users = {u}], {u})

\* Mutant: the error of an e-mail is thrown on, to the handler that logs it.
Thrown(local, sent) == IF sent THEN [local EXCEPT !.pc = "saving"] ELSE IdleTask
Emitted(local, sent) == [local EXCEPT !.pc = "saving"]

\* A query that fails here is logged, and the event emitted all the same.
SendEmail(t) ==
    /\ At(t, "emailing")
    /\ \/ /\ task[t].users \cap PreferenceOff("email") = {}
          /\ Goto(t, [task[t] EXCEPT !.pc = "delivering"])
       \/ /\ Faults \/ task[t].users \subseteq PreferenceOff("email")
          /\ Goto(t, Emitted(task[t], FALSE))
    /\ Silent
    /\ UNCHANGED <<tables, reader, asked, devices, cut>>

Deliver(t) ==
    /\ At(t, "delivering")
    /\ \E sent \in {TRUE, ~Faults} :
          /\ Goto(t, Emitted(task[t], sent))
          /\ delivered' = IF sent THEN Messages(task[t], task[t].users, "email") ELSE {}
    /\ UNCHANGED <<tables, reader, asked, devices, cut>>
=============================================================================
