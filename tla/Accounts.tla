------------------------------ MODULE Accounts ------------------------------
(***************************************************************************)
(* AuthService and AccountSettings over one store, and their properties.   *)
(* Much is promised only to an account whose requests follow one another:  *)
(* raced names the accounts of which that was not so, and cut those with a *)
(* request that failed half way.                                           *)
(***************************************************************************)
EXTENDS AuthService, AccountSettings

Step(t) == AuthStep(t) \/ SettingsStep(t) \/ Fails(t)
Request(t) == AuthRequest(t) \/ SettingsRequest(t)

Next ==
    \/ \E t \in Tasks : Step(t) \/ Request(t)
    \/ \E w \in writes : Land(w)
    \/ \E lost \in SUBSET writes : Stop(lost)
    \/ AdminAct

Spec == StoreInit /\ [][Next]_vars

-----------------------------------------------------------------------------
\* Type correctness of the tables, the requests, the updates and the history.
TypeOK ==
    /\ account \in [Users -> Account \cup {Null}]
    /\ roles \in [Users -> SUBSET Roles]
    /\ writes \subseteq Write
    /\ task \in [Tasks -> Task]
    /\ generated \in 0 .. NumCodes
    /\ begun \in 0 .. MaxRequests
    /\ latest \in [Users -> Codes \cup {NoCode}]
    /\ used \subseteq Codes
    /\ raced \subseteq Users
    /\ cut \subseteq Users

\* However stale the row a profile edit saves, the active role of an account is
\* one of its roles.
ActiveRoleIsHeld == \A u \in Accounts : account[u].user_type \in roles[u]

\* A token is made of copies read before other requests wrote: still, the roles it
\* carries are roles of its account, and its active role is among them.
TokenIsTrue == \A t \in Tasks :
    At(t, "answering") /\ TokenOf(t).user # Null =>
        /\ TokenOf(t).active \in TokenOf(t).roles
        /\ TokenOf(t).roles \subseteq roles[TokenOf(t).user]

\* What admin-users.service.ts says of a suspension, that login fails without any
\* wiring: no request that began after it answers with a token of the account.  And
\* a request that makes a role active answers with a token for that role, not for
\* one that a stale save or another request made active.
TokenIsCurrent == \A t \in Tasks :
    At(t, "answering") /\ TokenOf(t).user # Null /\ task[t].user \notin raced =>
        /\ ~account[task[t].user].suspended
        /\ task[t].role \in {Null, TokenOf(t).active}

\* A code works once: after it reset a password or confirmed an address it is not
\* in the row any more, or the update that removes it is on its way.
SpentCodeIsCleared == \A u \in Accounts :
    account[u].remember_token \in used =>
        InFlight(u) \/ u \in raced \cup cut

\* The e-mail and the row agree: when nothing is in flight, the code an account was
\* last sent, and has not used, is the code that will be accepted.
MailedCodeWorks == \A u \in Accounts :
    account[u].remember_token = latest[u] \/ InFlight(u) \/ u \in raced \cup cut

\* Only an edit of the profile that overlaps a confirmation may undo it.
ConfirmationSticks ==
    [][\A u \in Accounts : account[u].verified => account'[u].verified \/ u \in raced']_vars

(***************************************************************************)
(* The inductive invariant behind the properties of roles: roles are never *)
(* taken away, so a copy that was right about them when it was read still  *)
(* is when it is saved or signed.                                          *)
(***************************************************************************)
HeldInv == \A t \in Tasks : task[t].user # Null =>
    /\ task[t].user \in Accounts
    /\ task[t].roles \subseteq roles[task[t].user]
    /\ task[t].row # Null => task[t].row.user_type \in roles[task[t].user]
    /\ At(t, "answering") /\ task[t].row # Null => task[t].row.user_type \in task[t].roles
    /\ task[t].pc \in {"savingRole", "activating"} =>
          task[t].row # Null /\ task[t].row.user_type \in task[t].roles
    /\ task[t].pc \in {"activating", "switching"} /\ task[t].role # Null =>
          task[t].role \in roles[task[t].user]

BusyInv == \A t \in Tasks :
    /\ task[t].pc \notin {"idle", "inserting"} <=> task[t].user # Null
    /\ task[t].pc \in {"savingRole", "addingRole", "switching", "inserting"} =>
          task[t].role # Null
    /\ task[t].pc \in {"inserting", "storingCode"} => task[t].email # Null
    /\ At(t, "resetting") => task[t].code # NoCode
    /\ At(t, "savingProfile") => task[t].row # Null

WriteInv == \A w \in writes : w.user \in Accounts /\ (w.kind = "code" => w.email # Null)

RoleInv == TypeOK /\ ActiveRoleIsHeld /\ HeldInv /\ BusyInv /\ WriteInv

(***************************************************************************)
(* What an account whose requests follow one another may rely on: it has   *)
(* one request in flight and at most the update which that request sent;   *)
(* what the request read of it is still so; its codes are nobody else's    *)
(* and wait to be used; and the row will hold the code last e-mailed once  *)
(* the update has landed.                                                  *)
(***************************************************************************)
Calm == Accounts \ raced
Sent(u) == {w \in writes : w.user = u}

Alone(u) ==
    /\ \A s, t \in Tasks : About(s, u) /\ About(t, u) => s = t
    /\ \A w \in Sent(u) :
          /\ Sent(u) = {w}
          /\ w.kind = "code" => w.email = account[u].email
          /\ \A t \in Tasks : About(t, u) =>
                \/ At(t, "mailing") /\ w.kind = "code" /\ w.code = task[t].code
                \/ At(t, "reporting") /\ w.kind = "confirm"

StillSo(u) == \A t \in Tasks : About(t, u) =>
    /\ At(t, "storingCode") => task[t].email = account[u].email
    /\ At(t, "savingProfile") => task[t].row.verified = account[u].verified
    /\ At(t, "rereading") => task[t].role \in {Null, account[u].user_type}
    /\ task[t].pc \in {"listing", "savingRole", "activating", "answering"} /\ task[t].row # Null =>
          ~account[u].suspended
    /\ task[t].pc \in {"listing", "answering"} /\ task[t].row # Null =>
          task[t].role \in {Null, task[t].row.user_type}

Unused(u) ==
    /\ latest[u] \notin used
    /\ \A w \in Sent(u) : w.code \notin used
    /\ \A t \in Tasks : About(t, u) /\ task[t].pc \in {"mailing", "storingCode"} =>
          task[t].code \notin used

\* The row holds the code, once the update has landed if there is one.
Settles(u, code) ==
    /\ Sent(u) = {} => account[u].remember_token = code
    /\ \A w \in Sent(u) : code = IF w.kind = "code" THEN w.code ELSE NoCode

Mailed(u) ==
    /\ \/ Settles(u, latest[u])
       \/ \E t \in Tasks : About(t, u) /\ task[t].pc \in {"mailing", "congratulating"}
    /\ \A t \in Tasks : About(t, u) =>
          /\ At(t, "mailing") => Settles(u, task[t].code)
          /\ At(t, "congratulating") => latest[u] = NoCode
          /\ At(t, "resetting") => task[t].code = latest[u]

HasCode(u, c) ==
    \/ c = latest[u]
    \/ u \in Accounts /\ c = account[u].remember_token
    \/ \E t \in Tasks : About(t, u) /\ c = task[t].code
    \/ \E w \in Sent(u) : c = w.code

CodeInv == \A c \in Codes :
    /\ c \in used \/ (\E u \in Users : HasCode(u, c)) => c <= generated
    /\ \A u \in Calm, v \in Users : HasCode(u, c) /\ HasCode(v, c) => u = v

OwnerInv == \A u, v \in Accounts : account[u].email = account[v].email => u = v

CalmInv ==
    /\ OwnerInv
    /\ CodeInv
    /\ \A u \in Calm : Alone(u) /\ StillSo(u) /\ Unused(u) /\ (u \notin cut => Mailed(u))

Inv == RoleInv /\ CalmInv
=============================================================================
