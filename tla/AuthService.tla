----------------------------- MODULE AuthService -----------------------------
(***************************************************************************)
(* AuthService and the guards and controller in front of it: signing in    *)
(* and up, with a password or through Google, roles, and the codes that    *)
(* reset a password or confirm an address.  A request answers with a token *)
(* that carries the account, its active role and its roles; a check that   *)
(* fails before anything was written is a request that does nothing.       *)
(***************************************************************************)
EXTENDS AccountStore

Token == [user : Users \cup {Null}, active : Roles \cup {Null}, roles : SUBSET Roles]

\* The token of a request about to answer; an account suspended before it was
\* read again leaves a token of nobody.
TokenOf(t) ==
    [user |-> IF task[t].row = Null THEN Null ELSE task[t].user,
     active |-> IF task[t].row = Null THEN Null ELSE task[t].row.user_type,
     roles |-> task[t].roles]

Answer(t) ==
    /\ At(t, "answering")
    /\ Returns(t)
    /\ UNCHANGED <<account, roles, writes, generated, latest, used, cut>>

-----------------------------------------------------------------------------
(* login *)

UserLoginGuard(u) == u \in Visible

Login(t, u) ==
    /\ UserLoginGuard(u)
    /\ account[u].password # Null
    /\ Begins(t, [IdleTask EXCEPT !.pc = "listing", !.user = u, !.row = account[u]])
    /\ UNCHANGED <<account, roles, writes, generated, latest, used, cut>>

ListRoles(t) ==
    /\ At(t, "listing")
    /\ Goto(t, [task[t] EXCEPT !.pc = "answering", !.roles = roles[task[t].user]])
    /\ UNCHANGED <<account, roles, writes, generated, latest, used, cut>>

-----------------------------------------------------------------------------
(* createAccount and googleAuth *)

\* A known address: the role is added to the account after a check of the
\* password, or by Google without one.
CreateAccount(t, u, role) ==
    /\ u \in Visible
    /\ account[u].password # Null
    /\ role \notin roles[u]
    /\ Begins(t, [IdleTask EXCEPT !.pc = "savingRole", !.user = u, !.row = account[u],
                                  !.roles = roles[u], !.role = role])
    /\ UNCHANGED <<account, roles, writes, generated, latest, used, cut>>

GoogleAuth(t, u, role) ==
    /\ u \in Visible
    /\ Begins(t, [IdleTask EXCEPT
          !.pc = IF role # Null /\ role \notin roles[u] THEN "savingRole" ELSE "activating",
          !.user = u, !.row = account[u], !.roles = roles[u], !.role = role, !.google = TRUE])
    /\ UNCHANGED <<account, roles, writes, generated, latest, used, cut>>

\* The unique index of user_roles refuses a role somebody else added meanwhile.
SaveRole(t) ==
    /\ At(t, "savingRole")
    /\ task[t].role \notin roles[task[t].user]
    /\ roles' = [roles EXCEPT ![task[t].user] = @ \cup {task[t].role}]
    /\ Goto(t, [task[t] EXCEPT !.pc = "activating"])
    /\ UNCHANGED <<account, writes, generated, latest, used, cut>>

\* Mutant: an account linked to Google without a role becomes a buyer.
RoleOrBuyer(local) ==
    [local.row EXCEPT !.user_type = IF local.role = Null THEN "buyer" ELSE local.role,
                      !.verified = @ \/ local.google]
Activated(local) ==
    [local.row EXCEPT !.user_type = IF local.role = Null THEN @ ELSE local.role,
                      !.verified = @ \/ local.google]

\* The columns that change are written; the token is made of the copy that was read.
Activate(t) ==
    LET u == task[t].user  row == Activated(task[t])
    IN  /\ At(t, "activating")
        /\ account' = [account EXCEPT
              ![u].user_type = IF task[t].role = Null THEN @ ELSE row.user_type,
              ![u].verified = @ \/ (task[t].google /\ ~task[t].row.verified)]
        /\ Goto(t, [task[t] EXCEPT !.pc = "answering", !.row = row,
                        !.roles = @ \cup ({task[t].role} \ {Null})])
        /\ UNCHANGED <<roles, writes, generated, latest, used, cut>>

\* An address nobody visible has: the account and all its roles are inserted in
\* one transaction, which the unique index on the address may refuse.
CreateNew(t, email, role, password, google) ==
    /\ Owners(email) \cap Visible = {}
    /\ google = (password = Null)
    /\ Begins(t, [IdleTask EXCEPT !.pc = "inserting", !.email = email, !.role = role,
                                  !.password = password, !.google = google])
    /\ UNCHANGED <<account, roles, writes, generated, latest, used, cut>>

NewAccount(local) ==
    [email |-> local.email, password |-> local.password, user_type |-> local.role,
     remember_token |-> IF local.google THEN NoCode ELSE FreshCode,
     verified |-> local.google, suspended |-> FALSE]

\* Welcome and verification e-mails carry the code and are not awaited.
Insert(t) ==
    /\ At(t, "inserting")
    /\ Owners(task[t].email) = {}
    /\ task[t].google \/ MayGenerate
    /\ \E u \in Users \ Accounts :
          LET row == NewAccount(task[t])
          IN  /\ account' = [account EXCEPT ![u] = row]
              /\ roles' = [roles EXCEPT ![u] = Roles]
              /\ latest' = [latest EXCEPT ![u] = row.remember_token]
              /\ Goto(t, [IdleTask EXCEPT !.pc = "answering", !.user = u, !.row = row,
                                          !.roles = Roles])
    /\ generated' = IF task[t].google THEN generated ELSE FreshCode
    /\ UNCHANGED <<writes, used, cut>>

\* What was checked is no longer so: a unique index refuses the row.
Refused(t) ==
    /\ \/ task[t].pc \in {"savingRole", "addingRole"} /\ task[t].role \in roles[task[t].user]
       \/ At(t, "inserting") /\ Owners(task[t].email) # {}
       \/ /\ At(t, "savingProfile")
          /\ Owners(task[t].row.email) \ {task[t].user} # {}
    /\ Returns(t)
    /\ UNCHANGED <<account, roles, writes, generated, latest, used, cut>>

-----------------------------------------------------------------------------
(* addRole and switchRole *)

AddRole(t, u, role) ==
    /\ u \in Accounts
    /\ role \notin roles[u]
    /\ Begins(t, [IdleTask EXCEPT !.pc = "addingRole", !.user = u, !.role = role])
    /\ UNCHANGED <<account, roles, writes, generated, latest, used, cut>>

SaveAddedRole(t) ==
    /\ At(t, "addingRole")
    /\ task[t].role \notin roles[task[t].user]
    /\ roles' = [roles EXCEPT ![task[t].user] = @ \cup {task[t].role}]
    /\ Goto(t, [task[t] EXCEPT !.pc = "rereading", !.role = Null])
    /\ UNCHANGED <<account, writes, generated, latest, used, cut>>

\* Mutant: any role may be switched to.
MaySwitchFreely(u, role) == u \in Accounts
MaySwitch(u, role) == u \in Accounts /\ role \in roles[u]

SwitchRole(t, u, role) ==
    /\ MaySwitch(u, role)
    /\ Begins(t, [IdleTask EXCEPT !.pc = "switching", !.user = u, !.role = role])
    /\ UNCHANGED <<account, roles, writes, generated, latest, used, cut>>

SaveActiveRole(t) ==
    /\ At(t, "switching")
    /\ account' = [account EXCEPT ![task[t].user].user_type = task[t].role]
    /\ Goto(t, [task[t] EXCEPT !.pc = "rereading"])
    /\ UNCHANGED <<roles, writes, generated, latest, used, cut>>

\* Mutant: the row is found although it is suspended.
ReadAnyway(u) == account[u]
FindOne(u) == IF u \in Visible THEN account[u] ELSE Null

Reread(t) ==
    /\ At(t, "rereading")
    /\ Goto(t, [task[t] EXCEPT !.pc = "listing", !.row = FindOne(task[t].user)])
    /\ UNCHANGED <<account, roles, writes, generated, latest, used, cut>>

-----------------------------------------------------------------------------
(* forgotPassword, the two resend handlers, resetPassword *)

\* The update of the code is sent and not awaited; the e-mail is.
ForgotPassword(t, u) ==
    /\ u \in Visible
    /\ MayGenerate
    /\ Begins(t, [IdleTask EXCEPT !.pc = "mailing", !.user = u, !.code = FreshCode])
    /\ writes' = writes \cup {[kind |-> "code", user |-> u, email |-> account[u].email,
                               code |-> FreshCode]}
    /\ generated' = FreshCode
    /\ UNCHANGED <<account, roles, latest, used, cut>>

\* remember_token is not selected, so there is never a code to send again.
ResendEmail(t, u) ==
    /\ u \in Visible
    /\ MayGenerate
    /\ Begins(t, [IdleTask EXCEPT !.pc = "storingCode", !.user = u,
                                  !.email = account[u].email, !.code = FreshCode])
    /\ generated' = FreshCode
    /\ UNCHANGED <<account, roles, writes, latest, used, cut>>

StoreCode(t) ==
    /\ At(t, "storingCode")
    /\ account' = CodeStored(task[t].email, task[t].code)
    /\ task' = [task EXCEPT ![t].pc = "mailing", ![t].email = Null]
    /\ raced' = raced \cup (Owners(task[t].email) \ {task[t].user})
    /\ UNCHANGED <<roles, writes, generated, begun, latest, used, cut>>

MailCode(t) ==
    /\ At(t, "mailing")
    /\ latest' = [latest EXCEPT ![task[t].user] = task[t].code]
    /\ Returns(t)
    /\ UNCHANGED <<account, roles, writes, generated, used, cut>>

Unsent(u, code) == [latest EXCEPT ![u] = IF @ = code THEN NoCode ELSE @]

ResetPassword(t, u, password) ==
    /\ u \in Visible
    /\ account[u].remember_token # NoCode
    /\ Begins(t, [IdleTask EXCEPT !.pc = "resetting", !.user = u, !.password = password,
                                  !.code = account[u].remember_token])
    /\ UNCHANGED <<account, roles, writes, generated, latest, used, cut>>

SavePassword(t) ==
    LET u == task[t].user
    IN  /\ At(t, "resetting")
        /\ account' = [account EXCEPT ![u].password = task[t].password]
        /\ used' = used \cup {task[t].code}
        /\ latest' = Unsent(u, task[t].code)
        /\ Goto(t, [IdleTask EXCEPT !.pc = "congratulating", !.user = u])
        /\ UNCHANGED <<roles, writes, generated, cut>>

\* Mutant: the code is left in the row.
LeftStanding(u) == {}
Clearing(u) == {[kind |-> "clear", user |-> u, email |-> Null, code |-> NoCode]}

\* Only after the e-mail is the code cleared, by an update nobody awaits.
ReportReset(t) ==
    /\ At(t, "congratulating")
    /\ writes' = writes \cup Clearing(task[t].user)
    /\ Returns(t)
    /\ UNCHANGED <<account, roles, generated, latest, used, cut>>

-----------------------------------------------------------------------------
AuthStep(t) ==
    \/ Answer(t) \/ ListRoles(t) \/ SaveRole(t) \/ Activate(t) \/ Insert(t) \/ Refused(t)
    \/ SaveAddedRole(t) \/ SaveActiveRole(t) \/ Reread(t)
    \/ StoreCode(t) \/ MailCode(t) \/ SavePassword(t) \/ ReportReset(t)

AuthRequest(t) ==
    \/ \E u \in Users :
          \/ Login(t, u) \/ GoogleAuth(t, u, Null) \/ ForgotPassword(t, u) \/ ResendEmail(t, u)
          \/ \E password \in Passwords : ResetPassword(t, u, password)
          \/ \E role \in Roles : \/ CreateAccount(t, u, role) \/ GoogleAuth(t, u, role)
                                 \/ AddRole(t, u, role) \/ SwitchRole(t, u, role)
    \/ \E email \in Emails, role \in Roles :
          \/ CreateNew(t, email, role, Null, TRUE)
          \/ \E password \in Passwords : CreateNew(t, email, role, password, FALSE)
=============================================================================
