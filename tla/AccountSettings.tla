--------------------------- MODULE AccountSettings ---------------------------
(***************************************************************************)
(* What else writes accounts: SettingsService, which saves the whole row   *)
(* it read, the confirmation of an address, an administrator who suspends  *)
(* and reactivates, and the migration that grants every role.              *)
(***************************************************************************)
EXTENDS AccountStore

\* The row as editProfile, uploadProfilePicture and deleteProfilePicture hold it:
\* an edit may name another address, a picture does not.
EditProfile(t, u, email) ==
    /\ u \in Visible
    /\ Begins(t, [IdleTask EXCEPT !.pc = "savingProfile", !.user = u,
          !.row = [account[u] EXCEPT !.email = IF email = Null THEN @ ELSE email]])
    /\ UNCHANGED <<account, roles, writes, generated, latest, used, cut>>

\* Mutant: an edit asks for the address to be confirmed again.
SavedUnconfirmed(u, row) ==
    [account[u] EXCEPT !.email = row.email, !.user_type = row.user_type, !.verified = FALSE]

\* Neither the password, the code nor deleted_at was selected: save leaves them alone.
SavedProfile(u, row) ==
    [account[u] EXCEPT !.email = row.email, !.user_type = row.user_type,
                       !.verified = row.verified]

SaveProfile(t) ==
    LET u == task[t].user
    IN  /\ At(t, "savingProfile")
        /\ Owners(task[t].row.email) \subseteq {u}
        /\ account' = [account EXCEPT ![u] = SavedProfile(u, task[t].row)]
        /\ Returns(t)
        /\ UNCHANGED <<roles, writes, generated, latest, used, cut>>

\* The current password is compared with the one that was read, then hashed anew.
UpdatePassword(t, u, password) ==
    /\ u \in Visible
    /\ account[u].password # Null
    /\ Begins(t, [IdleTask EXCEPT !.pc = "changingPassword", !.user = u, !.password = password])
    /\ UNCHANGED <<account, roles, writes, generated, latest, used, cut>>

ChangePassword(t) ==
    /\ At(t, "changingPassword")
    /\ account' = [account EXCEPT ![task[t].user].password = task[t].password]
    /\ Returns(t)
    /\ UNCHANGED <<roles, writes, generated, latest, used, cut>>

\* The update is sent and not awaited; the event and the e-mail follow at once.
ConfirmUserEmail(t, u) ==
    /\ u \in Visible
    /\ account[u].remember_token # NoCode
    /\ Begins(t, [IdleTask EXCEPT !.pc = "reporting", !.user = u])
    /\ writes' = writes \cup {[kind |-> "confirm", user |-> u, email |-> Null, code |-> NoCode]}
    /\ used' = used \cup {account[u].remember_token}
    /\ latest' = [latest EXCEPT ![u] = IF @ = account[u].remember_token THEN NoCode ELSE @]
    /\ UNCHANGED <<account, roles, generated, cut>>

ReportConfirmation(t) ==
    /\ At(t, "reporting")
    /\ Returns(t)
    /\ UNCHANGED <<account, roles, writes, generated, latest, used, cut>>

\* AdminUsersService: reset-password is AuthService's forgotPassword.
SetSuspended(u, suspended) ==
    /\ begun < MaxRequests
    /\ begun' = begun + 1
    /\ account[u].suspended # suspended
    /\ account' = [account EXCEPT ![u].suspended = suspended]
    /\ Marks(u)
    /\ UNCHANGED <<roles, writes, task, generated, latest, used, cut>>

Suspend(u) == u \in Visible /\ SetSuspended(u, TRUE)
Reactivate(u) == u \in Accounts /\ SetSuspended(u, FALSE)

\* The migration runs as a new process starts, while the old one still serves.
GrantAllRoles ==
    /\ \E u \in Accounts : roles[u] # Roles
    /\ roles' = [u \in Users |-> IF u \in Accounts THEN Roles ELSE roles[u]]
    /\ UNCHANGED <<account, writes, task, generated, begun, history>>

SettingsStep(t) == SaveProfile(t) \/ ChangePassword(t) \/ ReportConfirmation(t)

SettingsRequest(t) == \E u \in Users :
    \/ ConfirmUserEmail(t, u)
    \/ \E email \in Emails \cup {Null} : EditProfile(t, u, email)
    \/ \E password \in Passwords : UpdatePassword(t, u, password)

AdminAct == GrantAllRoles \/ \E u \in Users : Suspend(u) \/ Reactivate(u)
=============================================================================
