--------------------------- MODULE AccountsProofs ---------------------------
(***************************************************************************)
(* Proofs about Accounts for any users, addresses, roles and passwords and *)
(* any number of codes and of requests in flight: the inductive invariant  *)
(* and the properties of roles it implies.                                 *)
(***************************************************************************)
EXTENDS Accounts, TLAPS

-----------------------------------------------------------------------------
(* What one request holds, as a predicate of its record. *)

Right(local) ==
    /\ local.pc \notin {"idle", "inserting"} <=> local.user # Null
    /\ local.pc \in {"savingRole", "addingRole", "switching", "inserting"} => local.role # Null
    /\ local.pc \in {"inserting", "storingCode"} => local.email # Null
    /\ local.pc = "resetting" => local.code # NoCode
    /\ local.pc = "savingProfile" => local.row # Null
    /\ local.user # Null =>
          /\ local.user \in Accounts
          /\ local.roles \subseteq roles[local.user]
          /\ local.row # Null => local.row.user_type \in roles[local.user]
          /\ local.pc = "answering" /\ local.row # Null => local.row.user_type \in local.roles
          /\ local.pc \in {"savingRole", "activating"} =>
                local.row # Null /\ local.row.user_type \in local.roles
          /\ local.pc \in {"activating", "switching"} /\ local.role # Null =>
                local.role \in roles[local.user]

RightInv == \A t \in Tasks : Right(task[t])
IndInv == TypeOK /\ ActiveRoleIsHeld /\ RightInv

LEMMA InvIsInd == RoleInv <=> IndInv /\ WriteInv
BY DEF RoleInv, IndInv, RightInv, Right, HeldInv, BusyInv, At

\* Rows and roles are never taken away, so what a request relies on stays true.
Grows ==
    /\ Accounts \subseteq Accounts'
    /\ \A u \in Users : roles[u] \subseteq roles'[u]

LEMMA RightPersists ==
    ASSUME Grows, NEW local \in Task, Right(local)
    PROVE  Right(local)'
<1>1. local.user # Null => local.user \in Users
  BY DEF Task
<1> QED
  BY <1>1 DEF Right, Grows

LEMMA OneTaskRight ==
    ASSUME IndInv, Grows, NEW t \in Tasks, NEW local \in Task, Right(local)',
           task' = [task EXCEPT ![t] = local]
    PROVE  RightInv' /\ task' \in [Tasks -> Task]
<1>1. task \in [Tasks -> Task] /\ RightInv
  BY DEF IndInv, TypeOK
<1>2. ASSUME NEW s \in Tasks
      PROVE  Right(task[s])'
  <2> PICK own : own = task[s]
    OBVIOUS
  <2> PICK new : new = task'[s]
    OBVIOUS
  <2>1. Right(new)'
    <3>1. CASE s = t
      BY <1>1, <3>1
    <3>2. CASE s # t
      BY <1>1, <3>2, RightPersists DEF RightInv
    <3> QED
      BY <3>1, <3>2
  <2> QED
    BY <2>1 DEF Right
<1> QED
  BY <1>1, <1>2 DEF RightInv

LEMMA IdleIsRight ==
    /\ IdleTask \in Task
    /\ Right(IdleTask)
    /\ Right(IdleTask)'
BY AccountAssumption DEF IdleTask, Task, TaskPcs, Right, Codes, NoCode

LEMMA SameTablesGrow ==
    ASSUME UNCHANGED <<account, roles>>
    PROVE  Grows /\ (ActiveRoleIsHeld => ActiveRoleIsHeld')
BY DEF Grows, Accounts, ActiveRoleIsHeld

-----------------------------------------------------------------------------
(* Requests that begin, and steps that only move on. *)

\* The tables keep their type, whatever else a step does to one request.
Tables ==
    /\ account \in [Users -> Account \cup {Null}]
    /\ roles \in [Users -> SUBSET Roles]

Rest ==
    /\ writes \subseteq Write
    /\ generated \in 0 .. NumCodes
    /\ begun \in 0 .. MaxRequests
    /\ latest \in [Users -> Codes \cup {NoCode}]
    /\ used \subseteq Codes
    /\ raced \subseteq Users
    /\ cut \subseteq Users

LEMMA TypeParts == TypeOK <=> Tables /\ Rest /\ task \in [Tasks -> Task]
BY DEF TypeOK, Tables, Rest

LEMMA MarksUsers ==
    ASSUME raced \subseteq Users, NEW u \in Users \cup {Null}, Marks(u)
    PROVE  raced' \subseteq Users
BY DEF Marks

LEMMA BeginKeeps ==
    ASSUME IndInv, NEW t \in Tasks, NEW local \in Task, Right(local), Begins(t, local),
           UNCHANGED <<account, roles>>, writes' \subseteq Write, generated' \in 0 .. NumCodes,
           latest' \in [Users -> Codes \cup {NoCode}], used' \subseteq Codes, cut' = cut
    PROVE  IndInv' /\ Grows
<1>1. task' = [task EXCEPT ![t] = local] /\ begun' = begun + 1 /\ begun < MaxRequests
      /\ Marks(local.user)
  BY DEF Begins
<1>2. Tables /\ Rest /\ local.user \in Users \cup {Null}
  BY TypeParts DEF IndInv, Task
<1>3. raced' \subseteq Users
  BY <1>1, <1>2, MarksUsers DEF Rest
<1>4. Rest'
  BY <1>1, <1>2, <1>3, AccountAssumption DEF Rest
<1>5. Grows /\ Right(local)'
  BY SameTablesGrow, RightPersists
<1>6. RightInv' /\ task' \in [Tasks -> Task]
  BY <1>1, <1>5, OneTaskRight
<1>7. Tables' /\ ActiveRoleIsHeld'
  BY <1>2, SameTablesGrow DEF Tables, IndInv
<1> QED
  BY <1>4, <1>5, <1>6, <1>7 DEF IndInv, TypeOK, Tables, Rest

\* A step of a request that is under way.
LEMMA StepKeeps ==
    ASSUME IndInv, NEW t \in Tasks, NEW local \in Task, Right(local)', Grows, Tables', Rest',
           ActiveRoleIsHeld', task' = [task EXCEPT ![t] = local]
    PROVE  IndInv' /\ Grows
<1>1. RightInv' /\ task' \in [Tasks -> Task]
  BY OneTaskRight
<1> QED
  BY <1>1 DEF IndInv, TypeOK, Tables, Rest

\* A step that leaves the tables alone.
LEMMA MoveKeeps ==
    ASSUME IndInv, NEW t \in Tasks, NEW local \in Task, Right(local), Goto(t, local),
           UNCHANGED <<account, roles>>, writes' \subseteq Write, generated' = generated,
           latest' \in [Users -> Codes \cup {NoCode}], used' = used, cut' \subseteq Users
    PROVE  IndInv' /\ Grows
<1>1. Tables /\ Rest
  BY TypeParts DEF IndInv
<1>2. Grows /\ ActiveRoleIsHeld'
  BY SameTablesGrow DEF IndInv
<1>3. Right(local)'
  BY <1>2, RightPersists
<1>4. Rest' /\ Tables' /\ task' = [task EXCEPT ![t] = local]
  BY <1>1 DEF Goto, Rest, Tables
<1> QED
  BY <1>2, <1>3, <1>4, StepKeeps

-----------------------------------------------------------------------------
(* AuthService: what begins. *)

LEMMA LoginKeeps ==
    ASSUME IndInv, NEW t \in Tasks, NEW u \in Users, Login(t, u)
    PROVE  IndInv' /\ Grows
<1> DEFINE local == [IdleTask EXCEPT !.pc = "listing", !.user = u, !.row = account[u]]
<1>1. TypeOK /\ ActiveRoleIsHeld /\ u \in Accounts /\ account[u] \in Account
  BY DEF IndInv, TypeOK, Login, UserLoginGuard, Visible, Accounts
<1>2. local \in Task /\ Right(local)
  BY <1>1, IdleIsRight, AccountAssumption DEF IdleTask, Task, TaskPcs, Right, ActiveRoleIsHeld
<1>8. Begins(t, local)
  BY DEF Login
<1>9. /\ UNCHANGED <<account, roles>> /\ writes' \subseteq Write /\ generated' \in 0 .. NumCodes
      /\ latest' \in [Users -> Codes \cup {NoCode}] /\ used' \subseteq Codes /\ cut' = cut
  BY <1>1 DEF Login, TypeOK
<1> HIDE DEF local
<1> QED
  BY <1>1, <1>2, <1>8, <1>9, BeginKeeps

LEMMA CreateAccountKeeps ==
    ASSUME IndInv, NEW t \in Tasks, NEW u \in Users, NEW role \in Roles, CreateAccount(t, u, role)
    PROVE  IndInv' /\ Grows
<1> DEFINE local == [IdleTask EXCEPT !.pc = "savingRole", !.user = u, !.row = account[u],
                                     !.roles = roles[u], !.role = role]
<1>1. TypeOK /\ ActiveRoleIsHeld /\ u \in Accounts /\ account[u] \in Account
  BY DEF IndInv, TypeOK, CreateAccount, Visible, Accounts
<1>2. roles[u] \subseteq Roles /\ account[u].user_type \in roles[u] /\ account[u] # Null
  BY <1>1, AccountAssumption DEF TypeOK, ActiveRoleIsHeld
<1>3. local \in Task /\ Right(local)
  BY <1>1, <1>2, IdleIsRight, AccountAssumption DEF IdleTask, Task, TaskPcs, Right
<1>8. Begins(t, local)
  BY DEF CreateAccount
<1>9. /\ UNCHANGED <<account, roles>> /\ writes' \subseteq Write /\ generated' \in 0 .. NumCodes
      /\ latest' \in [Users -> Codes \cup {NoCode}] /\ used' \subseteq Codes /\ cut' = cut
  BY <1>1 DEF CreateAccount, TypeOK
<1> HIDE DEF local
<1> QED
  BY <1>1, <1>3, <1>8, <1>9, BeginKeeps

LEMMA GoogleAuthKeeps ==
    ASSUME IndInv, NEW t \in Tasks, NEW u \in Users, NEW role \in Roles \cup {Null},
           GoogleAuth(t, u, role)
    PROVE  IndInv' /\ Grows
<1> DEFINE local == [IdleTask EXCEPT
          !.pc = IF role # Null /\ role \notin roles[u] THEN "savingRole" ELSE "activating",
          !.user = u, !.row = account[u], !.roles = roles[u], !.role = role, !.google = TRUE]
<1>1. TypeOK /\ ActiveRoleIsHeld /\ u \in Accounts /\ account[u] \in Account
  BY DEF IndInv, TypeOK, GoogleAuth, Visible, Accounts
<1>2. roles[u] \subseteq Roles /\ account[u].user_type \in roles[u] /\ account[u] # Null
  BY <1>1, AccountAssumption DEF TypeOK, ActiveRoleIsHeld
<1>3. local \in Task /\ Right(local)
  BY <1>1, <1>2, IdleIsRight, AccountAssumption DEF IdleTask, Task, TaskPcs, Right
<1>8. Begins(t, local)
  BY DEF GoogleAuth
<1>9. /\ UNCHANGED <<account, roles>> /\ writes' \subseteq Write /\ generated' \in 0 .. NumCodes
      /\ latest' \in [Users -> Codes \cup {NoCode}] /\ used' \subseteq Codes /\ cut' = cut
  BY <1>1 DEF GoogleAuth, TypeOK
<1> HIDE DEF local
<1> QED
  BY <1>1, <1>3, <1>8, <1>9, BeginKeeps

LEMMA CreateNewKeeps ==
    ASSUME IndInv, NEW t \in Tasks, NEW email \in Emails, NEW role \in Roles,
           NEW password \in Passwords \cup {Null}, NEW google \in BOOLEAN,
           CreateNew(t, email, role, password, google)
    PROVE  IndInv' /\ Grows
<1> DEFINE local == [IdleTask EXCEPT !.pc = "inserting", !.email = email, !.role = role,
                                     !.password = password, !.google = google]
<1>1. TypeOK
  BY DEF IndInv
<1>2. local \in Task /\ Right(local)
  BY IdleIsRight, AccountAssumption DEF IdleTask, Task, TaskPcs, Right
<1>8. Begins(t, local)
  BY DEF CreateNew
<1>9. /\ UNCHANGED <<account, roles>> /\ writes' \subseteq Write /\ generated' \in 0 .. NumCodes
      /\ latest' \in [Users -> Codes \cup {NoCode}] /\ used' \subseteq Codes /\ cut' = cut
  BY <1>1 DEF CreateNew, TypeOK
<1> HIDE DEF local
<1> QED
  BY <1>1, <1>2, <1>8, <1>9, BeginKeeps

LEMMA AddRoleKeeps ==
    ASSUME IndInv, NEW t \in Tasks, NEW u \in Users, NEW role \in Roles, AddRole(t, u, role)
    PROVE  IndInv' /\ Grows
<1> DEFINE local == [IdleTask EXCEPT !.pc = "addingRole", !.user = u, !.role = role]
<1>1. TypeOK /\ u \in Accounts
  BY DEF IndInv, AddRole
<1>2. local \in Task /\ Right(local)
  BY <1>1, IdleIsRight, AccountAssumption DEF IdleTask, Task, TaskPcs, Right
<1>8. Begins(t, local)
  BY DEF AddRole
<1>9. /\ UNCHANGED <<account, roles>> /\ writes' \subseteq Write /\ generated' \in 0 .. NumCodes
      /\ latest' \in [Users -> Codes \cup {NoCode}] /\ used' \subseteq Codes /\ cut' = cut
  BY <1>1 DEF AddRole, TypeOK
<1> HIDE DEF local
<1> QED
  BY <1>1, <1>2, <1>8, <1>9, BeginKeeps

LEMMA SwitchRoleKeeps ==
    ASSUME IndInv, NEW t \in Tasks, NEW u \in Users, NEW role \in Roles, SwitchRole(t, u, role)
    PROVE  IndInv' /\ Grows
<1> DEFINE local == [IdleTask EXCEPT !.pc = "switching", !.user = u, !.role = role]
<1>1. TypeOK /\ u \in Accounts /\ role \in roles[u]
  BY DEF IndInv, SwitchRole, MaySwitch
<1>2. local \in Task /\ Right(local)
  BY <1>1, IdleIsRight, AccountAssumption DEF IdleTask, Task, TaskPcs, Right
<1>8. Begins(t, local)
  BY DEF SwitchRole
<1>9. /\ UNCHANGED <<account, roles>> /\ writes' \subseteq Write /\ generated' \in 0 .. NumCodes
      /\ latest' \in [Users -> Codes \cup {NoCode}] /\ used' \subseteq Codes /\ cut' = cut
  BY <1>1 DEF SwitchRole, TypeOK
<1> HIDE DEF local
<1> QED
  BY <1>1, <1>2, <1>8, <1>9, BeginKeeps

LEMMA ForgotPasswordKeeps ==
    ASSUME IndInv, NEW t \in Tasks, NEW u \in Users, ForgotPassword(t, u)
    PROVE  IndInv' /\ Grows
<1> DEFINE local == [IdleTask EXCEPT !.pc = "mailing", !.user = u, !.code = FreshCode]
<1>1. TypeOK /\ u \in Accounts /\ account[u] \in Account
  BY DEF IndInv, TypeOK, ForgotPassword, Visible, Accounts
<1>2. FreshCode \in Codes
  BY <1>1, AccountAssumption DEF ForgotPassword, MayGenerate, FreshCode, Codes, TypeOK
<1>3. local \in Task /\ Right(local)
  BY <1>1, <1>2, IdleIsRight, AccountAssumption DEF IdleTask, Task, TaskPcs, Right
<1>4. writes' \subseteq Write
  BY <1>1, <1>2 DEF ForgotPassword, TypeOK, Write, Account
<1>5. generated' \in 0 .. NumCodes
  BY <1>1, <1>2, AccountAssumption DEF ForgotPassword, Codes
<1>8. Begins(t, local)
  BY DEF ForgotPassword
<1>9. /\ UNCHANGED <<account, roles>> /\ writes' \subseteq Write /\ generated' \in 0 .. NumCodes
      /\ latest' \in [Users -> Codes \cup {NoCode}] /\ used' \subseteq Codes /\ cut' = cut
  BY <1>1, <1>4, <1>5 DEF ForgotPassword, TypeOK
<1> HIDE DEF local
<1> QED
  BY <1>1, <1>3, <1>4, <1>5, <1>8, <1>9, BeginKeeps

LEMMA ResendEmailKeeps ==
    ASSUME IndInv, NEW t \in Tasks, NEW u \in Users, ResendEmail(t, u)
    PROVE  IndInv' /\ Grows
<1> DEFINE local == [IdleTask EXCEPT !.pc = "storingCode", !.user = u,
                                     !.email = account[u].email, !.code = FreshCode]
<1>1. TypeOK /\ u \in Accounts /\ account[u] \in Account
  BY DEF IndInv, TypeOK, ResendEmail, Visible, Accounts
<1>2. FreshCode \in Codes /\ account[u].email \in Emails
  BY <1>1, AccountAssumption DEF ResendEmail, MayGenerate, FreshCode, Codes, TypeOK, Account
<1>3. local \in Task /\ Right(local)
  BY <1>1, <1>2, IdleIsRight, AccountAssumption DEF IdleTask, Task, TaskPcs, Right
<1>4. generated' \in 0 .. NumCodes
  BY <1>1, <1>2, AccountAssumption DEF ResendEmail, Codes
<1>8. Begins(t, local)
  BY DEF ResendEmail
<1>9. /\ UNCHANGED <<account, roles>> /\ writes' \subseteq Write /\ generated' \in 0 .. NumCodes
      /\ latest' \in [Users -> Codes \cup {NoCode}] /\ used' \subseteq Codes /\ cut' = cut
  BY <1>1, <1>4 DEF ResendEmail, TypeOK
<1> HIDE DEF local
<1> QED
  BY <1>1, <1>3, <1>4, <1>8, <1>9, BeginKeeps

LEMMA ResetPasswordKeeps ==
    ASSUME IndInv, NEW t \in Tasks, NEW u \in Users, NEW password \in Passwords,
           ResetPassword(t, u, password)
    PROVE  IndInv' /\ Grows
<1> DEFINE local == [IdleTask EXCEPT !.pc = "resetting", !.user = u, !.password = password,
                                     !.code = account[u].remember_token]
<1>1. TypeOK /\ u \in Accounts /\ account[u] \in Account
  BY DEF IndInv, TypeOK, ResetPassword, Visible, Accounts
<1>2. account[u].remember_token \in Codes \cup {NoCode} /\ account[u].remember_token # NoCode
  BY <1>1 DEF Account, ResetPassword
<1>3. local \in Task /\ Right(local)
  BY <1>1, <1>2, IdleIsRight, AccountAssumption DEF IdleTask, Task, TaskPcs, Right
<1>8. Begins(t, local)
  BY DEF ResetPassword
<1>9. /\ UNCHANGED <<account, roles>> /\ writes' \subseteq Write /\ generated' \in 0 .. NumCodes
      /\ latest' \in [Users -> Codes \cup {NoCode}] /\ used' \subseteq Codes /\ cut' = cut
  BY <1>1 DEF ResetPassword, TypeOK
<1> HIDE DEF local
<1> QED
  BY <1>1, <1>3, <1>8, <1>9, BeginKeeps

-----------------------------------------------------------------------------
(* AuthService: what goes on. *)

LEMMA Held ==
    ASSUME IndInv, NEW t \in Tasks
    PROVE  /\ task[t] \in Task /\ Right(task[t]) /\ TypeOK /\ ActiveRoleIsHeld
           /\ task[t].user \in Users \cup {Null} /\ task[t].role \in Roles \cup {Null}
           /\ task[t].row \in Account \cup {Null} /\ task[t].roles \subseteq Roles
           /\ task[t].code \in Codes \cup {NoCode} /\ task[t].email \in Emails \cup {Null}
           /\ task[t].password \in Passwords \cup {Null} /\ task[t].google \in BOOLEAN
<1>1. task[t] \in Task /\ Right(task[t]) /\ TypeOK /\ ActiveRoleIsHeld
  BY DEF IndInv, TypeOK, RightInv
<1> QED
  BY <1>1 DEF Task

\* A request that is about an account.
LEMMA Subject ==
    ASSUME IndInv, NEW t \in Tasks, task[t].pc \notin {"idle", "inserting"}
    PROVE  /\ task[t].user \in Users /\ task[t].user # Null /\ task[t].user \in Accounts
           /\ account[task[t].user] \in Account /\ account[task[t].user] # Null
           /\ roles[task[t].user] \subseteq Roles
<1>1. task[t].user # Null /\ task[t].user \in Users /\ task[t].user \in Accounts
  BY Held DEF Right
<1> QED
  BY <1>1, Held DEF TypeOK, Accounts

LEMMA ReturnKeeps ==
    ASSUME IndInv, NEW t \in Tasks, Returns(t), UNCHANGED <<account, roles>>,
           writes' \subseteq Write, generated' = generated,
           latest' \in [Users -> Codes \cup {NoCode}], used' = used, cut' \subseteq Users
    PROVE  IndInv' /\ Grows
BY IdleIsRight, MoveKeeps DEF Returns

LEMMA AnswerKeeps ==
    ASSUME IndInv, NEW t \in Tasks, Answer(t)
    PROVE  IndInv' /\ Grows
BY ReturnKeeps, Held DEF Answer, TypeOK

LEMMA RefusedKeeps ==
    ASSUME IndInv, NEW t \in Tasks, Refused(t)
    PROVE  IndInv' /\ Grows
BY ReturnKeeps, Held DEF Refused, TypeOK

LEMMA ListRolesKeeps ==
    ASSUME IndInv, NEW t \in Tasks, ListRoles(t)
    PROVE  IndInv' /\ Grows
<1> DEFINE local == [task[t] EXCEPT !.pc = "answering", !.roles = roles[task[t].user]]
<1>1. task[t].user \in Users /\ roles[task[t].user] \subseteq Roles
  BY Subject DEF ListRoles, At
<1>2. local \in Task
  BY <1>1, Held DEF Task, TaskPcs
<1>3. Goto(t, local)
  BY DEF ListRoles
<1>4. /\ local.pc = "answering" /\ local.user = task[t].user
      /\ local.row = task[t].row /\ local.roles = roles[task[t].user]
  BY Held DEF Task
<1> HIDE DEF local
<1>5. Right(local)
  BY <1>4, Held DEF Right, ListRoles, At
<1> QED
  BY <1>2, <1>3, <1>5, MoveKeeps, Held DEF ListRoles, TypeOK

LEMMA RereadKeeps ==
    ASSUME IndInv, NEW t \in Tasks, Reread(t)
    PROVE  IndInv' /\ Grows
<1> DEFINE local == [task[t] EXCEPT !.pc = "listing", !.row = FindOne(task[t].user)]
<1>1. /\ task[t].user \in Users /\ task[t].user \in Accounts
      /\ account[task[t].user] \in Account
  BY Subject DEF Reread, At
<1>2. /\ FindOne(task[t].user) \in Account \cup {Null}
      /\ FindOne(task[t].user) # Null => FindOne(task[t].user).user_type \in roles[task[t].user]
  BY <1>1, Held DEF FindOne, ActiveRoleIsHeld
<1>3. local \in Task
  BY <1>1, <1>2, Held DEF Task, TaskPcs
<1>4. Goto(t, local)
  BY DEF Reread
<1>5. /\ local.pc = "listing" /\ local.user = task[t].user
      /\ local.row = FindOne(task[t].user) /\ local.roles = task[t].roles
  BY Held DEF Task
<1> HIDE DEF local
<1>6. Right(local)
  BY <1>2, <1>5, Held DEF Right, Reread, At
<1> QED
  BY <1>3, <1>4, <1>6, MoveKeeps, Held DEF Reread, TypeOK

\* A role is added, in whichever way.
LEMMA RoleAdded ==
    ASSUME IndInv, NEW u \in Users, NEW role \in Roles,
           roles' = [roles EXCEPT ![u] = @ \cup {role}], account' = account
    PROVE  /\ Grows /\ Tables' /\ ActiveRoleIsHeld'
           /\ roles'[u] = roles[u] \cup {role}
<1>1. TypeOK /\ ActiveRoleIsHeld
  BY DEF IndInv
<1> QED
  BY <1>1 DEF Grows, Tables, TypeOK, ActiveRoleIsHeld, Accounts

\* A copy stays right when only where the request stands changes, and the role it
\* is about is one the account has by now.
LEMMA RoleTaken ==
    ASSUME Grows, NEW own \in Task, NEW local \in Task, Right(own),
           own.pc = "savingRole", own.role \in roles'[own.user],
           local = [own EXCEPT !.pc = "activating"]
    PROVE  Right(local)'
<1>1. Right(own)'
  BY RightPersists
<1>2. /\ local.pc = "activating" /\ local.user = own.user /\ local.role = own.role
      /\ local.row = own.row /\ local.roles = own.roles /\ local.code = own.code
      /\ local.email = own.email
  BY DEF Task
<1> QED
  BY <1>1, <1>2 DEF Right

LEMMA SaveRoleKeeps ==
    ASSUME IndInv, NEW t \in Tasks, SaveRole(t)
    PROVE  IndInv' /\ Grows
<1>1. task[t].user \in Users /\ task[t].user # Null /\ task[t].role \in Roles
  BY Subject, Held DEF SaveRole, At, Right
<1>2. /\ Grows /\ Tables' /\ ActiveRoleIsHeld'
      /\ roles'[task[t].user] = roles[task[t].user] \cup {task[t].role}
  BY <1>1, RoleAdded DEF SaveRole
<1> PICK own : own = task[t]
  OBVIOUS
<1> PICK local : local = [own EXCEPT !.pc = "activating"]
  OBVIOUS
<1>3. local \in Task /\ own \in Task
  BY Held DEF Task, TaskPcs
<1>4. Right(local)'
  BY <1>1, <1>2, <1>3, Held, RoleTaken DEF SaveRole, At
<1>5. Rest' /\ task' = [task EXCEPT ![t] = local]
  BY TypeParts, Held DEF Rest, SaveRole, Goto
<1> QED
  BY <1>2, <1>3, <1>4, <1>5, StepKeeps

\* The table users changes, but no account goes and every active role is held.
LEMMA AccountsChanged ==
    ASSUME IndInv, roles' = roles, account' \in [Users -> Account \cup {Null}],
           \A u \in Accounts : account'[u] # Null,
           \A u \in Users : account'[u] # Null => account'[u].user_type \in roles[u]
    PROVE  Grows /\ Tables' /\ ActiveRoleIsHeld'
BY DEF IndInv, TypeOK, Grows, Tables, ActiveRoleIsHeld, Accounts

\* One row changes.
LEMMA RowChanged ==
    ASSUME IndInv, NEW u \in Users, NEW row \in Account, row.user_type \in roles[u],
           account' = [account EXCEPT ![u] = row], roles' = roles
    PROVE  Grows /\ Tables' /\ ActiveRoleIsHeld'
<1>1. account \in [Users -> Account \cup {Null}] /\ ActiveRoleIsHeld /\ row # Null
  BY AccountAssumption DEF IndInv, TypeOK
<1>2. account' \in [Users -> Account \cup {Null}]
  BY <1>1
<1>3. \A v \in Users : account'[v] = IF v = u THEN row ELSE account[v]
  BY <1>1
<1>4. \A v \in Accounts : account'[v] # Null
  BY <1>1, <1>3 DEF Accounts
<1>5. \A v \in Users : account'[v] # Null => account'[v].user_type \in roles[v]
  BY <1>1, <1>3 DEF ActiveRoleIsHeld, Accounts
<1> QED
  BY <1>2, <1>4, <1>5, AccountsChanged

LEMMA ActivateKeeps ==
    ASSUME IndInv, NEW t \in Tasks, Activate(t)
    PROVE  IndInv' /\ Grows
<1> PICK own : own = task[t]
  OBVIOUS
<1> PICK u : u = own.user
  OBVIOUS
<1>1. /\ own \in Task /\ Right(own) /\ own.pc = "activating" /\ u \in Users /\ u # Null
      /\ u \in Accounts /\ account[u] \in Account /\ roles[u] \subseteq Roles
      /\ ActiveRoleIsHeld /\ account \in [Users -> Account \cup {Null}]
  BY Held, Subject DEF Activate, At, TypeOK
<1>2. /\ own.row \in Account \cup {Null} /\ own.row # Null /\ own.roles \subseteq Roles
      /\ own.row.user_type \in own.roles /\ own.roles \subseteq roles[u]
      /\ own.role \in Roles \cup {Null} /\ own.google \in BOOLEAN
      /\ own.role # Null => own.role \in roles[u]
      /\ own.row.user_type \in roles[u] /\ own.code \in Codes \cup {NoCode}
      /\ own.email \in Emails \cup {Null} /\ own.password \in Passwords \cup {Null}
  BY <1>1 DEF Right, Task
<1>20. PICK type : type = IF own.role = Null THEN own.row.user_type ELSE own.role
  OBVIOUS
<1>21. PICK verified : verified = (own.row.verified \/ own.google)
  OBVIOUS
<1> DEFINE copy == Activated(own)
<1>3. copy \in Account /\ copy.user_type = type
  <2>1. type \in Roles /\ own.row \in Account
    BY <1>2, <1>1, <1>20 DEF Account
  <2>2. verified \in BOOLEAN
    BY <1>21
  <2>3. copy = [own.row EXCEPT !.user_type = type, !.verified = verified]
    BY <1>20, <1>21 DEF Activated
  <2> HIDE DEF copy
  <2> QED
    BY <2>1, <2>2, <2>3 DEF Account
<1>22. PICK active : active = IF own.role = Null THEN account[u].user_type ELSE copy.user_type
  OBVIOUS
<1>23. PICK confirmed : confirmed = (account[u].verified \/ (own.google /\ ~own.row.verified))
  OBVIOUS
<1> DEFINE row == [account[u] EXCEPT !.user_type = active, !.verified = confirmed]
<1>4. row \in Account /\ row.user_type \in roles[u]
  <2>1. account[u].user_type \in roles[u]
    BY <1>1 DEF ActiveRoleIsHeld
  <2>2. active \in roles[u] /\ active \in Roles
    BY <1>1, <1>2, <1>3, <1>20, <1>22, <2>1
  <2>3. confirmed \in BOOLEAN
    BY <1>23
  <2>4. row = [account[u] EXCEPT !.user_type = active, !.verified = confirmed]
    OBVIOUS
  <2> HIDE DEF row
  <2> QED
    BY <1>1, <2>2, <2>3, <2>4 DEF Account
<1>5. account' = [account EXCEPT ![u] = row] /\ roles' = roles
  <2>1. account' = [account EXCEPT
            ![u].user_type = IF own.role = Null THEN @ ELSE copy.user_type,
            ![u].verified = @ \/ (own.google /\ ~own.row.verified)]
    BY DEF Activate
  <2> HIDE DEF copy
  <2> QED
    BY <1>1, <1>22, <1>23, <2>1 DEF Activate
<1>6. Grows /\ Tables' /\ ActiveRoleIsHeld'
  <2> HIDE DEF row
  <2> QED
    BY <1>1, <1>4, <1>5, RowChanged
<1> PICK local : local = [own EXCEPT !.pc = "answering", !.row = Activated(own),
                                     !.roles = @ \cup ({own.role} \ {Null})]
  OBVIOUS
<1>7. local \in Task
  BY <1>1, <1>2, <1>3 DEF Task, TaskPcs
<1>8. /\ local.pc = "answering" /\ local.user = u /\ local.row = copy
      /\ local.roles = own.roles \cup ({own.role} \ {Null})
  BY <1>1 DEF Task
<1>9. Right(local)'
  <2>1. /\ copy.user_type \in roles[u] /\ copy.user_type \in local.roles
        /\ local.roles \subseteq roles[u]
    BY <1>2, <1>3, <1>8, <1>20
  <2> HIDE DEF copy
  <2>2. Right(local)
    BY <1>1, <1>8, <2>1 DEF Right
  <2> QED
    BY <1>6, <1>7, <2>2, RightPersists
<1>10. Rest' /\ task' = [task EXCEPT ![t] = local]
  BY TypeParts, Held DEF Rest, Activate, Goto
<1> QED
  BY <1>6, <1>7, <1>9, <1>10, StepKeeps

LEMMA InsertKeeps ==
    ASSUME IndInv, NEW t \in Tasks, Insert(t)
    PROVE  IndInv' /\ Grows
<1> PICK own : own = task[t]
  OBVIOUS
<1>1. /\ own \in Task /\ own.pc = "inserting" /\ Right(own) /\ TypeOK /\ ActiveRoleIsHeld
      /\ own.email \in Emails /\ own.role \in Roles /\ own.google \in BOOLEAN
      /\ own.password \in Passwords \cup {Null}
  BY Held DEF Insert, At, Right
<1> PICK row : row = NewAccount(own)
  OBVIOUS
<1>20. PICK token : token = IF own.google THEN NoCode ELSE FreshCode
  OBVIOUS
<1>2. token \in Codes \cup {NoCode} /\ (own.google \/ FreshCode \in Codes)
  BY <1>1, <1>20, AccountAssumption DEF Insert, MayGenerate, FreshCode, Codes, TypeOK
<1>3. /\ row \in Account /\ row.user_type = own.role /\ row # Null
      /\ row.remember_token \in Codes \cup {NoCode}
  <2>1. row = [email |-> own.email, password |-> own.password, user_type |-> own.role,
               remember_token |-> token, verified |-> own.google, suspended |-> FALSE]
    BY <1>20 DEF NewAccount
  <2>2. row \in Account
    BY <1>1, <1>2, <2>1 DEF Account
  <2>3. row.user_type = own.role /\ row.remember_token = token
    BY <2>1
  <2> QED
    BY <1>2, <2>2, <2>3, AccountAssumption
<1>4. PICK u \in Users \ Accounts :
          /\ account' = [account EXCEPT ![u] = row]
          /\ roles' = [roles EXCEPT ![u] = Roles]
          /\ latest' = [latest EXCEPT ![u] = row.remember_token]
          /\ Goto(t, [IdleTask EXCEPT !.pc = "answering", !.user = u, !.row = row,
                                      !.roles = Roles])
  BY DEF Insert
<1>5. /\ account \in [Users -> Account \cup {Null}] /\ roles \in [Users -> SUBSET Roles]
      /\ latest \in [Users -> Codes \cup {NoCode}]
  BY <1>1 DEF TypeOK
<1>6. /\ \A v \in Users : account'[v] = IF v = u THEN row ELSE account[v]
      /\ \A v \in Users : roles'[v] = IF v = u THEN Roles ELSE roles[v]
      /\ account' \in [Users -> Account \cup {Null}] /\ roles' \in [Users -> SUBSET Roles]
      /\ latest' \in [Users -> Codes \cup {NoCode}]
  BY <1>3, <1>4, <1>5
<1>7. Grows
  BY <1>3, <1>5, <1>6 DEF Grows, Accounts
<1>8. Tables' /\ ActiveRoleIsHeld'
  BY <1>1, <1>3, <1>6 DEF Tables, ActiveRoleIsHeld, Accounts
<1> PICK local : local = [IdleTask EXCEPT !.pc = "answering", !.user = u, !.row = row,
                                          !.roles = Roles]
  OBVIOUS
<1>9. /\ local \in Task /\ local.pc = "answering" /\ local.user = u /\ local.row = row
      /\ local.roles = Roles
  BY <1>3, IdleIsRight DEF Task, TaskPcs, IdleTask
<1>10. u \in Accounts'
  BY <1>3, <1>6 DEF Accounts
<1>11. Right(local)'
  <2>1. roles'[u] = Roles /\ row.user_type \in Roles
    BY <1>1, <1>3, <1>6
  <2>2. /\ local.pc \notin {"idle", "savingRole", "addingRole", "switching", "inserting",
                            "resetting", "savingProfile", "activating"}
        /\ local.user \in Accounts' /\ local.roles \subseteq roles'[local.user]
        /\ local.user # Null
        /\ local.row.user_type \in roles'[local.user] /\ local.row.user_type \in local.roles
    BY <1>9, <1>10, <2>1, AccountAssumption
  <2> QED
    BY <2>2 DEF Right
<1>12. generated' \in 0 .. NumCodes
  BY <1>1, <1>2, AccountAssumption DEF Insert, Codes, TypeOK
<1>13. Rest' /\ task' = [task EXCEPT ![t] = local]
  BY <1>1, <1>4, <1>6, <1>12 DEF Rest, TypeOK, Insert, Goto
<1> QED
  BY <1>7, <1>8, <1>9, <1>11, <1>13, StepKeeps

LEMMA SaveAddedRoleKeeps ==
    ASSUME IndInv, NEW t \in Tasks, SaveAddedRole(t)
    PROVE  IndInv' /\ Grows
<1> PICK own : own = task[t]
  OBVIOUS
<1>1. /\ own \in Task /\ own.pc = "addingRole" /\ Right(own) /\ own.user \in Users
      /\ own.user # Null /\ own.role \in Roles
  BY Subject, Held DEF SaveAddedRole, At, Right
<1>2. Grows /\ Tables' /\ ActiveRoleIsHeld'
  BY <1>1, RoleAdded DEF SaveAddedRole
<1> PICK local : local = [own EXCEPT !.pc = "rereading", !.role = Null]
  OBVIOUS
<1>3. /\ local \in Task /\ local.pc = "rereading" /\ local.user = own.user
      /\ local.row = own.row /\ local.roles = own.roles
  BY <1>1 DEF Task, TaskPcs
<1>4. Right(local)'
  <2>1. Right(local)
    BY <1>1, <1>3 DEF Right
  <2> QED
    BY <1>2, <1>3, <2>1, RightPersists
<1>5. Rest' /\ task' = [task EXCEPT ![t] = local]
  BY TypeParts, Held DEF Rest, SaveAddedRole, Goto
<1> QED
  BY <1>2, <1>3, <1>4, <1>5, StepKeeps

LEMMA SaveActiveRoleKeeps ==
    ASSUME IndInv, NEW t \in Tasks, SaveActiveRole(t)
    PROVE  IndInv' /\ Grows
<1> PICK own : own = task[t]
  OBVIOUS
<1> PICK u : u = own.user
  OBVIOUS
<1>1. /\ own \in Task /\ own.pc = "switching" /\ Right(own) /\ u \in Users /\ u # Null
      /\ own.role \in Roles /\ own.role \in roles[u] /\ account[u] \in Account
      /\ account \in [Users -> Account \cup {Null}]
  BY Subject, Held DEF SaveActiveRole, At, Right, TypeOK
<1> DEFINE row == [account[u] EXCEPT !.user_type = own.role]
<1>2. row \in Account /\ row.user_type = own.role
  BY <1>1 DEF Account
<1>3. account' = [account EXCEPT ![u] = row] /\ roles' = roles
  BY <1>1 DEF SaveActiveRole
<1>4. Grows /\ Tables' /\ ActiveRoleIsHeld'
  <2> HIDE DEF row
  <2> QED
    BY <1>1, <1>2, <1>3, RowChanged
<1> PICK local : local = [own EXCEPT !.pc = "rereading"]
  OBVIOUS
<1>5. /\ local \in Task /\ local.pc = "rereading" /\ local.user = own.user
      /\ local.row = own.row /\ local.roles = own.roles
  BY <1>1 DEF Task, TaskPcs
<1>6. Right(local)'
  <2>1. Right(local)
    BY <1>1, <1>5 DEF Right
  <2> QED
    BY <1>4, <1>5, <2>1, RightPersists
<1>7. Rest' /\ task' = [task EXCEPT ![t] = local]
  BY TypeParts, Held DEF Rest, SaveActiveRole, Goto
<1> QED
  BY <1>4, <1>5, <1>6, <1>7, StepKeeps

\* Whoever owns the address by then: nothing but a code changes.
LEMMA CodeIsStored ==
    ASSUME IndInv, NEW email \in Emails, NEW code \in Codes \cup {NoCode},
           account' = CodeStored(email, code), roles' = roles
    PROVE  Grows /\ Tables' /\ ActiveRoleIsHeld'
<1>1. account \in [Users -> Account \cup {Null}] /\ ActiveRoleIsHeld
  BY DEF IndInv, TypeOK
<1>2. ASSUME NEW u \in Users, account[u] # Null
      PROVE  /\ [account[u] EXCEPT !.remember_token = code] \in Account
             /\ [account[u] EXCEPT !.remember_token = code].user_type \in roles[u]
  <2>1. account[u] \in Account /\ account[u].user_type \in roles[u]
    BY <1>1, <1>2 DEF ActiveRoleIsHeld, Accounts
  <2> QED
    BY <2>1 DEF Account
<1>3. \A u \in Users : \/ account'[u] = account[u]
                       \/ /\ account[u] # Null
                          /\ account'[u] = [account[u] EXCEPT !.remember_token = code]
  BY DEF CodeStored, Owners, Accounts
<1>4. account' \in [Users -> Account \cup {Null}]
  <2>1. account' = [u \in Users |-> account'[u]]
    BY DEF CodeStored
  <2>2. \A u \in Users : account'[u] \in Account \cup {Null}
    BY <1>1, <1>2, <1>3
  <2> QED
    BY <2>1, <2>2
<1>5. \A u \in Accounts : account'[u] # Null
  <2> SUFFICES ASSUME NEW u \in Users, account[u] # Null
               PROVE  account'[u] # Null
    BY DEF Accounts
  <2> QED
    BY <1>2, <1>3, AccountAssumption
<1>6. \A u \in Users : account'[u] # Null => account'[u].user_type \in roles[u]
  <2> SUFFICES ASSUME NEW u \in Users, account'[u] # Null
               PROVE  account'[u].user_type \in roles[u]
    OBVIOUS
  <2>1. CASE account'[u] = account[u]
    BY <1>1, <2>1 DEF ActiveRoleIsHeld, Accounts
  <2>2. CASE account[u] # Null /\ account'[u] = [account[u] EXCEPT !.remember_token = code]
    BY <1>2, <2>2
  <2> QED
    BY <1>3, <2>1, <2>2
<1> QED
  BY <1>4, <1>5, <1>6, AccountsChanged

LEMMA StoreCodeKeeps ==
    ASSUME IndInv, NEW t \in Tasks, StoreCode(t)
    PROVE  IndInv' /\ Grows
<1> PICK own : own = task[t]
  OBVIOUS
<1>1. /\ own \in Task /\ own.pc = "storingCode" /\ Right(own) /\ own.email \in Emails
      /\ own.code \in Codes \cup {NoCode}
  BY Held DEF StoreCode, At, Right
<1>2. Grows /\ Tables' /\ ActiveRoleIsHeld'
  BY <1>1, CodeIsStored DEF StoreCode
<1> PICK local : local = [own EXCEPT !.pc = "mailing", !.email = Null]
  OBVIOUS
<1>3. /\ local \in Task /\ local.pc = "mailing" /\ local.user = own.user
      /\ local.row = own.row /\ local.roles = own.roles
  BY <1>1 DEF Task, TaskPcs
<1>4. Right(local)'
  <2>1. Right(local)
    BY <1>1, <1>3 DEF Right
  <2> QED
    BY <1>2, <1>3, <2>1, RightPersists
<1>5. task' = [task EXCEPT ![t] = local]
  BY Held DEF StoreCode, TypeOK
<1>6. Rest'
  BY TypeParts, Held DEF Rest, StoreCode, Owners, Accounts
<1> QED
  BY <1>2, <1>3, <1>4, <1>5, <1>6, StepKeeps

LEMMA MailCodeKeeps ==
    ASSUME IndInv, NEW t \in Tasks, MailCode(t)
    PROVE  IndInv' /\ Grows
<1>1. TypeOK /\ task[t].code \in Codes \cup {NoCode}
  BY Held
<1>2. latest' \in [Users -> Codes \cup {NoCode}]
  BY <1>1 DEF MailCode, TypeOK
<1> QED
  BY <1>1, <1>2, ReturnKeeps DEF MailCode, TypeOK

LEMMA ReportResetKeeps ==
    ASSUME IndInv, NEW t \in Tasks, ReportReset(t)
    PROVE  IndInv' /\ Grows
<1>1. TypeOK /\ task[t].user \in Users
  BY Held, Subject DEF ReportReset, At
<1>2. writes' \subseteq Write
  BY <1>1 DEF ReportReset, TypeOK, Clearing, Write
<1> QED
  BY <1>1, <1>2, ReturnKeeps DEF ReportReset, TypeOK

\* What is left of a request that has saved a password.
LEMMA CongratulatingIsRight ==
    ASSUME NEW u \in Users, u \in Accounts,
           NEW local, local = [IdleTask EXCEPT !.pc = "congratulating", !.user = u]
    PROVE  local \in Task /\ Right(local)
<1>1. local \in Task
  BY IdleIsRight DEF Task, TaskPcs
<1>2. /\ local.pc = "congratulating" /\ local.user = u /\ local.row = Null
      /\ local.roles = {}
  BY DEF IdleTask
<1>3. u # Null
  BY AccountAssumption
<1> QED
  BY <1>1, <1>2, <1>3 DEF Right

LEMMA SavePasswordKeeps ==
    ASSUME IndInv, NEW t \in Tasks, SavePassword(t)
    PROVE  IndInv' /\ Grows
<1> PICK own : own = task[t]
  OBVIOUS
<1> PICK u : u = own.user
  OBVIOUS
<1>1. /\ own \in Task /\ own.pc = "resetting" /\ Right(own) /\ u \in Users /\ u # Null
      /\ u \in Accounts /\ own.code \in Codes /\ own.password \in Passwords \cup {Null}
      /\ account[u] \in Account /\ account \in [Users -> Account \cup {Null}]
      /\ ActiveRoleIsHeld /\ TypeOK
  BY Held, Subject DEF SavePassword, At, TypeOK, Right
<1> DEFINE row == [account[u] EXCEPT !.password = own.password]
<1>2. row \in Account /\ row.user_type \in roles[u]
  BY <1>1 DEF Account, ActiveRoleIsHeld
<1>3. account' = [account EXCEPT ![u] = row] /\ roles' = roles
  BY <1>1 DEF SavePassword
<1>4. Grows /\ Tables' /\ ActiveRoleIsHeld'
  <2> HIDE DEF row
  <2> QED
    BY <1>1, <1>2, <1>3, RowChanged
<1> PICK local : local = [IdleTask EXCEPT !.pc = "congratulating", !.user = u]
  OBVIOUS
<1>5. local \in Task /\ Right(local)
  BY <1>1, CongratulatingIsRight
<1>6. Right(local)'
  BY <1>4, <1>5, RightPersists
<1>7. /\ latest' \in [Users -> Codes \cup {NoCode}] /\ used' \subseteq Codes
      /\ task' = [task EXCEPT ![t] = local]
  BY <1>1 DEF SavePassword, Unsent, TypeOK, Goto
<1>8. Rest'
  BY <1>1, <1>7 DEF Rest, SavePassword, Goto, TypeOK
<1> QED
  BY <1>4, <1>5, <1>6, <1>7, <1>8, StepKeeps

LEMMA FailsKeeps ==
    ASSUME IndInv, NEW t \in Tasks, Fails(t)
    PROVE  IndInv' /\ Grows
<1>1. TypeOK /\ task[t].user \in Users \cup {Null}
  BY Held
<1>2. cut' \subseteq Users
  BY <1>1 DEF Fails, TypeOK
<1> QED
  BY <1>1, <1>2, ReturnKeeps DEF Fails, TypeOK

-----------------------------------------------------------------------------
(* AccountSettings. *)

LEMMA EditProfileKeeps ==
    ASSUME IndInv, NEW t \in Tasks, NEW u \in Users, NEW email \in Emails \cup {Null},
           EditProfile(t, u, email)
    PROVE  IndInv' /\ Grows
<1> DEFINE row == [account[u] EXCEPT !.email = IF email = Null THEN @ ELSE email]
           local == [IdleTask EXCEPT !.pc = "savingProfile", !.user = u, !.row = row]
<1>1. TypeOK /\ ActiveRoleIsHeld /\ u \in Accounts /\ account[u] \in Account
  BY DEF IndInv, TypeOK, EditProfile, Visible, Accounts
<1>2. row \in Account /\ row # Null /\ row.user_type \in roles[u]
  BY <1>1, AccountAssumption DEF Account, ActiveRoleIsHeld
<1>3. Begins(t, local)
  BY DEF EditProfile
<1>4. local \in Task /\ Right(local)
  <2> HIDE DEF row
  <2> QED
    BY <1>1, <1>2, IdleIsRight, AccountAssumption DEF IdleTask, Task, TaskPcs, Right
<1>5. /\ UNCHANGED <<account, roles>> /\ writes' \subseteq Write /\ generated' \in 0 .. NumCodes
      /\ latest' \in [Users -> Codes \cup {NoCode}] /\ used' \subseteq Codes /\ cut' = cut
  BY <1>1 DEF EditProfile, TypeOK
<1> HIDE DEF local
<1> QED
  BY <1>1, <1>3, <1>4, <1>5, BeginKeeps

LEMMA SaveProfileKeeps ==
    ASSUME IndInv, NEW t \in Tasks, SaveProfile(t)
    PROVE  IndInv' /\ Grows
<1> PICK own : own = task[t]
  OBVIOUS
<1> PICK u : u = own.user
  OBVIOUS
<1>1. /\ own \in Task /\ own.pc = "savingProfile" /\ Right(own) /\ u \in Users /\ u # Null
      /\ own.row \in Account /\ own.row.user_type \in roles[u] /\ account[u] \in Account
      /\ account \in [Users -> Account \cup {Null}] /\ TypeOK
  BY Held, Subject DEF SaveProfile, At, TypeOK, Right
<1> DEFINE row == SavedProfile(u, own.row)
<1>2. row \in Account /\ row.user_type \in roles[u]
  BY <1>1 DEF Account, SavedProfile
<1>3. account' = [account EXCEPT ![u] = row] /\ roles' = roles
  BY <1>1 DEF SaveProfile
<1>4. Grows /\ Tables' /\ ActiveRoleIsHeld'
  <2> HIDE DEF row
  <2> QED
    BY <1>1, <1>2, <1>3, RowChanged
<1>5. Rest' /\ task' = [task EXCEPT ![t] = IdleTask]
  BY <1>1 DEF Rest, SaveProfile, Returns, Goto, TypeOK
<1> QED
  BY <1>4, <1>5, IdleIsRight, StepKeeps

LEMMA UpdatePasswordKeeps ==
    ASSUME IndInv, NEW t \in Tasks, NEW u \in Users, NEW password \in Passwords,
           UpdatePassword(t, u, password)
    PROVE  IndInv' /\ Grows
<1> DEFINE local == [IdleTask EXCEPT !.pc = "changingPassword", !.user = u,
                                     !.password = password]
<1>1. TypeOK /\ u \in Accounts
  BY DEF IndInv, UpdatePassword, Visible
<1>2. local \in Task /\ Right(local)
  BY <1>1, IdleIsRight, AccountAssumption DEF IdleTask, Task, TaskPcs, Right
<1>3. Begins(t, local)
  BY DEF UpdatePassword
<1>4. /\ UNCHANGED <<account, roles>> /\ writes' \subseteq Write /\ generated' \in 0 .. NumCodes
      /\ latest' \in [Users -> Codes \cup {NoCode}] /\ used' \subseteq Codes /\ cut' = cut
  BY <1>1 DEF UpdatePassword, TypeOK
<1> HIDE DEF local
<1> QED
  BY <1>2, <1>3, <1>4, BeginKeeps

LEMMA ChangePasswordKeeps ==
    ASSUME IndInv, NEW t \in Tasks, ChangePassword(t)
    PROVE  IndInv' /\ Grows
<1> PICK own : own = task[t]
  OBVIOUS
<1> PICK u : u = own.user
  OBVIOUS
<1>1. /\ u \in Users /\ u \in Accounts /\ own.password \in Passwords \cup {Null}
      /\ account[u] \in Account /\ account \in [Users -> Account \cup {Null}]
      /\ ActiveRoleIsHeld /\ TypeOK
  BY Held, Subject DEF ChangePassword, At, TypeOK
<1> DEFINE row == [account[u] EXCEPT !.password = own.password]
<1>2. row \in Account /\ row.user_type \in roles[u]
  BY <1>1 DEF Account, ActiveRoleIsHeld
<1>3. account' = [account EXCEPT ![u] = row] /\ roles' = roles
  BY <1>1 DEF ChangePassword
<1>4. Grows /\ Tables' /\ ActiveRoleIsHeld'
  <2> HIDE DEF row
  <2> QED
    BY <1>1, <1>2, <1>3, RowChanged
<1>5. Rest' /\ task' = [task EXCEPT ![t] = IdleTask]
  BY <1>1 DEF Rest, ChangePassword, Returns, Goto, TypeOK
<1> QED
  BY <1>4, <1>5, IdleIsRight, StepKeeps

LEMMA ConfirmUserEmailKeeps ==
    ASSUME IndInv, NEW t \in Tasks, NEW u \in Users, ConfirmUserEmail(t, u)
    PROVE  IndInv' /\ Grows
<1> DEFINE local == [IdleTask EXCEPT !.pc = "reporting", !.user = u]
<1>1. TypeOK /\ u \in Accounts /\ account[u] \in Account
  BY DEF IndInv, TypeOK, ConfirmUserEmail, Visible, Accounts
<1>2. local \in Task /\ Right(local)
  BY <1>1, IdleIsRight, AccountAssumption DEF IdleTask, Task, TaskPcs, Right
<1>3. Begins(t, local)
  BY DEF ConfirmUserEmail
<1>4. account[u].remember_token \in Codes
  BY <1>1 DEF ConfirmUserEmail, Account
<1>5. writes' \subseteq Write
  BY <1>1 DEF ConfirmUserEmail, TypeOK, Write
<1>6. /\ UNCHANGED <<account, roles>> /\ generated' \in 0 .. NumCodes
      /\ latest' \in [Users -> Codes \cup {NoCode}] /\ used' \subseteq Codes /\ cut' = cut
  BY <1>1, <1>4 DEF ConfirmUserEmail, TypeOK
<1> HIDE DEF local
<1> QED
  BY <1>2, <1>3, <1>5, <1>6, BeginKeeps

LEMMA ReportConfirmationKeeps ==
    ASSUME IndInv, NEW t \in Tasks, ReportConfirmation(t)
    PROVE  IndInv' /\ Grows
BY ReturnKeeps, Held DEF ReportConfirmation, TypeOK

-----------------------------------------------------------------------------
(* What no request does, and what reaches all of them. *)

\* A step that changes tables and history and leaves every request alone.
LEMMA TablesKeep ==
    ASSUME IndInv, Grows, Tables', Rest', ActiveRoleIsHeld', task' = task
    PROVE  IndInv' /\ Grows
<1>1. ASSUME NEW t \in Tasks
      PROVE  Right(task[t])'
  <2> PICK own : own = task[t]
    OBVIOUS
  <2>1. Right(own)'
    BY Held, RightPersists
  <2> QED
    BY <2>1 DEF Right
<1> QED
  BY <1>1, TypeParts DEF IndInv, RightInv, TypeOK, Tables, Rest

LEMMA SetSuspendedKeeps ==
    ASSUME IndInv, NEW u \in Accounts, NEW suspended \in BOOLEAN, SetSuspended(u, suspended)
    PROVE  IndInv' /\ Grows
<1>1. /\ TypeOK /\ ActiveRoleIsHeld /\ u \in Users /\ account[u] \in Account
      /\ account \in [Users -> Account \cup {Null}]
  BY DEF IndInv, TypeOK, Accounts
<1> DEFINE row == [account[u] EXCEPT !.suspended = suspended]
<1>2. row \in Account /\ row.user_type \in roles[u]
  BY <1>1 DEF Account, ActiveRoleIsHeld
<1>3. account' = [account EXCEPT ![u] = row] /\ roles' = roles
  BY <1>1 DEF SetSuspended
<1>4. Grows /\ Tables' /\ ActiveRoleIsHeld'
  <2> HIDE DEF row
  <2> QED
    BY <1>1, <1>2, <1>3, RowChanged
<1>5. raced' \subseteq Users
  BY <1>1, MarksUsers DEF SetSuspended, TypeOK
<1>6. Rest' /\ task' = task
  BY <1>1, <1>5, AccountAssumption DEF Rest, SetSuspended, TypeOK
<1> QED
  BY <1>4, <1>6, TablesKeep

LEMMA GrantAllRolesKeeps ==
    ASSUME IndInv, GrantAllRoles
    PROVE  IndInv' /\ Grows
<1>1. TypeOK /\ ActiveRoleIsHeld
  BY DEF IndInv
<1>2. \A u \in Users : account[u] # Null => account[u].user_type \in Roles
  BY <1>1 DEF TypeOK, Account
<1>3. Grows /\ Tables' /\ ActiveRoleIsHeld'
  BY <1>1, <1>2 DEF GrantAllRoles, TypeOK, Grows, Tables, ActiveRoleIsHeld, Accounts
<1>4. Rest' /\ task' = task
  BY <1>1 DEF GrantAllRoles, history, Rest, TypeOK
<1> QED
  BY <1>3, <1>4, TablesKeep

LEMMA LandKeeps ==
    ASSUME IndInv, NEW w \in writes, Land(w), WriteInv
    PROVE  IndInv' /\ Grows
<1>1. /\ TypeOK /\ ActiveRoleIsHeld /\ w \in Write
      /\ account \in [Users -> Account \cup {Null}]
  BY DEF IndInv, TypeOK
<1>2. /\ w.kind \in {"code", "clear", "confirm"} /\ w.user \in Users
      /\ w.email \in Emails \cup {Null} /\ w.code \in Codes \cup {NoCode}
  BY <1>1 DEF Write
<1>3. account' = Landed(w) /\ roles' = roles /\ task' = task
  BY DEF Land
<1>4. Grows /\ Tables' /\ ActiveRoleIsHeld'
  <2>1. CASE w.kind = "code"
    <3>1. account' = CodeStored(w.email, w.code) /\ w.email \in Emails
      BY <1>2, <1>3, <2>1 DEF Landed, WriteInv
    <3> QED
      BY <1>2, <1>3, <3>1, CodeIsStored
  <2>2. CASE w.kind = "clear"
    <3>1. w.user \in Accounts /\ account[w.user] \in Account
      BY <1>1, <1>2, <2>2 DEF WriteInv, Accounts
    <3> DEFINE row == [account[w.user] EXCEPT !.remember_token = NoCode]
    <3>2. row \in Account /\ row.user_type \in roles[w.user]
      BY <1>1, <3>1 DEF Account, ActiveRoleIsHeld
    <3>3. account' = [account EXCEPT ![w.user] = row]
      BY <1>1, <1>3, <2>2 DEF Landed
    <3> HIDE DEF row
    <3> QED
      BY <1>2, <1>3, <3>2, <3>3, RowChanged
  <2>3. CASE w.kind = "confirm"
    <3>1. w.user \in Accounts /\ account[w.user] \in Account
      BY <1>1, <1>2, <2>3 DEF WriteInv, Accounts
    <3> DEFINE row == [account[w.user] EXCEPT !.remember_token = NoCode, !.verified = TRUE]
    <3>2. row \in Account /\ row.user_type \in roles[w.user]
      BY <1>1, <3>1 DEF Account, ActiveRoleIsHeld
    <3>3. account' = [account EXCEPT ![w.user] = row]
      BY <1>1, <1>2, <1>3, <2>3 DEF Landed
    <3> HIDE DEF row
    <3> QED
      BY <1>2, <1>3, <3>2, <3>3, RowChanged
  <2> QED
    BY <1>2, <2>1, <2>2, <2>3
<1>5. raced' \subseteq Users /\ writes' \subseteq Write
  BY <1>1 DEF Land, Owners, Accounts, TypeOK
<1>6. Rest'
  BY <1>1, <1>5 DEF Rest, Land, TypeOK
<1> QED
  BY <1>3, <1>4, <1>6, TablesKeep

LEMMA StopKeeps ==
    ASSUME IndInv, NEW lost \in SUBSET writes, Stop(lost)
    PROVE  IndInv' /\ Grows
<1>1. TypeOK
  BY DEF IndInv
<1>2. Grows /\ ActiveRoleIsHeld'
  BY SameTablesGrow DEF Stop, IndInv
<1>3. task' = [t \in Tasks |-> IdleTask]
  BY DEF Stop
<1>4. task' \in [Tasks -> Task] /\ RightInv'
  <2>1. \A t \in Tasks : task'[t] = IdleTask
    BY <1>3
  <2>2. task' \in [Tasks -> Task]
    BY <1>3, IdleIsRight
  <2> QED
    BY <2>1, <2>2, IdleIsRight DEF RightInv, Right
<1>5. Rest' /\ Tables'
  BY <1>1 DEF Rest, Tables, Stop, TypeOK
<1> QED
  BY <1>2, <1>4, <1>5 DEF IndInv, TypeOK, Rest, Tables

-----------------------------------------------------------------------------
(* Every step. *)

LEMMA AuthStepKeeps ==
    ASSUME IndInv, NEW t \in Tasks, AuthStep(t)
    PROVE  IndInv' /\ Grows
BY AnswerKeeps, ListRolesKeeps, SaveRoleKeeps, ActivateKeeps, InsertKeeps, RefusedKeeps,
   SaveAddedRoleKeeps, SaveActiveRoleKeeps, RereadKeeps, StoreCodeKeeps, MailCodeKeeps,
   SavePasswordKeeps, ReportResetKeeps DEF AuthStep

LEMMA AuthRequestKeeps ==
    ASSUME IndInv, NEW t \in Tasks, AuthRequest(t)
    PROVE  IndInv' /\ Grows
<1>1. ASSUME NEW u \in Users,
             \/ Login(t, u) \/ GoogleAuth(t, u, Null) \/ ForgotPassword(t, u) \/ ResendEmail(t, u)
             \/ \E password \in Passwords : ResetPassword(t, u, password)
      PROVE  IndInv' /\ Grows
  BY <1>1, LoginKeeps, GoogleAuthKeeps, ForgotPasswordKeeps, ResendEmailKeeps, ResetPasswordKeeps
<1>2. ASSUME NEW u \in Users, NEW role \in Roles,
             \/ CreateAccount(t, u, role) \/ GoogleAuth(t, u, role)
             \/ AddRole(t, u, role) \/ SwitchRole(t, u, role)
      PROVE  IndInv' /\ Grows
  BY <1>2, CreateAccountKeeps, GoogleAuthKeeps, AddRoleKeeps, SwitchRoleKeeps
<1>3. ASSUME NEW email \in Emails, NEW role \in Roles,
             \/ CreateNew(t, email, role, Null, TRUE)
             \/ \E password \in Passwords : CreateNew(t, email, role, password, FALSE)
      PROVE  IndInv' /\ Grows
  BY <1>3, CreateNewKeeps
<1> QED
  BY <1>1, <1>2, <1>3 DEF AuthRequest

LEMMA SettingsKeep ==
    ASSUME IndInv, NEW t \in Tasks, SettingsStep(t) \/ SettingsRequest(t)
    PROVE  IndInv' /\ Grows
BY SaveProfileKeeps, ChangePasswordKeeps, ReportConfirmationKeeps, ConfirmUserEmailKeeps,
   EditProfileKeeps, UpdatePasswordKeeps DEF SettingsStep, SettingsRequest

LEMMA AdminActKeeps ==
    ASSUME IndInv, AdminAct
    PROVE  IndInv' /\ Grows
BY GrantAllRolesKeeps, SetSuspendedKeeps DEF AdminAct, Suspend, Reactivate, Visible

LEMMA NextKeeps ==
    ASSUME IndInv, WriteInv, Next
    PROVE  IndInv' /\ Grows
<1>1. CASE \E t \in Tasks : Step(t) \/ Request(t)
  BY <1>1, AuthStepKeeps, AuthRequestKeeps, SettingsKeep, FailsKeeps DEF Step, Request
<1>2. CASE \E w \in writes : Land(w)
  BY <1>2, LandKeeps
<1>3. CASE \E lost \in SUBSET writes : Stop(lost)
  BY <1>3, StopKeeps
<1>4. CASE AdminAct
  BY <1>4, AdminActKeeps
<1> QED
  BY <1>1, <1>2, <1>3, <1>4 DEF Next

\* The only steps that send an update without awaiting it.
Sends == \E t \in Tasks :
    \/ ReportReset(t)
    \/ \E u \in Users : ForgotPassword(t, u) \/ ConfirmUserEmail(t, u)

LEMMA OthersSendNothing ==
    ASSUME Next, ~Sends
    PROVE  writes' \subseteq writes
<1>1. ASSUME NEW t \in Tasks, AuthStep(t)
      PROVE  writes' \subseteq writes
  BY <1>1 DEF Sends, AuthStep, Answer, ListRoles, SaveRole, Activate, Insert, Refused,
     SaveAddedRole, SaveActiveRole, Reread, StoreCode, MailCode, SavePassword
<1>2. ASSUME NEW t \in Tasks, AuthRequest(t)
      PROVE  writes' \subseteq writes
  BY <1>2 DEF Sends, AuthRequest, Login, GoogleAuth, ResendEmail, ResetPassword,
     CreateAccount, AddRole, SwitchRole, CreateNew
<1>3. ASSUME NEW t \in Tasks, SettingsStep(t) \/ SettingsRequest(t) \/ Fails(t)
      PROVE  writes' \subseteq writes
  BY <1>3 DEF Sends, SettingsStep, SettingsRequest, SaveProfile, ChangePassword,
     ReportConfirmation, EditProfile, UpdatePassword, Fails
<1>4. ASSUME \/ \E w \in writes : Land(w)
             \/ \E lost \in SUBSET writes : Stop(lost)
             \/ AdminAct
      PROVE  writes' \subseteq writes
  BY <1>4 DEF Land, Stop, AdminAct, GrantAllRoles, Suspend, Reactivate, SetSuspended
<1> QED
  BY <1>1, <1>2, <1>3, <1>4 DEF Next, Step, Request

LEMMA WriteInvKeeps ==
    ASSUME IndInv, WriteInv, Next
    PROVE  WriteInv'
<1>1. Grows /\ TypeOK
  BY NextKeeps DEF IndInv
<1>2. ASSUME NEW w \in writes'
      PROVE  \/ w \in writes
             \/ w.user \in Accounts /\ (w.kind = "code" => w.email # Null)
  <2>1. ~Sends => writes' \subseteq writes
    BY OthersSendNothing
  <2>2. ASSUME NEW t \in Tasks, ReportReset(t)
        PROVE  w \in writes \/ (w.kind # "code" /\ w.user \in Accounts)
    BY <2>2, Subject DEF ReportReset, Clearing, At
  <2>3. ASSUME NEW t \in Tasks, NEW u \in Users, ForgotPassword(t, u)
        PROVE  w \in writes \/ (w.user \in Accounts /\ w.email # Null)
    <3>1. account[u] \in Account
      BY <1>1, <2>3 DEF ForgotPassword, Visible, Accounts, TypeOK
    <3>2. account[u].email # Null
      BY <3>1, AccountAssumption DEF Account
    <3> QED
      BY <2>3, <3>2 DEF ForgotPassword, Visible
  <2>4. ASSUME NEW t \in Tasks, NEW u \in Users, ConfirmUserEmail(t, u)
        PROVE  w \in writes \/ (w.kind # "code" /\ w.user \in Accounts)
    BY <2>4 DEF ConfirmUserEmail, Visible
  <2> QED
    BY <2>1, <2>2, <2>3, <2>4 DEF Sends
<1> QED
  BY <1>1, <1>2 DEF WriteInv, Grows

LEMMA InitRight ==
    ASSUME StoreInit
    PROVE  IndInv /\ WriteInv
<1>1. account \in [Users -> Account \cup {Null}]
  BY DEF StoreInit
<1>2. task \in [Tasks -> Task] /\ RightInv
  <2>1. task = [t \in Tasks |-> IdleTask]
    BY DEF StoreInit
  <2> QED
    BY <2>1, IdleIsRight DEF RightInv
<1>3. TypeOK
  BY <1>1, <1>2, AccountAssumption DEF StoreInit, TypeOK, Codes, NoCode
<1>4. ActiveRoleIsHeld /\ WriteInv
  BY DEF StoreInit, ActiveRoleIsHeld, WriteInv, Accounts
<1> QED
  BY <1>2, <1>3, <1>4 DEF IndInv

LEMMA Stutters ==
    ASSUME IndInv, WriteInv, UNCHANGED vars
    PROVE  IndInv' /\ WriteInv'
<1>1. Grows /\ (ActiveRoleIsHeld => ActiveRoleIsHeld')
  BY SameTablesGrow DEF vars
<1>2. Rest' /\ Tables' /\ task' = task /\ ActiveRoleIsHeld'
  BY <1>1, TypeParts DEF IndInv, Rest, Tables, vars, history
<1>3. IndInv'
  BY <1>1, <1>2, TablesKeep
<1> QED
  BY <1>1, <1>3 DEF WriteInv, Grows, vars

\* Tables, requests and updates stay well formed, and what a request holds about an
\* account is never more than the account has.
THEOREM RoleInvAlways == Spec => []RoleInv
<1>1. StoreInit => IndInv /\ WriteInv
  BY InitRight
<1>2. IndInv /\ WriteInv /\ [Next]_vars => (IndInv /\ WriteInv)'
  BY NextKeeps, WriteInvKeeps, Stutters
<1>3. IndInv /\ WriteInv => RoleInv
  BY InvIsInd
<1> QED
  BY <1>1, <1>2, <1>3, PTL DEF Spec

\* However stale the row a profile edit saves, the active role of an account is one
\* of its roles, with any number of requests in flight.
THEOREM ActiveRoleIsHeldAlways == Spec => []ActiveRoleIsHeld
<1>1. RoleInv => ActiveRoleIsHeld
  BY DEF RoleInv
<1> QED
  BY <1>1, RoleInvAlways, PTL

\* No token carries a role its account does not have, or an active role that is not
\* among its roles.
THEOREM TokenIsTrueAlways == Spec => []TokenIsTrue
<1>1. RoleInv => TokenIsTrue
  <2> SUFFICES ASSUME RoleInv, NEW t \in Tasks, At(t, "answering"), TokenOf(t).user # Null
               PROVE  /\ TokenOf(t).active \in TokenOf(t).roles
                      /\ TokenOf(t).roles \subseteq roles[TokenOf(t).user]
    BY DEF TokenIsTrue
  <2>1. task[t].row # Null /\ task[t].user # Null /\ TokenOf(t).user = task[t].user
        /\ TokenOf(t).active = task[t].row.user_type /\ TokenOf(t).roles = task[t].roles
    BY DEF TokenOf
  <2>2. /\ task[t].roles \subseteq roles[task[t].user]
        /\ task[t].row.user_type \in task[t].roles
    BY <2>1 DEF RoleInv, HeldInv
  <2> QED
    BY <2>1, <2>2
<1> QED
  BY <1>1, RoleInvAlways, PTL
=============================================================================
