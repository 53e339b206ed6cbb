---------------------------- MODULE AccountStore ----------------------------
(***************************************************************************)
(* The tables users and user_roles, the requests about them that are in    *)
(* flight, and the updates the services send without awaiting them.  Names, *)
(* documents, pictures and the Google id are data that nothing decides on; *)
(* a code stands for what generateNumericCode returned, taken to be fresh. *)
(***************************************************************************)
EXTENDS Integers, FiniteSets

CONSTANTS
    Users,           \* ids of accounts
    Existing,        \* bound: those that may exist at the start
    Emails,
    Roles,           \* the user types
    Passwords,
    NumCodes,        \* bound: codes generated
    MaxRequests,     \* bound: requests begun
    Tasks,           \* bound: requests in flight at a time
    Faults,          \* whether calls may fail and the process may stop
    Null

Codes == 1 .. NumCodes
NoCode == 0
Account == [email : Emails, password : Passwords \cup {Null}, user_type : Roles,
            remember_token : Codes \cup {NoCode}, verified : BOOLEAN, suspended : BOOLEAN]

ASSUME AccountAssumption ==
    /\ Existing \subseteq Users
    /\ NumCodes \in Nat
    /\ MaxRequests \in Nat
    /\ "buyer" \in Roles
    /\ Null \notin Users \cup Emails \cup Roles \cup Passwords
    /\ Null \notin Account
    /\ Faults \in BOOLEAN

VARIABLES
    account,      \* table users; Null: no such row
    roles,        \* table user_roles, by user
    writes,       \* updates sent and not awaited, in no order
    task,         \* each request in flight
    generated,    \* how many codes were generated
    begun,        \* how many requests began
    latest,       \* history: the code last e-mailed to an account and not used since
    used,         \* history: codes that reset a password or confirmed an address
    raced,        \* history: accounts that had two requests in flight at once
    cut           \* history: accounts with a request or an update that failed

history == <<latest, used, raced, cut>>
vars == <<account, roles, writes, task, generated, begun, history>>

TaskPcs == {"idle", "listing", "savingRole", "activating", "inserting", "mailing",
            "storingCode", "resetting", "congratulating", "addingRole", "switching",
            "rereading", "savingProfile", "changingPassword", "reporting", "answering"}
Task == [pc : TaskPcs, user : Users \cup {Null}, row : Account \cup {Null},
         roles : SUBSET Roles, role : Roles \cup {Null}, email : Emails \cup {Null},
         code : Codes \cup {NoCode}, password : Passwords \cup {Null}, google : BOOLEAN]
IdleTask == [pc |-> "idle", user |-> Null, row |-> Null, roles |-> {}, role |-> Null,
             email |-> Null, code |-> NoCode, password |-> Null, google |-> FALSE]
Write == [kind : {"code", "clear", "confirm"}, user : Users, email : Emails \cup {Null},
          code : Codes \cup {NoCode}]

Accounts == {u \in Users : account[u] # Null}
\* TypeORM leaves soft-deleted rows out of what it finds, not of what it updates.
Visible == {u \in Accounts : ~account[u].suspended}
Owners(email) == {u \in Accounts : account[u].email = email}

At(t, pc) == task[t].pc = pc
About(t, u) == ~At(t, "idle") /\ task[t].user = u
InFlight(u) == (\E t \in Tasks : About(t, u)) \/ (\E w \in writes : w.user = u)

Marks(u) == raced' = IF u # Null /\ InFlight(u) THEN raced \cup {u} ELSE raced
Begins(t, local) ==
    /\ At(t, "idle")
    /\ begun < MaxRequests
    /\ begun' = begun + 1
    /\ Marks(local.user)
    /\ task' = [task EXCEPT ![t] = local]
Goto(t, local) == task' = [task EXCEPT ![t] = local] /\ UNCHANGED <<begun, raced>>
Returns(t) == Goto(t, IdleTask)

\* The code a request generates.
FreshCode == generated + 1
MayGenerate == generated < NumCodes

\* Mutant: a code that stands is sent again and not replaced.
FirstCodeStands(email, code) ==
    [u \in Users |-> IF u \in Owners(email) /\ account[u].remember_token = NoCode
                     THEN [account[u] EXCEPT !.remember_token = code] ELSE account[u]]

\* An update WHERE email = ... reaches whoever has the address by then.
CodeStored(email, code) ==
    [u \in Users |-> IF u \in Owners(email) THEN [account[u] EXCEPT !.remember_token = code]
                                            ELSE account[u]]

StoreInit ==
    /\ account \in [Users -> {Null} \cup
           {row \in Account : row.remember_token = NoCode /\ ~row.suspended}]
    /\ Accounts \subseteq Existing
    /\ \A u, v \in Accounts : u # v => account[u].email # account[v].email
    /\ roles \in [Users -> SUBSET Roles]
    /\ \A u \in Users : IF u \in Accounts THEN account[u].user_type \in roles[u] ELSE roles[u] = {}
    /\ writes = {}
    /\ task = [t \in Tasks |-> IdleTask]
    /\ generated = 0
    /\ begun = 0
    /\ latest = [u \in Users |-> NoCode]
    /\ used = {}
    /\ raced = {}
    /\ cut = {}

-----------------------------------------------------------------------------
(* Updates that were not awaited, and failures *)

Landed(w) ==
    CASE w.kind = "code" -> CodeStored(w.email, w.code)
      [] w.kind = "clear" -> [account EXCEPT ![w.user].remember_token = NoCode]
      [] w.kind = "confirm" -> [account EXCEPT ![w.user].remember_token = NoCode,
                                               ![w.user].verified = TRUE]

\* An update of a code that lands on an account which took the address meanwhile
\* races with whatever that account does.
Land(w) ==
    /\ w \in writes
    /\ account' = Landed(w)
    /\ writes' = writes \ {w}
    /\ raced' = raced \cup (IF w.kind = "code" THEN Owners(w.email) \ {w.user} ELSE {})
    /\ UNCHANGED <<roles, task, generated, begun, latest, used, cut>>

\* A query or an upload fails: the request ends with an error.
Fails(t) ==
    /\ Faults
    /\ task[t].pc \notin {"idle", "answering"}
    /\ Returns(t)
    /\ cut' = cut \cup ({task[t].user} \ {Null})
    /\ UNCHANGED <<account, roles, writes, generated, latest, used>>

\* The process stops, for instance because an update nobody awaited was rejected.
Stop(lost) ==
    /\ Faults
    /\ \/ lost # {}
       \/ \E t \in Tasks : ~At(t, "idle")
    /\ task' = [t \in Tasks |-> IdleTask]
    /\ writes' = writes \ lost
    /\ cut' = cut \cup {u \in Users : InFlight(u)}
    /\ UNCHANGED <<account, roles, generated, begun, latest, used, raced>>
=============================================================================
