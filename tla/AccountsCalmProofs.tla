------------------------- MODULE AccountsCalmProofs -------------------------
(***************************************************************************)
(* Proofs about Accounts, for any values of its constants: what holds of   *)
(* an account whose requests follow one another, whatever happens to the   *)
(* others.  A step is about one account, its subject; the lemmas say what  *)
(* it leaves of the others, then what it makes of its subject.             *)
(***************************************************************************)
EXTENDS AccountsProofs

Steady(u) ==
    u \in Calm => Alone(u) /\ StillSo(u) /\ Unused(u) /\ (u \notin cut => Mailed(u))

\* The same of one record, one row and the updates of one account.
SoFar(row, local) ==
    /\ local.pc = "storingCode" => local.email = row.email
    /\ local.pc = "savingProfile" => local.row.verified = row.verified
    /\ local.pc = "rereading" => local.role \in {Null, row.user_type}
    /\ local.pc \in {"listing", "savingRole", "activating", "answering"} /\ local.row # Null =>
          ~row.suspended
    /\ local.pc \in {"listing", "answering"} /\ local.row # Null =>
          local.role \in {Null, local.row.user_type}

Ahead(row, sent, code) ==
    /\ sent = {} => row.remember_token = code
    /\ \A w \in sent : code = IF w.kind = "code" THEN w.code ELSE NoCode

Behind(row, sent, codes) == \A w \in sent :
    /\ sent = {w}
    /\ w.kind = "code" => w.email = row.email
    /\ w.code \notin codes

Posted(row, sent, local, mailed) ==
    /\ Ahead(row, sent, mailed) \/ local.pc \in {"mailing", "congratulating"}
    /\ local.pc = "mailing" => Ahead(row, sent, local.code)
    /\ local.pc = "congratulating" => mailed = NoCode
    /\ local.pc = "resetting" => local.code = mailed

Follows(sent, local) == \A w \in sent :
    \/ local.pc = "mailing" /\ w.kind = "code" /\ w.code = local.code
    \/ local.pc = "reporting" /\ w.kind = "confirm"

\* What a calm account is before a step: idle, or busy with one request.
LEMMA SteadyIdle ==
    ASSUME NEW u \in Calm, Steady(u), \A t \in Tasks : ~About(t, u)
    PROVE  /\ Behind(account[u], Sent(u), used) /\ latest[u] \notin used
           /\ u \notin cut => Ahead(account[u], Sent(u), latest[u])
BY DEF Steady, Alone, Unused, Mailed, Behind, Ahead, Settles

LEMMA SteadyBusy ==
    ASSUME NEW u \in Calm, Steady(u), NEW t \in Tasks, About(t, u)
    PROVE  /\ \A s \in Tasks : About(s, u) => s = t
           /\ Behind(account[u], Sent(u), used) /\ latest[u] \notin used
           /\ SoFar(account[u], task[t]) /\ Follows(Sent(u), task[t])
           /\ task[t].pc \in {"mailing", "storingCode"} => task[t].code \notin used
           /\ u \notin cut => Posted(account[u], Sent(u), task[t], latest[u])
<1>1. Alone(u) /\ StillSo(u) /\ Unused(u) /\ (u \notin cut => Mailed(u))
  BY DEF Steady
<1>2. /\ \A s \in Tasks : About(s, u) => s = t
      /\ Behind(account[u], Sent(u), used) /\ latest[u] \notin used
      /\ task[t].pc \in {"mailing", "storingCode"} => task[t].code \notin used
  BY <1>1 DEF Alone, Unused, Behind
<1>3. SoFar(account[u], task[t])
  BY <1>1 DEF StillSo, SoFar, At
<1>4. Follows(Sent(u), task[t])
  BY <1>1 DEF Alone, Follows, At
<1>5. u \notin cut => Posted(account[u], Sent(u), task[t], latest[u])
  BY <1>1, <1>2 DEF Mailed, Posted, At, Settles, Ahead
<1> QED
  BY <1>2, <1>3, <1>4, <1>5

\* And after it.
LEMMA IdleSteady ==
    ASSUME NEW u, NEW row, NEW sent, NEW codes, NEW mailed,
           row = account'[u], sent = Sent(u)', codes = used', mailed = latest'[u],
           u \in Calm' => /\ \A t \in Tasks : ~About(t, u)'
                          /\ Behind(row, sent, codes) /\ mailed \notin codes
                          /\ u \notin cut' => Ahead(row, sent, mailed)
    PROVE  Steady(u)'
<1> SUFFICES ASSUME u \in Calm'
             PROVE  (Alone(u) /\ StillSo(u) /\ Unused(u) /\ (u \notin cut => Mailed(u)))'
  BY DEF Steady
<1>1. Alone(u)'
  BY DEF Alone, Behind
<1>2. StillSo(u)'
  BY DEF StillSo
<1>3. Unused(u)'
  BY DEF Unused, Behind
<1>4. (u \notin cut => Mailed(u))'
  BY DEF Mailed, Settles, Ahead
<1> QED
  BY <1>1, <1>2, <1>3, <1>4

LEMMA BusySteady ==
    ASSUME NEW u, NEW row, NEW sent, NEW codes, NEW mailed, NEW t \in Tasks, NEW local,
           row = account'[u], sent = Sent(u)', codes = used', mailed = latest'[u],
           local = task'[t],
           u \in Calm' => /\ \A s \in Tasks : About(s, u)' => s = t
                          /\ Behind(row, sent, codes) /\ mailed \notin codes
                          /\ SoFar(row, local) /\ Follows(sent, local)
                          /\ local.pc \in {"mailing", "storingCode"} => local.code \notin codes
                          /\ local.user = u /\ local.pc # "idle"
                          /\ u \notin cut' => Posted(row, sent, local, mailed)
    PROVE  Steady(u)'
<1> SUFFICES ASSUME u \in Calm'
             PROVE  (Alone(u) /\ StillSo(u) /\ Unused(u) /\ (u \notin cut => Mailed(u)))'
  BY DEF Steady
<1>1. Alone(u)'
  <2>1. \A s \in Tasks : About(s, u)' => s = t
    OBVIOUS
  <2>2. \A w \in Sent(u)' : /\ Sent(u)' = {w}
                            /\ w.kind = "code" => w.email = account'[u].email
    BY DEF Behind
  <2>3. \A w \in Sent(u)' : \/ At(t, "mailing")' /\ w.kind = "code" /\ w.code = task'[t].code
                            \/ At(t, "reporting")' /\ w.kind = "confirm"
    BY DEF Follows, At
  <2> QED
    BY <2>1, <2>2, <2>3 DEF Alone
<1>2. StillSo(u)'
  BY DEF StillSo, SoFar, At
<1>3. Unused(u)'
  BY DEF Unused, Behind
<1>4. (u \notin cut => Mailed(u))'
  BY DEF Mailed, Settles, Ahead, Posted, About, At
<1> QED
  BY <1>1, <1>2, <1>3, <1>4

-----------------------------------------------------------------------------
(* The accounts a step is not about. *)

LEMMA CalmParts ==
    CalmInv <=> OwnerInv /\ CodeInv /\ \A u \in Users : Steady(u)
BY DEF CalmInv, Steady, Calm, Accounts

\* The request, row, updates and mailed code of v are what they were.
Untouched(v) ==
    /\ account'[v] = account[v]
    /\ latest'[v] = latest[v]
    /\ Sent(v)' = Sent(v)
    /\ \A t \in Tasks : About(t, v) \/ About(t, v)' => task'[t] = task[t]

LEMMA UntouchedAbout ==
    ASSUME NEW v \in Users, Untouched(v)
    PROVE  /\ \A t \in Tasks : About(t, v)' <=> About(t, v)
           /\ v \in Accounts' <=> v \in Accounts
           /\ \A c : HasCode(v, c)' <=> HasCode(v, c)
<1>1. \A t \in Tasks : About(t, v)' <=> About(t, v)
  BY DEF Untouched, About, At
<1>2. v \in Accounts' <=> v \in Accounts
  BY DEF Untouched, Accounts
<1>3. ASSUME NEW c
      PROVE  HasCode(v, c)' <=> HasCode(v, c)
  BY <1>1, <1>2 DEF Untouched, HasCode
<1> QED
  BY <1>1, <1>2, <1>3

LEMMA UntouchedSteady ==
    ASSUME NEW v \in Users, Untouched(v), Steady(v), raced \subseteq raced', cut \subseteq cut',
           \A c \in used' : c \in used \/ ~HasCode(v, c) \/ v \notin Calm
    PROVE  Steady(v)'
<1> PICK row : row = account[v]
  OBVIOUS
<1> PICK sent : sent = Sent(v)
  OBVIOUS
<1> PICK mailed : mailed = latest[v]
  OBVIOUS
<1> PICK codes : codes = used'
  OBVIOUS
<1>1. row = account'[v] /\ sent = Sent(v)' /\ mailed = latest'[v]
      /\ \A t \in Tasks : About(t, v)' <=> About(t, v)
  BY UntouchedAbout DEF Untouched
<1>2. v \in Calm' => v \in Calm
  BY UntouchedAbout DEF Calm
<1>3. ASSUME v \in Calm
      PROVE  /\ Behind(row, sent, used) /\ mailed \notin used
                => Behind(row, sent, codes) /\ mailed \notin codes
             /\ \A t \in Tasks : About(t, v) /\ task[t].code \notin used => task[t].code \notin codes
  <2>1. HasCode(v, mailed) /\ \A w \in sent : HasCode(v, w.code)
    BY DEF HasCode
  <2>2. \A t \in Tasks : About(t, v) => HasCode(v, task[t].code)
    BY DEF HasCode
  <2> QED
    BY <1>3, <2>1, <2>2 DEF Behind
<1>4. CASE \A t \in Tasks : ~About(t, v)
  <2>1. v \in Calm => /\ Behind(row, sent, codes) /\ mailed \notin codes
                      /\ v \notin cut => Ahead(row, sent, mailed)
    BY <1>3, <1>4, SteadyIdle
  <2> QED
    BY <1>1, <1>2, <1>4, <2>1, IdleSteady
<1>5. ASSUME NEW t \in Tasks, About(t, v)
      PROVE  Steady(v)'
  <2> PICK local : local = task[t]
    OBVIOUS
  <2>1. local = task'[t] /\ local.user = v /\ local.pc # "idle"
    BY <1>1, <1>5 DEF Untouched, About, At
  <2>2. v \in Calm => /\ \A s \in Tasks : About(s, v) => s = t
                      /\ Behind(row, sent, codes) /\ mailed \notin codes
                      /\ SoFar(row, local) /\ Follows(sent, local)
                      /\ local.pc \in {"mailing", "storingCode"} => local.code \notin codes
                      /\ v \notin cut => Posted(row, sent, local, mailed)
    BY <1>3, <1>5, SteadyBusy
  <2> QED
    BY <1>1, <1>2, <2>1, <2>2, BusySteady
<1> QED
  BY <1>4, <1>5

\* What a step about x may do to an account v other than x: nothing, or bring a
\* code of x into its row, and then neither of the two is calm any more.
Aside(x, v) ==
    \/ Untouched(v)
    \/ /\ v \in raced' /\ x \notin Calm'
       /\ x \in Users
       /\ \A c \in Codes : HasCode(v, c)' => HasCode(v, c) \/ HasCode(x, c)

LEMMA CodesConfined ==
    ASSUME CodeInv, NEW x, generated \in Nat, generated' \in Nat, generated <= generated',
           raced \subseteq raced',
           \A v \in Users : v # x => Aside(x, v),
           \A c \in used' : c \in used \/ (x \in Users /\ HasCode(x, c)),
           \A c \in Codes : x \in Users /\ HasCode(x, c)' =>
               \/ HasCode(x, c) /\ (x \in Calm' => x \in Calm)
               \/ c > generated /\ c <= generated'
    PROVE  CodeInv'
<1> SUFFICES ASSUME NEW c \in Codes
             PROVE  /\ c \in used' \/ (\E u \in Users : HasCode(u, c)') => c <= generated'
                    /\ \A u \in Calm', v \in Users : HasCode(u, c)' /\ HasCode(v, c)' => u = v
  BY DEF CodeInv
<1>1. /\ c \in used \/ (\E u \in Users : HasCode(u, c)) => c <= generated
      /\ \A u \in Calm, v \in Users : HasCode(u, c) /\ HasCode(v, c) => u = v
      /\ c \in Int
  BY DEF CodeInv, Codes
<1>2. ASSUME NEW v \in Users, v # x, HasCode(v, c)'
      PROVE  HasCode(v, c) \/ (HasCode(x, c) /\ x \in Users /\ x \notin Calm' /\ v \in raced')
  BY <1>2, UntouchedAbout DEF Aside
<1>3. ASSUME NEW u \in Users, HasCode(u, c)'
      PROVE  c <= generated'
  <2>1. CASE u = x
    BY <1>1, <1>3, <2>1
  <2>2. CASE u # x
    BY <1>1, <1>2, <1>3, <2>2
  <2> QED
    BY <2>1, <2>2
<1>4. ASSUME NEW u \in Calm', NEW v \in Users, HasCode(u, c)', HasCode(v, c)', u # v
      PROVE  FALSE
  <2>1. u \in Users /\ u \notin raced' /\ u \notin raced
    BY <1>4 DEF Calm, Accounts
  <2>2. u # x => HasCode(u, c) /\ u \in Calm
    <3>1. u # x => Untouched(u)
      BY <2>1 DEF Aside
    <3> QED
      BY <1>4, <2>1, <3>1, UntouchedAbout DEF Calm
  <2>3. CASE u = x
    <3>1. HasCode(v, c)
      BY <1>2, <1>4, <2>3
    <3>2. c <= generated
      BY <1>1, <3>1
    <3>3. HasCode(x, c) /\ x \in Calm
      BY <1>1, <1>4, <2>1, <2>3, <3>2
    <3> QED
      BY <1>1, <1>4, <2>3, <3>1, <3>3
  <2>4. CASE u # x /\ v = x
    <3>1. c <= generated
      BY <1>1, <2>1, <2>2, <2>4
    <3>2. HasCode(v, c)
      BY <1>1, <1>4, <2>4, <3>1
    <3> QED
      BY <1>1, <1>4, <2>2, <2>4, <3>2
  <2>5. CASE u # x /\ v # x
    <3>1. HasCode(v, c) \/ (HasCode(x, c) /\ x \in Users)
      BY <1>2, <1>4, <2>5
    <3> QED
      BY <1>1, <1>4, <2>2, <2>5, <3>1
  <2> QED
    BY <2>3, <2>4, <2>5
<1>5. c \in used' => c <= generated'
  BY <1>1
<1> QED
  BY <1>3, <1>4, <1>5

\* A step about x keeps the invariant, if it keeps it of x.
LEMMA Confined ==
    ASSUME CalmInv, NEW x, generated \in Nat, generated' \in Nat, generated <= generated',
           raced \subseteq raced', cut \subseteq cut', used' \subseteq Codes,
           \A v \in Users : v # x => Aside(x, v),
           \A c \in used' : c \in used \/ (x \in Users /\ HasCode(x, c)),
           \A c \in Codes : x \in Users /\ HasCode(x, c)' =>
               \/ HasCode(x, c) /\ (x \in Calm' => x \in Calm)
               \/ c > generated /\ c <= generated',
           x \in Users => Steady(x)',
           OwnerInv'
    PROVE  CalmInv'
<1>1. OwnerInv /\ CodeInv /\ \A u \in Users : Steady(u)
  BY CalmParts
<1>2. CodeInv'
  BY <1>1, CodesConfined
<1>3. ASSUME NEW v \in Users, v # x
      PROVE  Steady(v)'
  <2>1. CASE v \in raced'
    BY <2>1 DEF Steady, Calm
  <2>2. CASE Untouched(v)
    <3>1. ASSUME NEW c \in used', c \notin used, HasCode(v, c), v \in Calm
          PROVE  FALSE
      BY <1>1, <1>3, <3>1 DEF CodeInv
    <3> QED
      BY <1>1, <2>2, <3>1, UntouchedSteady
  <2> QED
    BY <1>3, <2>1, <2>2 DEF Aside
<1>4. \A u \in Users : Steady(u)'
  BY <1>3
<1>5. Calm' \subseteq Users
  BY DEF Calm, Accounts
<1> QED
  BY <1>1, <1>2, <1>4, <1>5 DEF CalmInv, Steady

-----------------------------------------------------------------------------
(* Requests that begin. *)

Counted ==
    /\ generated \in Nat /\ generated' \in Nat /\ generated <= generated'
    /\ raced \subseteq raced' /\ cut \subseteq cut' /\ used' \subseteq Codes

LEMMA SomethingBegins ==
    ASSUME IndInv, NEW t \in Tasks, NEW local \in Task, local.pc # "idle", Begins(t, local),
           \A v \in Users : v # local.user =>
               account'[v] = account[v] /\ latest'[v] = latest[v] /\ Sent(v)' = Sent(v)
    PROVE  /\ task'[t] = local /\ raced \subseteq raced'
           /\ \A v \in Users : v # local.user => Untouched(v)
           /\ local.user \in Users /\ local.user \notin raced' =>
                 /\ \A s \in Tasks : ~About(s, local.user)
                 /\ Sent(local.user) = {} /\ local.user \notin raced
                 /\ \A s \in Tasks : About(s, local.user)' => s = t
<1>1. /\ At(t, "idle") /\ task' = [task EXCEPT ![t] = local] /\ Marks(local.user)
      /\ task \in [Tasks -> Task] /\ local.user \in Users \cup {Null}
  BY DEF Begins, IndInv, TypeOK, Task
<1>2. task'[t] = local /\ \A s \in Tasks : s # t => task'[s] = task[s]
  BY <1>1
<1>3. raced \subseteq raced'
  BY <1>1 DEF Marks
<1>4. ASSUME NEW v \in Users, v # local.user
      PROVE  Untouched(v)
  <2>1. ASSUME NEW s \in Tasks, About(s, v) \/ About(s, v)'
        PROVE  s # t
    BY <1>1, <1>2, <1>4, <2>1 DEF About, At
  <2> QED
    BY <1>2, <1>4, <2>1 DEF Untouched
<1>5. ASSUME local.user \in Users, local.user \notin raced'
      PROVE  /\ \A s \in Tasks : ~About(s, local.user)
             /\ Sent(local.user) = {} /\ local.user \notin raced
             /\ \A s \in Tasks : About(s, local.user)' => s = t
  <2>1. ~InFlight(local.user) /\ local.user \notin raced
    BY <1>1, <1>5, AccountAssumption DEF Marks
  <2>2. (\A s \in Tasks : ~About(s, local.user)) /\ Sent(local.user) = {}
    BY <2>1 DEF InFlight, Sent
  <2>3. \A s \in Tasks : About(s, local.user)' => s = t
    BY <1>2, <2>2 DEF About, At
  <2> QED
    BY <2>1, <2>2, <2>3
<1> QED
  BY <1>2, <1>3, <1>4, <1>5

LEMMA FreshIsNew ==
    ASSUME IndInv, CodeInv
    PROVE  /\ generated \in Nat /\ FreshCode \in Nat /\ FreshCode > generated
           /\ FreshCode \notin used /\ used \subseteq Codes /\ NoCode \notin used
<1>1. generated \in Nat /\ used \subseteq Codes
  BY AccountAssumption DEF IndInv, TypeOK
<1> QED
  BY <1>1 DEF CodeInv, Codes, FreshCode, NoCode

\* A request that leaves the tables, the updates and the history alone.
LEMMA RequestCalm ==
    ASSUME IndInv, CalmInv, NEW t \in Tasks, NEW local \in Task, local.user \in Accounts,
           local.pc \notin {"idle", "mailing", "congratulating"}, Begins(t, local),
           UNCHANGED <<account, writes, latest, used, cut>>,
           \/ local.code = NoCode /\ local.pc \notin {"resetting", "storingCode"}
              /\ generated' = generated
           \/ local.pc = "resetting" /\ local.code = account[local.user].remember_token
              /\ generated' = generated
           \/ local.pc = "storingCode" /\ local.code = FreshCode /\ generated' = FreshCode,
           SoFar(account[local.user], local)
    PROVE  CalmInv'
<1> PICK u : u = local.user
  OBVIOUS
<1> PICK row : row = account[u]
  OBVIOUS
<1> PICK mailed : mailed = latest[u]
  OBVIOUS
<1>1. OwnerInv /\ CodeInv /\ \A v \in Users : Steady(v)
  BY CalmParts
<1>2. /\ u \in Users /\ u \in Accounts /\ u \in Accounts'
      /\ row = account'[u] /\ mailed = latest'[u] /\ used' = used
      /\ \A v : Sent(v)' = Sent(v)
  BY DEF Accounts, Sent
<1>3. /\ task'[t] = local /\ raced \subseteq raced'
      /\ \A v \in Users : v # u => Untouched(v)
      /\ u \notin raced' => /\ \A s \in Tasks : ~About(s, u)
                            /\ Sent(u) = {} /\ u \notin raced
                            /\ \A s \in Tasks : About(s, u)' => s = t
  BY <1>2, SomethingBegins
<1>4. Counted
  BY <1>1, <1>3, FreshIsNew DEF Counted, FreshCode
<1>5. u \in Calm' =>
          /\ \A s \in Tasks : About(s, u)' => s = t
          /\ mailed \notin used /\ Behind(row, {}, used) /\ Follows({}, local)
          /\ local.pc \in {"mailing", "storingCode"} => local.code \notin used
          /\ Sent(u) = {} /\ SoFar(row, local)
          /\ u \notin cut' => Posted(row, {}, local, mailed)
  <2> SUFFICES ASSUME u \in Calm'
               PROVE  /\ \A s \in Tasks : About(s, u)' => s = t
                      /\ mailed \notin used /\ Behind(row, {}, used) /\ Follows({}, local)
                      /\ local.pc \in {"mailing", "storingCode"} => local.code \notin used
                      /\ Sent(u) = {} /\ SoFar(row, local)
                      /\ u \notin cut' => Posted(row, {}, local, mailed)
    OBVIOUS
  <2>1. /\ u \in Calm /\ Sent(u) = {} /\ \A s \in Tasks : ~About(s, u)
        /\ \A s \in Tasks : About(s, u)' => s = t
    BY <1>2, <1>3 DEF Calm
  <2>2. mailed \notin used /\ (u \notin cut => Ahead(row, {}, mailed))
    BY <1>1, <1>2, <2>1, SteadyIdle
  <2>3. u \notin cut' => Posted(row, {}, local, mailed)
    BY <2>2 DEF Posted, Ahead
  <2>4. local.pc \in {"mailing", "storingCode"} => local.code \notin used
    BY <1>1, FreshIsNew
  <2> QED
    BY <2>1, <2>2, <2>3, <2>4 DEF Behind, Follows
<1>6. Steady(u)'
  <2> PICK sent : sent = Sent(u)'
    OBVIOUS
  <2>1. u \in Calm' => sent = {}
    BY <1>2, <1>5
  <2> QED
    BY <1>2, <1>3, <1>5, <2>1, BusySteady
<1>7. ASSUME NEW c \in Codes, HasCode(u, c)'
      PROVE  \/ HasCode(u, c) /\ (u \in Calm' => u \in Calm)
             \/ c > generated /\ c <= generated'
  <2>1. u \in Calm' => u \in Calm
    BY <1>2, <1>3 DEF Calm
  <2>2. task \in [Tasks -> Task] /\ task' = [task EXCEPT ![t] = local]
    BY DEF Begins, IndInv, TypeOK
  <2>3. HasCode(u, c) \/ c = local.code
    BY <1>2, <1>7, <2>2 DEF HasCode, About, At
  <2>4. c \in Nat /\ c # NoCode
    BY DEF Codes, NoCode
  <2>5. CASE c = local.code /\ local.pc = "resetting"
    BY <1>2, <2>1, <2>5 DEF HasCode
  <2>6. CASE c = local.code /\ local.pc = "storingCode"
    BY <1>1, <2>6, FreshIsNew
  <2> QED
    BY <2>1, <2>3, <2>4, <2>5, <2>6
<1>8. OwnerInv'
  BY <1>1 DEF OwnerInv, Accounts
<1> QED
  BY <1>2, <1>3, <1>4, <1>6, <1>7, <1>8, Confined DEF Aside, Counted

LEMMA LoginCalm ==
    ASSUME IndInv, CalmInv, NEW t \in Tasks, NEW u \in Users, Login(t, u)
    PROVE  CalmInv'
<1> DEFINE local == [IdleTask EXCEPT !.pc = "listing", !.user = u, !.row = account[u]]
<1>1. /\ TypeOK /\ u \in Accounts /\ account[u] \in Account /\ account[u] # Null
      /\ roles[u] \subseteq Roles
      /\ ~account[u].suspended
  BY DEF IndInv, TypeOK, Login, UserLoginGuard, Visible, Accounts
<1>2. local \in Task /\ local.user = u
  BY <1>1, IdleIsRight, AccountAssumption DEF IdleTask, Task, TaskPcs, Account, NoCode
<1>3. SoFar(account[u], local)
  BY <1>1, AccountAssumption DEF SoFar, IdleTask
<1>4. Begins(t, local) /\ UNCHANGED <<account, writes, latest, used, cut>>
  BY DEF Login
<1>5. /\ local.pc \notin {"idle", "mailing", "congratulating"}
      /\ \/ local.code = NoCode /\ local.pc \notin {"resetting", "storingCode"}
            /\ generated' = generated
         \/ local.pc = "resetting" /\ local.code = account[u].remember_token
            /\ generated' = generated
         \/ local.pc = "storingCode" /\ local.code = FreshCode /\ generated' = FreshCode
  BY DEF IdleTask, Login
<1> HIDE DEF local
<1> QED
  BY <1>1, <1>2, <1>3, <1>4, <1>5, RequestCalm

LEMMA CreateAccountCalm ==
    ASSUME IndInv, CalmInv, NEW t \in Tasks, NEW u \in Users, NEW role \in Roles,
           CreateAccount(t, u, role)
    PROVE  CalmInv'
<1> DEFINE local == [IdleTask EXCEPT !.pc = "savingRole", !.user = u, !.row = account[u],
                                     !.roles = roles[u], !.role = role]
<1>1. /\ TypeOK /\ u \in Accounts /\ account[u] \in Account /\ account[u] # Null
      /\ roles[u] \subseteq Roles
      /\ ~account[u].suspended
  BY DEF IndInv, TypeOK, CreateAccount, Visible, Accounts
<1>2. local \in Task /\ local.user = u
  BY <1>1, IdleIsRight, AccountAssumption DEF IdleTask, Task, TaskPcs, Account, NoCode
<1>3. SoFar(account[u], local)
  BY <1>1, AccountAssumption DEF SoFar, IdleTask
<1>4. Begins(t, local) /\ UNCHANGED <<account, writes, latest, used, cut>>
  BY DEF CreateAccount
<1>5. /\ local.pc \notin {"idle", "mailing", "congratulating"}
      /\ \/ local.code = NoCode /\ local.pc \notin {"resetting", "storingCode"}
            /\ generated' = generated
         \/ local.pc = "resetting" /\ local.code = account[u].remember_token
            /\ generated' = generated
         \/ local.pc = "storingCode" /\ local.code = FreshCode /\ generated' = FreshCode
  BY DEF IdleTask, CreateAccount
<1> HIDE DEF local
<1> QED
  BY <1>1, <1>2, <1>3, <1>4, <1>5, RequestCalm

LEMMA GoogleAuthCalm ==
    ASSUME IndInv, CalmInv, NEW t \in Tasks, NEW u \in Users, NEW role \in Roles \cup {Null},
           GoogleAuth(t, u, role)
    PROVE  CalmInv'
<1> DEFINE local == [IdleTask EXCEPT
          !.pc = IF role # Null /\ role \notin roles[u] THEN "savingRole" ELSE "activating",
          !.user = u, !.row = account[u], !.roles = roles[u], !.role = role, !.google = TRUE]
<1>1. /\ TypeOK /\ u \in Accounts /\ account[u] \in Account /\ account[u] # Null
      /\ roles[u] \subseteq Roles
      /\ ~account[u].suspended
  BY DEF IndInv, TypeOK, GoogleAuth, Visible, Accounts
<1>2. local \in Task /\ local.user = u
  BY <1>1, IdleIsRight, AccountAssumption DEF IdleTask, Task, TaskPcs, Account, NoCode
<1>3. SoFar(account[u], local)
  BY <1>1, AccountAssumption DEF SoFar, IdleTask
<1>4. Begins(t, local) /\ UNCHANGED <<account, writes, latest, used, cut>>
  BY DEF GoogleAuth
<1>5. /\ local.pc \notin {"idle", "mailing", "congratulating"}
      /\ \/ local.code = NoCode /\ local.pc \notin {"resetting", "storingCode"}
            /\ generated' = generated
         \/ local.pc = "resetting" /\ local.code = account[u].remember_token
            /\ generated' = generated
         \/ local.pc = "storingCode" /\ local.code = FreshCode /\ generated' = FreshCode
  BY DEF IdleTask, GoogleAuth
<1> HIDE DEF local
<1> QED
  BY <1>1, <1>2, <1>3, <1>4, <1>5, RequestCalm

LEMMA AddRoleCalm ==
    ASSUME IndInv, CalmInv, NEW t \in Tasks, NEW u \in Users, NEW role \in Roles, AddRole(t, u, role)
    PROVE  CalmInv'
<1> DEFINE local == [IdleTask EXCEPT !.pc = "addingRole", !.user = u, !.role = role]
<1>1. /\ TypeOK /\ u \in Accounts /\ account[u] \in Account /\ account[u] # Null
      /\ roles[u] \subseteq Roles
  BY DEF IndInv, TypeOK, AddRole, Visible, Accounts
<1>2. local \in Task /\ local.user = u
  BY <1>1, IdleIsRight, AccountAssumption DEF IdleTask, Task, TaskPcs, Account, NoCode
<1>3. SoFar(account[u], local)
  BY <1>1, AccountAssumption DEF SoFar, IdleTask
<1>4. Begins(t, local) /\ UNCHANGED <<account, writes, latest, used, cut>>
  BY DEF AddRole
<1>5. /\ local.pc \notin {"idle", "mailing", "congratulating"}
      /\ \/ local.code = NoCode /\ local.pc \notin {"resetting", "storingCode"}
            /\ generated' = generated
         \/ local.pc = "resetting" /\ local.code = account[u].remember_token
            /\ generated' = generated
         \/ local.pc = "storingCode" /\ local.code = FreshCode /\ generated' = FreshCode
  BY DEF IdleTask, AddRole
<1> HIDE DEF local
<1> QED
  BY <1>1, <1>2, <1>3, <1>4, <1>5, RequestCalm

LEMMA SwitchRoleCalm ==
    ASSUME IndInv, CalmInv, NEW t \in Tasks, NEW u \in Users, NEW role \in Roles, SwitchRole(t, u, role)
    PROVE  CalmInv'
<1> DEFINE local == [IdleTask EXCEPT !.pc = "switching", !.user = u, !.role = role]
<1>1. /\ TypeOK /\ u \in Accounts /\ account[u] \in Account /\ account[u] # Null
      /\ roles[u] \subseteq Roles
  BY DEF IndInv, TypeOK, SwitchRole, MaySwitch, Visible, Accounts
<1>2. local \in Task /\ local.user = u
  BY <1>1, IdleIsRight, AccountAssumption DEF IdleTask, Task, TaskPcs, Account, NoCode
<1>3. SoFar(account[u], local)
  BY <1>1, AccountAssumption DEF SoFar, IdleTask
<1>4. Begins(t, local) /\ UNCHANGED <<account, writes, latest, used, cut>>
  BY DEF SwitchRole
<1>5. /\ local.pc \notin {"idle", "mailing", "congratulating"}
      /\ \/ local.code = NoCode /\ local.pc \notin {"resetting", "storingCode"}
            /\ generated' = generated
         \/ local.pc = "resetting" /\ local.code = account[u].remember_token
            /\ generated' = generated
         \/ local.pc = "storingCode" /\ local.code = FreshCode /\ generated' = FreshCode
  BY DEF IdleTask, SwitchRole
<1> HIDE DEF local
<1> QED
  BY <1>1, <1>2, <1>3, <1>4, <1>5, RequestCalm

LEMMA UpdatePasswordCalm ==
    ASSUME IndInv, CalmInv, NEW t \in Tasks, NEW u \in Users, NEW password \in Passwords,
           UpdatePassword(t, u, password)
    PROVE  CalmInv'
<1> DEFINE local == [IdleTask EXCEPT !.pc = "changingPassword", !.user = u,
                                     !.password = password]
<1>1. /\ TypeOK /\ u \in Accounts /\ account[u] \in Account /\ account[u] # Null
      /\ roles[u] \subseteq Roles
  BY DEF IndInv, TypeOK, UpdatePassword, Visible, Accounts
<1>2. local \in Task /\ local.user = u
  BY <1>1, IdleIsRight, AccountAssumption DEF IdleTask, Task, TaskPcs, Account, NoCode
<1>3. SoFar(account[u], local)
  BY <1>1, AccountAssumption DEF SoFar, IdleTask
<1>4. Begins(t, local) /\ UNCHANGED <<account, writes, latest, used, cut>>
  BY DEF UpdatePassword
<1>5. /\ local.pc \notin {"idle", "mailing", "congratulating"}
      /\ \/ local.code = NoCode /\ local.pc \notin {"resetting", "storingCode"}
            /\ generated' = generated
         \/ local.pc = "resetting" /\ local.code = account[u].remember_token
            /\ generated' = generated
         \/ local.pc = "storingCode" /\ local.code = FreshCode /\ generated' = FreshCode
  BY DEF IdleTask, UpdatePassword
<1> HIDE DEF local
<1> QED
  BY <1>1, <1>2, <1>3, <1>4, <1>5, RequestCalm

LEMMA ResetPasswordCalm ==
    ASSUME IndInv, CalmInv, NEW t \in Tasks, NEW u \in Users, NEW password \in Passwords,
           ResetPassword(t, u, password)
    PROVE  CalmInv'
<1> DEFINE local == [IdleTask EXCEPT !.pc = "resetting", !.user = u, !.password = password,
                                     !.code = account[u].remember_token]
<1>1. /\ TypeOK /\ u \in Accounts /\ account[u] \in Account /\ account[u] # Null
      /\ roles[u] \subseteq Roles
  BY DEF IndInv, TypeOK, ResetPassword, Visible, Accounts
<1>2. local \in Task /\ local.user = u
  BY <1>1, IdleIsRight, AccountAssumption DEF IdleTask, Task, TaskPcs, Account, NoCode
<1>3. SoFar(account[u], local)
  BY <1>1, AccountAssumption DEF SoFar, IdleTask
<1>4. Begins(t, local) /\ UNCHANGED <<account, writes, latest, used, cut>>
  BY DEF ResetPassword
<1>5. /\ local.pc \notin {"idle", "mailing", "congratulating"}
      /\ \/ local.code = NoCode /\ local.pc \notin {"resetting", "storingCode"}
            /\ generated' = generated
         \/ local.pc = "resetting" /\ local.code = account[u].remember_token
            /\ generated' = generated
         \/ local.pc = "storingCode" /\ local.code = FreshCode /\ generated' = FreshCode
  BY DEF IdleTask, ResetPassword
<1> HIDE DEF local
<1> QED
  BY <1>1, <1>2, <1>3, <1>4, <1>5, RequestCalm

LEMMA ResendEmailCalm ==
    ASSUME IndInv, CalmInv, NEW t \in Tasks, NEW u \in Users, ResendEmail(t, u)
    PROVE  CalmInv'
<1> DEFINE local == [IdleTask EXCEPT !.pc = "storingCode", !.user = u,
                                     !.email = account[u].email, !.code = FreshCode]
<1>1. /\ TypeOK /\ u \in Accounts /\ account[u] \in Account /\ account[u] # Null
      /\ roles[u] \subseteq Roles
      /\ FreshCode \in Codes
  BY AccountAssumption DEF IndInv, TypeOK, ResendEmail, Visible, Accounts, MayGenerate, FreshCode,
     Codes
<1>2. local \in Task /\ local.user = u
  BY <1>1, IdleIsRight, AccountAssumption DEF IdleTask, Task, TaskPcs, Account, NoCode
<1>3. SoFar(account[u], local)
  BY <1>1, AccountAssumption DEF SoFar, IdleTask
<1>4. Begins(t, local) /\ UNCHANGED <<account, writes, latest, used, cut>>
  BY DEF ResendEmail
<1>5. /\ local.pc \notin {"idle", "mailing", "congratulating"}
      /\ \/ local.code = NoCode /\ local.pc \notin {"resetting", "storingCode"}
            /\ generated' = generated
         \/ local.pc = "resetting" /\ local.code = account[u].remember_token
            /\ generated' = generated
         \/ local.pc = "storingCode" /\ local.code = FreshCode /\ generated' = FreshCode
  BY DEF IdleTask, ResendEmail
<1> HIDE DEF local
<1> QED
  BY <1>1, <1>2, <1>3, <1>4, <1>5, RequestCalm

LEMMA EditProfileCalm ==
    ASSUME IndInv, CalmInv, NEW t \in Tasks, NEW u \in Users, NEW email \in Emails \cup {Null},
           EditProfile(t, u, email)
    PROVE  CalmInv'
<1> DEFINE local == [IdleTask EXCEPT !.pc = "savingProfile", !.user = u,
                    !.row = [account[u] EXCEPT !.email = IF email = Null THEN @ ELSE email]]
<1>1. /\ TypeOK /\ u \in Accounts /\ account[u] \in Account /\ account[u] # Null
      /\ roles[u] \subseteq Roles
  BY DEF IndInv, TypeOK, EditProfile, Visible, Accounts
<1>2. local \in Task /\ local.user = u
  BY <1>1, IdleIsRight, AccountAssumption DEF IdleTask, Task, TaskPcs, Account, NoCode
<1>3. SoFar(account[u], local)
  BY <1>1, AccountAssumption DEF SoFar, IdleTask, Account
<1>4. Begins(t, local) /\ UNCHANGED <<account, writes, latest, used, cut>>
  BY DEF EditProfile
<1>5. /\ local.pc \notin {"idle", "mailing", "congratulating"}
      /\ \/ local.code = NoCode /\ local.pc \notin {"resetting", "storingCode"}
            /\ generated' = generated
         \/ local.pc = "resetting" /\ local.code = account[u].remember_token
            /\ generated' = generated
         \/ local.pc = "storingCode" /\ local.code = FreshCode /\ generated' = FreshCode
  BY DEF IdleTask, EditProfile
<1> HIDE DEF local
<1> QED
  BY <1>1, <1>2, <1>3, <1>4, <1>5, RequestCalm

\* An account that is to be is about nobody yet.
LEMMA CreateNewCalm ==
    ASSUME IndInv, CalmInv, NEW t \in Tasks, NEW email \in Emails, NEW role \in Roles,
           NEW password \in Passwords \cup {Null}, NEW google \in BOOLEAN,
           CreateNew(t, email, role, password, google)
    PROVE  CalmInv'
<1> DEFINE local == [IdleTask EXCEPT !.pc = "inserting", !.email = email, !.role = role,
                                     !.password = password, !.google = google]
<1>1. /\ local \in Task /\ local.user = Null /\ local.pc # "idle" /\ Begins(t, local)
      /\ UNCHANGED <<account, writes, generated, latest, used, cut>>
  BY IdleIsRight, AccountAssumption DEF IdleTask, Task, TaskPcs, CreateNew
<1>2. raced \subseteq raced' /\ \A v \in Users : Untouched(v)
  <2> HIDE DEF local
  <2>1. \A v \in Users : v # local.user
    BY <1>1, AccountAssumption
  <2> QED
    BY <1>1, <2>1, SomethingBegins DEF Sent
<1>3. OwnerInv /\ CodeInv
  BY CalmParts
<1>4. Counted
  BY <1>1, <1>2, <1>3, FreshIsNew DEF Counted
<1>5. OwnerInv'
  BY <1>1, <1>3 DEF OwnerInv, Accounts
<1> QED
  BY <1>1, <1>2, <1>4, <1>5, AccountAssumption, Confined DEF Aside, Counted

LEMMA ForgotPasswordCalm ==
    ASSUME IndInv, CalmInv, NEW t \in Tasks, NEW u \in Users, ForgotPassword(t, u)
    PROVE  CalmInv'
<1> DEFINE local == [IdleTask EXCEPT !.pc = "mailing", !.user = u, !.code = FreshCode]
           write == [kind |-> "code", user |-> u, email |-> account[u].email,
                     code |-> FreshCode]
<1> PICK row : row = account[u]
  OBVIOUS
<1> PICK mailed : mailed = latest[u]
  OBVIOUS
<1>1. /\ TypeOK /\ OwnerInv /\ CodeInv /\ u \in Accounts /\ u \in Accounts'
      /\ \A v \in Users : Steady(v)
  BY CalmParts DEF IndInv, ForgotPassword, Visible, Accounts
<1>2. FreshCode \in Codes /\ FreshCode > generated /\ FreshCode \notin used
  BY <1>1, FreshIsNew, AccountAssumption DEF ForgotPassword, MayGenerate, FreshCode, Codes, TypeOK
<1>3. /\ local \in Task /\ local.user = u /\ local.pc = "mailing" /\ local.code = FreshCode
      /\ Begins(t, local)
  BY <1>2, IdleIsRight, AccountAssumption DEF IdleTask, Task, TaskPcs, ForgotPassword
<1>4. /\ writes' = writes \cup {write} /\ generated' = FreshCode
      /\ UNCHANGED <<account, latest, used, cut>>
  BY DEF ForgotPassword
<1>5. /\ Sent(u)' = Sent(u) \cup {write}
      /\ \A v \in Users : v # u => Sent(v)' = Sent(v)
  BY <1>4 DEF Sent
<1>6. /\ write.kind = "code" /\ write.email = row.email /\ write.code = FreshCode
  OBVIOUS
<1> HIDE DEF local, write
<1>7. /\ task'[t] = local /\ raced \subseteq raced'
      /\ \A v \in Users : v # u => Untouched(v)
      /\ u \notin raced' => /\ \A s \in Tasks : ~About(s, u)
                            /\ Sent(u) = {} /\ u \notin raced
                            /\ \A s \in Tasks : About(s, u)' => s = t
  BY <1>3, <1>4, <1>5, SomethingBegins
<1>8. Counted
  BY <1>1, <1>2, <1>4, <1>7, FreshIsNew DEF Counted
<1>9. Steady(u)'
  <2> PICK sent : sent = Sent(u)'
    OBVIOUS
  <2>1. u \in Calm' => /\ sent = {write} /\ u \in Calm
                       /\ \A s \in Tasks : ~About(s, u)
    BY <1>1, <1>5, <1>7 DEF Calm
  <2>2. u \in Calm' => mailed \notin used
    BY <1>1, <2>1, SteadyIdle
  <2>3. SoFar(row, local)
    BY <1>3 DEF SoFar
  <2>4. u \in Calm' => /\ Behind(row, sent, used) /\ Follows(sent, local)
                       /\ Posted(row, sent, local, mailed)
    BY <1>2, <1>3, <1>6, <2>1 DEF Behind, Follows, Posted, Ahead
  <2>5. row = account'[u] /\ mailed = latest'[u] /\ used' = used /\ local = task'[t]
    BY <1>4, <1>7
  <2>6. u \in Calm' => \A s \in Tasks : About(s, u)' => s = t
    BY <1>7 DEF Calm
  <2> QED
    BY <1>2, <1>3, <2>2, <2>3, <2>4, <2>5, <2>6, BusySteady
<1>10. ASSUME NEW c \in Codes, HasCode(u, c)'
       PROVE  \/ HasCode(u, c) /\ (u \in Calm' => u \in Calm)
              \/ c > generated /\ c <= generated'
  <2>1. u \in Calm' => u \in Calm
    BY <1>1, <1>7 DEF Calm
  <2>2. task \in [Tasks -> Task] /\ task' = [task EXCEPT ![t] = local]
    BY <1>1, <1>3 DEF Begins, TypeOK
  <2>3. HasCode(u, c) \/ c = FreshCode
    BY <1>3, <1>4, <1>5, <1>6, <1>10, <1>1, <2>2 DEF HasCode, About, At
  <2> QED
    BY <1>2, <1>4, <2>1, <2>3, FreshIsNew, <1>1
<1>11. OwnerInv'
  BY <1>1, <1>4 DEF OwnerInv, Accounts
<1> QED
  BY <1>4, <1>7, <1>8, <1>9, <1>10, <1>11, Confined DEF Aside, Counted

LEMMA ConfirmUserEmailCalm ==
    ASSUME IndInv, CalmInv, NEW t \in Tasks, NEW u \in Users, ConfirmUserEmail(t, u)
    PROVE  CalmInv'
<1> DEFINE local == [IdleTask EXCEPT !.pc = "reporting", !.user = u]
           write == [kind |-> "confirm", user |-> u, email |-> Null, code |-> NoCode]
<1> PICK row : row = account[u]
  OBVIOUS
<1> PICK mailed : mailed = latest[u]
  OBVIOUS
<1> PICK token : token = row.remember_token
  OBVIOUS
<1> PICK now : now = latest'[u]
  OBVIOUS
<1> PICK codes : codes = used'
  OBVIOUS
<1>1. /\ TypeOK /\ OwnerInv /\ CodeInv /\ u \in Accounts /\ u \in Accounts'
      /\ \A v \in Users : Steady(v)
  BY CalmParts DEF IndInv, ConfirmUserEmail, Visible, Accounts
<1>2. /\ local \in Task /\ local.user = u /\ local.pc = "reporting" /\ local.code = NoCode
      /\ Begins(t, local)
  BY IdleIsRight, AccountAssumption DEF IdleTask, Task, TaskPcs, ConfirmUserEmail
<1>3. /\ writes' = writes \cup {write} /\ codes = used \cup {token} /\ generated' = generated
      /\ latest' = [latest EXCEPT ![u] = IF @ = token THEN NoCode ELSE @]
      /\ UNCHANGED <<account, cut>>
  BY DEF ConfirmUserEmail
<1>4. now = (IF mailed = token THEN NoCode ELSE mailed) /\ \A v \in Users : v # u => latest'[v] = latest[v]
  BY <1>1, <1>3 DEF TypeOK
<1>5. /\ Sent(u)' = Sent(u) \cup {write}
      /\ \A v \in Users : v # u => Sent(v)' = Sent(v)
  BY <1>3 DEF Sent
<1>6. /\ write.kind = "confirm" /\ write.code = NoCode
      /\ token \in Codes
  <2>1. row \in Account
    BY <1>1 DEF TypeOK, Accounts
  <2> QED
    BY <2>1 DEF ConfirmUserEmail, Account
<1> HIDE DEF local, write
<1>7. /\ task'[t] = local /\ raced \subseteq raced'
      /\ \A v \in Users : v # u => Untouched(v)
      /\ u \notin raced' => /\ \A s \in Tasks : ~About(s, u)
                            /\ Sent(u) = {} /\ u \notin raced
                            /\ \A s \in Tasks : About(s, u)' => s = t
  BY <1>2, <1>3, <1>4, <1>5, SomethingBegins
<1>8. Counted
  BY <1>1, <1>3, <1>6, <1>7, FreshIsNew DEF Counted
<1>9. Steady(u)'
  <2> PICK sent : sent = Sent(u)'
    OBVIOUS
  <2>1. u \in Calm' => /\ sent = {write} /\ u \in Calm /\ Sent(u) = {}
                       /\ \A s \in Tasks : ~About(s, u)
    BY <1>1, <1>5, <1>7 DEF Calm
  <2>2. u \in Calm' => mailed \notin used /\ (u \notin cut => Ahead(row, {}, mailed))
    BY <1>1, <2>1, SteadyIdle
  <2>3. SoFar(row, local)
    BY <1>2 DEF SoFar
  <2>4. NoCode \notin codes
    BY <1>1, <1>3, <1>6, FreshIsNew DEF Codes, NoCode
  <2>5. u \in Calm' => /\ Behind(row, sent, codes) /\ Follows(sent, local) /\ now \notin codes
                       /\ u \notin cut => Posted(row, sent, local, now)
    BY <1>2, <1>3, <1>4, <1>6, <2>1, <2>2, <2>4 DEF Behind, Follows, Posted, Ahead
  <2>6. row = account'[u] /\ cut' = cut /\ local = task'[t]
    BY <1>3, <1>7
  <2>7. u \in Calm' => \A s \in Tasks : About(s, u)' => s = t
    BY <1>7 DEF Calm
  <2> QED
    BY <1>2, <2>3, <2>5, <2>6, <2>7, BusySteady
<1>10. ASSUME NEW c \in Codes, HasCode(u, c)'
       PROVE  HasCode(u, c) /\ (u \in Calm' => u \in Calm)
  <2>1. u \in Calm' => u \in Calm
    BY <1>1, <1>7 DEF Calm
  <2>2. task \in [Tasks -> Task] /\ task' = [task EXCEPT ![t] = local]
    BY <1>1, <1>2 DEF Begins, TypeOK
  <2>3. c # NoCode
    BY DEF Codes, NoCode
  <2>4. HasCode(u, c)
    BY <1>1, <1>2, <1>3, <1>4, <1>5, <1>6, <1>10, <2>2, <2>3 DEF HasCode, About, At
  <2> QED
    BY <2>1, <2>4
<1>11. OwnerInv'
  BY <1>1, <1>3 DEF OwnerInv, Accounts
<1>12. \A c \in used' : c \in used \/ HasCode(u, c)
  BY <1>1, <1>3 DEF HasCode
<1> QED
  BY <1>7, <1>8, <1>9, <1>10, <1>11, <1>12, Confined DEF Aside, Counted

-----------------------------------------------------------------------------
(* Requests that go on. *)

Turns(t, local) == task' = [task EXCEPT ![t] = local]

LEMMA SomethingMoves ==
    ASSUME IndInv, NEW t \in Tasks, ~At(t, "idle"), NEW u, u = task[t].user,
           NEW local, local.user = u \/ local.pc = "idle", Turns(t, local),
           \A v \in Users : v # u =>
               account'[v] = account[v] /\ latest'[v] = latest[v] /\ Sent(v)' = Sent(v)
    PROVE  /\ task'[t] = local
           /\ \A v \in Users : v # u => Untouched(v)
           /\ \A s \in Tasks : s # t /\ About(s, u)' => About(s, u)
           /\ u \in Calm /\ Steady(u) => \A s \in Tasks : About(s, u)' => s = t
           /\ About(t, u)
<1>1. task \in [Tasks -> Task]
  BY DEF IndInv, TypeOK
<1>2. task'[t] = local /\ \A s \in Tasks : s # t => task'[s] = task[s]
  BY <1>1 DEF Turns
<1>3. ASSUME NEW v \in Users, v # u
      PROVE  Untouched(v)
  <2>1. ASSUME NEW s \in Tasks, About(s, v) \/ About(s, v)'
        PROVE  s # t
    BY <1>2, <1>3, <2>1 DEF About, At
  <2> QED
    BY <1>2, <1>3, <2>1 DEF Untouched
<1>4. \A s \in Tasks : s # t /\ About(s, u)' => About(s, u)
  BY <1>2 DEF About, At
<1>5. About(t, u)
  BY DEF About
<1>6. u \in Calm /\ Steady(u) => \A s \in Tasks : About(s, u)' => s = t
  BY <1>4, <1>5, SteadyBusy
<1> QED
  BY <1>2, <1>3, <1>4, <1>5, <1>6

\* A request that takes its next step and leaves codes and updates alone.
LEMMA MoveCalm ==
    ASSUME IndInv, CalmInv, NEW t \in Tasks, NEW own, own = task[t], NEW u \in Accounts,
           u = own.user, NEW local, local.user = u, Goto(t, local),
           own.pc \notin {"idle", "mailing", "congratulating", "reporting"},
           local.pc \notin {"idle", "mailing", "congratulating", "resetting", "storingCode"},
           local.code \in {own.code, NoCode},
           UNCHANGED <<writes, generated, latest, used, cut>>,
           \A v \in Users : v # u => account'[v] = account[v],
           account'[u].remember_token = account[u].remember_token,
           account'[u].email = account[u].email, u \in Accounts',
           u \in Calm => SoFar(account'[u], local)
    PROVE  CalmInv'
<1> PICK row : row = account'[u]
  OBVIOUS
<1> PICK mailed : mailed = latest[u]
  OBVIOUS
<1>1. /\ OwnerInv /\ CodeInv /\ u \in Users /\ Steady(u) /\ ~At(t, "idle")
      /\ task' = [task EXCEPT ![t] = local] /\ raced' = raced
      /\ \A v \in Users : Sent(v)' = Sent(v)
  BY CalmParts DEF Accounts, At, Goto, Sent
<1>2. /\ task'[t] = local
      /\ \A v \in Users : v # u => Untouched(v)
      /\ \A s \in Tasks : s # t /\ About(s, u)' => About(s, u)
      /\ u \in Calm => \A s \in Tasks : About(s, u)' => s = t
      /\ About(t, u)
  <2>1. u = task[t].user /\ (local.user = u \/ local.pc = "idle")
    OBVIOUS
  <2>2. \A v \in Users : v # u =>
            account'[v] = account[v] /\ latest'[v] = latest[v] /\ Sent(v)' = Sent(v)
    BY <1>1
  <2>3. ~At(t, "idle") /\ Turns(t, local)
    BY <1>1 DEF Turns
  <2>4. u \in Calm => Steady(u)
    BY <1>1
  <2> HIDE <1>1
  <2> QED
    BY <2>1, <2>2, <2>3, <2>4, SomethingMoves
<1>3. u \in Calm' <=> u \in Calm
  BY <1>1 DEF Calm
<1>4. u \in Calm => /\ Sent(u) = {} /\ mailed \notin used
                    /\ u \notin cut => Ahead(account[u], {}, mailed)
  <2> SUFFICES ASSUME u \in Calm
               PROVE  /\ Sent(u) = {} /\ mailed \notin used
                      /\ u \notin cut => Ahead(account[u], {}, mailed)
    OBVIOUS
  <2>1. /\ mailed \notin used /\ Follows(Sent(u), own)
        /\ u \notin cut => Posted(account[u], Sent(u), own, mailed)
    BY <1>1, <1>2, SteadyBusy
  <2>2. Sent(u) = {}
    BY <2>1 DEF Follows
  <2> QED
    BY <2>1, <2>2 DEF Posted
<1>5. Steady(u)'
  <2> PICK sent : sent = Sent(u)
    OBVIOUS
  <2>1. u \in Calm => /\ Behind(row, sent, used) /\ Follows(sent, local)
                      /\ u \notin cut => Posted(row, sent, local, mailed)
    BY <1>4 DEF Behind, Follows, Posted, Ahead
  <2>2. sent = Sent(u)' /\ used' = used /\ mailed = latest'[u] /\ cut' = cut
    BY <1>1
  <2> QED
    BY <1>2, <1>3, <1>4, <2>1, <2>2, BusySteady
<1>6. ASSUME NEW c \in Codes, HasCode(u, c)'
      PROVE  HasCode(u, c)
  <2>1. task \in [Tasks -> Task] /\ c # NoCode
    BY DEF IndInv, TypeOK, Codes, NoCode
  <2>2. ASSUME NEW s \in Tasks, About(s, u)', c = task'[s].code
        PROVE  HasCode(u, c)
    <3>1. c = own.code \/ (About(s, u) /\ c = task[s].code)
      BY <1>1, <1>2, <2>1, <2>2
    <3> QED
      BY <1>2, <3>1 DEF HasCode
  <2>3. (c = latest[u] \/ c = account[u].remember_token \/ \E w \in Sent(u) : c = w.code)
          => HasCode(u, c)
    BY DEF HasCode
  <2> QED
    BY <1>1, <1>6, <2>2, <2>3 DEF HasCode
<1>7. OwnerInv'
  <2>1. \A v \in Users : /\ v \in Accounts' <=> v \in Accounts
                         /\ v \in Accounts => account'[v].email = account[v].email
    BY <1>1 DEF Accounts
  <2>2. Accounts' \subseteq Users
    BY DEF Accounts
  <2> QED
    BY <1>1, <2>1, <2>2 DEF OwnerInv
<1>8. Counted
  BY <1>1, FreshIsNew DEF Counted
<1> QED
  BY <1>1, <1>2, <1>3, <1>5, <1>6, <1>7, <1>8, Confined DEF Aside, Counted

\* What a request under way is about, and what it may rely on.
LEMMA UnderWay ==
    ASSUME IndInv, CalmInv, NEW t \in Tasks, task[t].pc \notin {"idle", "inserting"}
    PROVE  /\ task[t] \in Task /\ Right(task[t]) /\ task \in [Tasks -> Task]
           /\ task[t].user \in Accounts /\ task[t].user \in Users
           /\ account[task[t].user] \in Account /\ account \in [Users -> Account \cup {Null}]
           /\ task[t].user \in Calm => SoFar(account[task[t].user], task[t])
<1>1. /\ task[t] \in Task /\ Right(task[t]) /\ task \in [Tasks -> Task]
      /\ task[t].user \in Accounts /\ task[t].user \in Users
      /\ account[task[t].user] \in Account /\ account \in [Users -> Account \cup {Null}]
  BY Held, Subject DEF TypeOK
<1>2. About(t, task[t].user) /\ Steady(task[t].user)
  BY <1>1, CalmParts DEF About, At
<1>3. task[t].user \in Calm => SoFar(account[task[t].user], task[t])
  BY <1>2, SteadyBusy
<1> QED
  BY <1>1, <1>3

LEMMA ListRolesCalm ==
    ASSUME IndInv, CalmInv, NEW t \in Tasks, ListRoles(t)
    PROVE  CalmInv'
<1> PICK own : own = task[t]
  OBVIOUS
<1> PICK u : u = own.user
  OBVIOUS
<1> PICK local : local = [own EXCEPT !.pc = "answering", !.roles = roles[u]]
  OBVIOUS
<1>1. /\ own \in Task /\ own.pc = "listing" /\ u \in Accounts
      /\ u \in Calm => SoFar(account[u], own)
  BY UnderWay DEF ListRoles, At
<1>2. Goto(t, local) /\ UNCHANGED <<account, writes, generated, latest, used, cut>>
  BY DEF ListRoles
<1>3. /\ local.user = u /\ local.pc = "answering" /\ local.code = own.code
      /\ local.row = own.row /\ local.role = own.role
  BY <1>1 DEF Task
<1>4. u \in Calm => SoFar(account[u], local)
  BY <1>1, <1>3 DEF SoFar
<1>5. u \in Accounts'
  BY <1>1, <1>2 DEF Accounts
<1> QED
  BY <1>1, <1>2, <1>3, <1>4, <1>5, MoveCalm

LEMMA SaveRoleCalm ==
    ASSUME IndInv, CalmInv, NEW t \in Tasks, SaveRole(t)
    PROVE  CalmInv'
<1> PICK own : own = task[t]
  OBVIOUS
<1> PICK u : u = own.user
  OBVIOUS
<1> PICK local : local = [own EXCEPT !.pc = "activating"]
  OBVIOUS
<1>1. /\ own \in Task /\ own.pc = "savingRole" /\ u \in Accounts
      /\ u \in Calm => SoFar(account[u], own)
  BY UnderWay DEF SaveRole, At
<1>2. Goto(t, local) /\ UNCHANGED <<account, writes, generated, latest, used, cut>>
  BY DEF SaveRole
<1>3. /\ local.user = u /\ local.pc = "activating" /\ local.code = own.code
      /\ local.row = own.row /\ local.role = own.role
  BY <1>1 DEF Task
<1>4. u \in Calm => SoFar(account[u], local)
  BY <1>1, <1>3 DEF SoFar
<1>5. u \in Accounts'
  BY <1>1, <1>2 DEF Accounts
<1> QED
  BY <1>1, <1>2, <1>3, <1>4, <1>5, MoveCalm

LEMMA SaveAddedRoleCalm ==
    ASSUME IndInv, CalmInv, NEW t \in Tasks, SaveAddedRole(t)
    PROVE  CalmInv'
<1> PICK own : own = task[t]
  OBVIOUS
<1> PICK u : u = own.user
  OBVIOUS
<1> PICK local : local = [own EXCEPT !.pc = "rereading", !.role = Null]
  OBVIOUS
<1>1. own \in Task /\ own.pc = "addingRole" /\ u \in Accounts
  BY UnderWay DEF SaveAddedRole, At
<1>2. Goto(t, local) /\ UNCHANGED <<account, writes, generated, latest, used, cut>>
  BY DEF SaveAddedRole
<1>3. /\ local.user = u /\ local.pc = "rereading" /\ local.code = own.code
      /\ local.role = Null
  BY <1>1 DEF Task
<1>4. SoFar(account[u], local)
  BY <1>3 DEF SoFar
<1>5. u \in Accounts'
  BY <1>1, <1>2 DEF Accounts
<1> QED
  BY <1>1, <1>2, <1>3, <1>4, <1>5, MoveCalm

LEMMA RereadCalm ==
    ASSUME IndInv, CalmInv, NEW t \in Tasks, Reread(t)
    PROVE  CalmInv'
<1> PICK own : own = task[t]
  OBVIOUS
<1> PICK u : u = own.user
  OBVIOUS
<1> PICK local : local = [own EXCEPT !.pc = "listing", !.row = FindOne(u)]
  OBVIOUS
<1>1. /\ own \in Task /\ own.pc = "rereading" /\ u \in Accounts
      /\ u \in Calm => SoFar(account[u], own)
  BY UnderWay DEF Reread, At
<1>2. Goto(t, local) /\ UNCHANGED <<account, writes, generated, latest, used, cut>>
  BY DEF Reread
<1>3. /\ local.user = u /\ local.pc = "listing" /\ local.code = own.code
      /\ local.row = FindOne(u) /\ local.role = own.role
  BY <1>1 DEF Task
<1>4. u \in Calm => SoFar(account[u], local)
  BY <1>1, <1>3 DEF SoFar, FindOne, Visible
<1>5. u \in Accounts'
  BY <1>1, <1>2 DEF Accounts
<1> QED
  BY <1>1, <1>2, <1>3, <1>4, <1>5, MoveCalm

LEMMA SaveActiveRoleCalm ==
    ASSUME IndInv, CalmInv, NEW t \in Tasks, SaveActiveRole(t)
    PROVE  CalmInv'
<1> PICK own : own = task[t]
  OBVIOUS
<1> PICK u : u = own.user
  OBVIOUS
<1>0. PICK local : local = [own EXCEPT !.pc = "rereading"]
  OBVIOUS
<1>1. /\ own \in Task /\ own.pc = "switching" /\ u \in Accounts /\ u \in Users
      /\ account[u] \in Account /\ account \in [Users -> Account \cup {Null}]
  BY UnderWay DEF SaveActiveRole, At
<1>2. /\ Goto(t, local) /\ UNCHANGED <<writes, generated, latest, used, cut>>
      /\ account' = [account EXCEPT ![u] = [account[u] EXCEPT !.user_type = own.role]]
  BY <1>0, <1>1 DEF SaveActiveRole
<1>3. /\ local.user = u /\ local.pc = "rereading" /\ local.code = own.code
      /\ local.role = own.role
  BY <1>0, <1>1 DEF Task
<1>4. /\ \A v \in Users : v # u => account'[v] = account[v]
      /\ account'[u] = [account[u] EXCEPT !.user_type = own.role]
  BY <1>1, <1>2
<1>5. /\ account'[u].user_type = own.role
      /\ account'[u].email = account[u].email
      /\ account'[u].remember_token = account[u].remember_token
  BY <1>1, <1>4 DEF Account
<1>6. SoFar(account'[u], local)
  BY <1>3, <1>5 DEF SoFar
<1>7. u \in Accounts'
  BY <1>1, SaveActiveRoleKeeps DEF Grows
<1>8. UNCHANGED <<writes, generated, latest, used, cut>> /\ Goto(t, local)
  BY <1>2
<1>9. /\ own.pc \notin {"idle", "mailing", "congratulating", "reporting"}
      /\ local.pc \notin {"idle", "mailing", "congratulating", "resetting", "storingCode"}
      /\ local.code \in {own.code, NoCode} /\ local.user = u
  BY <1>1, <1>3
<1>10. /\ \A v \in Users : v # u => account'[v] = account[v]
       /\ account'[u].remember_token = account[u].remember_token
       /\ account'[u].email = account[u].email
  BY <1>4, <1>5
<1> QED
  BY <1>1, <1>6, <1>7, <1>8, <1>9, <1>10, MoveCalm

LEMMA ActivateCalm ==
    ASSUME IndInv, CalmInv, NEW t \in Tasks, Activate(t)
    PROVE  CalmInv'
<1> PICK own : own = task[t]
  OBVIOUS
<1> PICK u : u = own.user
  OBVIOUS
<1>02. PICK new : new = Activated(own)
  OBVIOUS
<1>01. PICK local : local = [own EXCEPT !.pc = "answering", !.row = new,
                                     !.roles = @ \cup ({own.role} \ {Null})]
  OBVIOUS
<1>03. PICK row : row = [account[u] EXCEPT
                         !.user_type = IF own.role = Null THEN @ ELSE new.user_type,
                         !.verified = @ \/ (own.google /\ ~own.row.verified)]
  OBVIOUS
<1>1. /\ own \in Task /\ own.pc = "activating" /\ u \in Accounts /\ u \in Users
      /\ account[u] \in Account /\ account \in [Users -> Account \cup {Null}]
      /\ u \in Calm => SoFar(account[u], own)
      /\ own.row # Null /\ own.row \in Account
  <2>1. At(t, "activating")
    BY DEF Activate
  <2>2. Right(own) /\ own.pc = "activating"
    BY <2>1, UnderWay DEF At
  <2> QED
    BY <2>2, UnderWay DEF Right, Task
<1>2. Goto(t, local) /\ UNCHANGED <<writes, generated, latest, used, cut>>
  BY <1>01, <1>02 DEF Activate
<1>3. account' = [account EXCEPT ![u] = row]
  BY <1>1, <1>02, <1>03 DEF Activate
<1>4. /\ local.user = u /\ local.pc = "answering" /\ local.code = own.code
      /\ local.role = own.role /\ local.row = new
  BY <1>1, <1>01 DEF Task
<1>5. own.role # Null => new.user_type = own.role
  BY <1>1, <1>02 DEF Activated, Account
<1>6. /\ \A v \in Users : v # u => account'[v] = account[v]
      /\ account'[u] = row
  BY <1>1, <1>3
<1>7. /\ row.email = account[u].email /\ row.suspended = account[u].suspended
      /\ row.remember_token = account[u].remember_token
  BY <1>1, <1>03 DEF Account
<1>8. u \in Calm => SoFar(row, local)
  BY <1>1, <1>4, <1>5, <1>7 DEF SoFar
<1>9. u \in Accounts'
  BY <1>1, ActivateKeeps DEF Grows
<1>10. UNCHANGED <<writes, generated, latest, used, cut>> /\ Goto(t, local)
  BY <1>2
<1>11. /\ own.pc \notin {"idle", "mailing", "congratulating", "reporting"}
       /\ local.pc \notin {"idle", "mailing", "congratulating", "resetting", "storingCode"}
       /\ local.code \in {own.code, NoCode} /\ local.user = u
  BY <1>1, <1>4
<1>12. /\ \A v \in Users : v # u => account'[v] = account[v]
       /\ account'[u].remember_token = account[u].remember_token
       /\ account'[u].email = account[u].email
       /\ u \in Calm => SoFar(account'[u], local)
  BY <1>6, <1>7, <1>8
<1> QED
  BY <1>1, <1>9, <1>10, <1>11, <1>12, MoveCalm

-----------------------------------------------------------------------------
(* Requests that end. *)

LEMMA SameRowsSameOwners ==
    ASSUME OwnerInv, \A v \in Users : /\ v \in Accounts' <=> v \in Accounts
                                      /\ v \in Accounts => account'[v].email = account[v].email
    PROVE  OwnerInv'
<1>1. Accounts' \subseteq Users
  BY DEF Accounts
<1> QED
  BY <1>1 DEF OwnerInv

\* A request that ends and sends nothing: it may have written its row once more.
LEMMA DoneCalm ==
    ASSUME IndInv, CalmInv, NEW t \in Tasks, NEW own, own = task[t], NEW u, u = own.user,
           own.pc # "idle", Returns(t), UNCHANGED <<writes, generated, latest, used>>,
           cut \subseteq cut', own.pc \in {"mailing", "congratulating"} => u \in cut',
           \A v \in Users : v # u => account'[v] = account[v],
           u \in Users =>
               /\ u \in Accounts /\ u \in Accounts'
               /\ account'[u].remember_token = account[u].remember_token
               /\ account'[u].email = account[u].email \/ own.pc = "savingProfile",
           OwnerInv'
    PROVE  CalmInv'
<1> PICK row : row = account'[u]
  OBVIOUS
<1> PICK mailed : mailed = latest[u]
  OBVIOUS
<1>1. /\ OwnerInv /\ CodeInv /\ (u \in Users => Steady(u)) /\ ~At(t, "idle")
      /\ task' = [task EXCEPT ![t] = IdleTask] /\ raced' = raced
      /\ \A v : Sent(v)' = Sent(v)
  BY CalmParts DEF Accounts, At, Goto, Returns, Sent
<1>2. /\ task'[t] = IdleTask
      /\ \A v \in Users : v # u => Untouched(v)
      /\ \A s \in Tasks : s # t /\ About(s, u)' => About(s, u)
      /\ u \in Calm => \A s \in Tasks : About(s, u)' => s = t
      /\ About(t, u)
  <2>1. u = task[t].user /\ IdleTask.pc = "idle"
    BY DEF IdleTask
  <2>2. \A v \in Users : v # u =>
            account'[v] = account[v] /\ latest'[v] = latest[v] /\ Sent(v)' = Sent(v)
    BY <1>1
  <2>3. ~At(t, "idle") /\ Turns(t, IdleTask)
    BY <1>1 DEF Turns
  <2>4. u \in Calm => Steady(u)
    BY <1>1 DEF Calm, Accounts
  <2> QED
    BY <2>1, <2>2, <2>3, <2>4, SomethingMoves
<1>3. u \in Users => (u \in Calm' <=> u \in Calm)
  BY <1>1 DEF Calm
<1>4. u \in Calm => \A s \in Tasks : ~About(s, u)'
  BY <1>2 DEF About, At, IdleTask
<1>5. ASSUME u \in Users
      PROVE  Steady(u)'
  <2> PICK sent : sent = Sent(u)
    OBVIOUS
  <2>1. u \in Calm => /\ Behind(account[u], sent, used) /\ mailed \notin used
                      /\ Follows(sent, own)
                      /\ u \notin cut => Posted(account[u], sent, own, mailed)
    BY <1>1, <1>2, <1>5, SteadyBusy
  <2>2. u \in Calm => Behind(row, sent, used)
    BY <1>5, <2>1 DEF Behind, Follows
  <2>3. u \in Calm /\ u \notin cut' => Ahead(row, sent, mailed)
    BY <1>5, <2>1 DEF Posted, Ahead
  <2>4. sent = Sent(u)' /\ used' = used /\ mailed = latest'[u]
    BY <1>1
  <2> QED
    BY <1>3, <1>4, <1>5, <2>1, <2>2, <2>3, <2>4, IdleSteady
<1>6. ASSUME NEW c \in Codes, u \in Users, HasCode(u, c)'
      PROVE  HasCode(u, c)
  <2>1. ASSUME NEW s \in Tasks, About(s, u)', c = task'[s].code
        PROVE  HasCode(u, c)
    <3>1. s # t /\ task \in [Tasks -> Task]
      BY <1>2, <2>1 DEF About, At, IdleTask, IndInv, TypeOK
    <3>2. About(s, u) /\ c = task[s].code
      BY <1>1, <1>2, <2>1, <3>1
    <3> QED
      BY <3>2 DEF HasCode
  <2>2. (c = latest[u] \/ c = account[u].remember_token \/ \E w \in Sent(u) : c = w.code)
          => HasCode(u, c)
    BY <1>6 DEF HasCode
  <2> QED
    BY <1>1, <1>6, <2>1, <2>2 DEF HasCode
<1>7. Counted
  BY <1>1, FreshIsNew DEF Counted
<1> QED
  BY <1>2, <1>3, <1>5, <1>6, <1>7, Confined DEF Aside, Counted

\* The same when the tables are left alone.
LEMMA EndCalm ==
    ASSUME IndInv, CalmInv, NEW t \in Tasks, ~At(t, "idle"), Returns(t),
           UNCHANGED <<account, writes, generated, latest, used>>, cut \subseteq cut',
           task[t].pc \in {"mailing", "congratulating"} => task[t].user \in cut'
    PROVE  CalmInv'
<1> PICK own : own = task[t]
  OBVIOUS
<1> PICK u : u = own.user
  OBVIOUS
<1>1. Right(own) /\ OwnerInv
  BY Held, CalmParts
<1>2. u \in Users => u \in Accounts /\ u \in Accounts'
  BY <1>1, AccountAssumption DEF Right, Accounts
<1>3. OwnerInv'
  BY <1>1 DEF OwnerInv, Accounts
<1> QED
  BY <1>2, <1>3, DoneCalm DEF At

LEMMA AnswerCalm ==
    ASSUME IndInv, CalmInv, NEW t \in Tasks, Answer(t)
    PROVE  CalmInv'
BY EndCalm DEF Answer, At

LEMMA RefusedCalm ==
    ASSUME IndInv, CalmInv, NEW t \in Tasks, Refused(t)
    PROVE  CalmInv'
<1>1. task[t].pc \in {"savingRole", "addingRole", "inserting", "savingProfile"}
  BY DEF Refused, At
<1> QED
  BY <1>1, EndCalm DEF Refused, At

LEMMA ReportConfirmationCalm ==
    ASSUME IndInv, CalmInv, NEW t \in Tasks, ReportConfirmation(t)
    PROVE  CalmInv'
BY EndCalm DEF ReportConfirmation, At

LEMMA FailsCalm ==
    ASSUME IndInv, CalmInv, NEW t \in Tasks, Fails(t)
    PROVE  CalmInv'
<1>1. task[t].pc \in {"mailing", "congratulating"} => task[t].user \in cut'
  BY Subject DEF Fails
<1> QED
  BY <1>1, EndCalm DEF Fails, At

LEMMA ChangePasswordCalm ==
    ASSUME IndInv, CalmInv, NEW t \in Tasks, ChangePassword(t)
    PROVE  CalmInv'
<1>1. PICK own : own = task[t]
  OBVIOUS
<1>2. PICK u : u = own.user
  OBVIOUS
<1>3. /\ own.pc = "changingPassword" /\ u \in Accounts /\ u \in Users
      /\ account[u] \in Account /\ account \in [Users -> Account \cup {Null}]
  BY <1>1, <1>2, UnderWay DEF ChangePassword, At
<1>4. PICK row : row = [account[u] EXCEPT !.password = own.password]
  OBVIOUS
<1>5. account' = [account EXCEPT ![u] = row]
  BY <1>1, <1>2, <1>3, <1>4 DEF ChangePassword
<1>6. row.email = account[u].email /\ row.remember_token = account[u].remember_token
  BY <1>3, <1>4 DEF Account
<1>7. account'[u] = row /\ \A v \in Users : v # u => account'[v] = account[v]
  BY <1>3, <1>5
<1>8. u \in Accounts' /\ Accounts' = Accounts
  <2>1. u \in Accounts'
    BY <1>3, ChangePasswordKeeps DEF Grows
  <2> QED
    BY <1>3, <1>7, <2>1 DEF Accounts
<1>9. OwnerInv'
  BY <1>6, <1>7, <1>8, CalmParts, SameRowsSameOwners
<1>10. Returns(t) /\ UNCHANGED <<writes, generated, latest, used, cut>>
  BY DEF ChangePassword
<1> QED
  BY <1>1, <1>2, <1>3, <1>6, <1>7, <1>8, <1>9, <1>10, DoneCalm

LEMMA SaveProfileCalm ==
    ASSUME IndInv, CalmInv, NEW t \in Tasks, SaveProfile(t)
    PROVE  CalmInv'
<1>1. PICK own : own = task[t]
  OBVIOUS
<1>2. PICK u : u = own.user
  OBVIOUS
<1>3. /\ own.pc = "savingProfile" /\ u \in Accounts /\ u \in Users
      /\ account[u] \in Account /\ account \in [Users -> Account \cup {Null}]
  BY <1>1, <1>2, UnderWay DEF SaveProfile, At
<1>4. PICK row : row = SavedProfile(u, own.row)
  OBVIOUS
<1>5. account' = [account EXCEPT ![u] = row] /\ Owners(own.row.email) \subseteq {u}
  BY <1>1, <1>2, <1>4 DEF SaveProfile
<1>6. row.email = own.row.email /\ row.remember_token = account[u].remember_token
  BY <1>3, <1>4 DEF Account, SavedProfile
<1>7. account'[u] = row /\ \A v \in Users : v # u => account'[v] = account[v]
  BY <1>3, <1>5
<1>8. u \in Accounts' /\ Accounts' = Accounts
  <2>1. u \in Accounts'
    BY <1>3, SaveProfileKeeps DEF Grows
  <2> QED
    BY <1>3, <1>7, <2>1 DEF Accounts
<1>9. OwnerInv'
  <2> SUFFICES ASSUME NEW v \in Accounts, NEW w \in Accounts,
                      account'[v].email = account'[w].email, v # w
               PROVE  FALSE
    BY <1>8 DEF OwnerInv
  <2>1. v \in Users /\ w \in Users
    BY DEF Accounts
  <2>2. CASE v = u
    BY <1>5, <1>6, <1>7, <2>1, <2>2 DEF Owners
  <2>3. CASE w = u
    BY <1>5, <1>6, <1>7, <2>1, <2>3 DEF Owners
  <2>4. CASE v # u /\ w # u
    BY <1>7, <2>1, <2>4, CalmParts DEF OwnerInv
  <2> QED
    BY <2>2, <2>3, <2>4
<1>10. Returns(t) /\ UNCHANGED <<writes, generated, latest, used, cut>>
  BY DEF SaveProfile
<1> QED
  BY <1>1, <1>2, <1>3, <1>6, <1>7, <1>8, <1>9, <1>10, DoneCalm

LEMMA MailCodeCalm ==
    ASSUME IndInv, CalmInv, NEW t \in Tasks, MailCode(t)
    PROVE  CalmInv'
<1>1. PICK own : own = task[t]
  OBVIOUS
<1>2. PICK u : u = own.user
  OBVIOUS
<1>3. /\ own \in Task /\ own.pc = "mailing" /\ u \in Accounts /\ u \in Users
      /\ ~At(t, "idle") /\ OwnerInv /\ CodeInv /\ Steady(u) /\ TypeOK
      /\ task \in [Tasks -> Task]
  BY <1>1, <1>2, UnderWay, CalmParts DEF MailCode, At, IndInv
<1>4. /\ task' = [task EXCEPT ![t] = IdleTask] /\ latest' = [latest EXCEPT ![u] = own.code]
      /\ UNCHANGED <<account, writes, generated, used, cut, raced>>
  BY <1>1, <1>2 DEF MailCode, Returns, Goto
<1>5. latest'[u] = own.code /\ \A v \in Users : v # u => latest'[v] = latest[v]
  BY <1>3, <1>4 DEF TypeOK
<1>6. \A v : Sent(v)' = Sent(v)
  BY <1>4 DEF Sent
<1>7. /\ task'[t] = IdleTask
      /\ \A v \in Users : v # u => Untouched(v)
      /\ \A s \in Tasks : s # t /\ About(s, u)' => About(s, u)
      /\ u \in Calm => \A s \in Tasks : About(s, u)' => s = t
      /\ About(t, u)
  <2>1. Turns(t, IdleTask) /\ IdleTask.pc = "idle" /\ u = task[t].user
    BY <1>1, <1>2, <1>4 DEF Turns, IdleTask
  <2>2. \A v \in Users : v # u =>
            account'[v] = account[v] /\ latest'[v] = latest[v] /\ Sent(v)' = Sent(v)
    BY <1>4, <1>5, <1>6
  <2> QED
    BY <1>3, <2>1, <2>2, SomethingMoves
<1>8. u \in Calm' <=> u \in Calm
  BY <1>4 DEF Calm, Accounts
<1>9. Steady(u)'
  <2>1. u \in Calm => /\ Behind(account[u], Sent(u), used)
                      /\ own.code \notin used
                      /\ u \notin cut => Posted(account[u], Sent(u), own, latest[u])
    BY <1>1, <1>3, <1>7, SteadyBusy
  <2>2. u \in Calm /\ u \notin cut => Ahead(account[u], Sent(u), own.code)
    BY <1>3, <2>1 DEF Posted
  <2>3. u \in Calm => \A s \in Tasks : ~About(s, u)'
    BY <1>7 DEF About, At, IdleTask
  <2>4. PICK sent : sent = Sent(u)
    OBVIOUS
  <2>5. PICK row : row = account[u]
    OBVIOUS
  <2>6. PICK code : code = own.code
    OBVIOUS
  <2>7. row = account'[u] /\ sent = Sent(u)' /\ used' = used /\ code = latest'[u] /\ cut' = cut
    BY <1>4, <1>5, <1>6, <2>4, <2>5, <2>6
  <2>8. u \in Calm' => /\ \A s \in Tasks : ~About(s, u)'
                       /\ Behind(row, sent, used) /\ code \notin used
                       /\ u \notin cut' => Ahead(row, sent, code)
    BY <1>8, <2>1, <2>2, <2>3, <2>4, <2>5, <2>6, <2>7
  <2> QED
    BY <2>7, <2>8, IdleSteady
<1>10. ASSUME NEW c \in Codes, HasCode(u, c)'
       PROVE  HasCode(u, c)
  <2>1. ASSUME NEW s \in Tasks, About(s, u)', c = task'[s].code
        PROVE  HasCode(u, c)
    <3>1. s # t
      BY <1>7, <2>1 DEF About, At, IdleTask
    <3>2. About(s, u) /\ c = task[s].code
      BY <1>3, <1>4, <1>7, <2>1, <3>1
    <3> QED
      BY <3>2 DEF HasCode
  <2>2. (c = own.code \/ c = account[u].remember_token \/ \E w \in Sent(u) : c = w.code)
          => HasCode(u, c)
    BY <1>1, <1>3, <1>7 DEF HasCode
  <2> QED
    BY <1>4, <1>5, <1>6, <1>10, <2>1, <2>2 DEF HasCode
<1>11. OwnerInv'
  BY <1>3, <1>4 DEF OwnerInv, Accounts
<1>12. Counted /\ used' = used
  BY <1>3, <1>4, FreshIsNew DEF Counted
<1> QED
  BY <1>7, <1>8, <1>9, <1>10, <1>11, <1>12, Confined DEF Aside, Counted

LEMMA ReportResetCalm ==
    ASSUME IndInv, CalmInv, NEW t \in Tasks, ReportReset(t)
    PROVE  CalmInv'
<1>1. PICK own : own = task[t]
  OBVIOUS
<1>2. PICK u : u = own.user
  OBVIOUS
<1>3. /\ own \in Task /\ own.pc = "congratulating" /\ u \in Accounts /\ u \in Users
      /\ ~At(t, "idle") /\ OwnerInv /\ CodeInv /\ Steady(u) /\ task \in [Tasks -> Task]
  BY <1>1, <1>2, UnderWay, CalmParts DEF ReportReset, At, IndInv
<1>4. PICK write : write = [kind |-> "clear", user |-> u, email |-> Null, code |-> NoCode]
  OBVIOUS
<1>5. /\ task' = [task EXCEPT ![t] = IdleTask] /\ writes' = writes \cup {write}
      /\ UNCHANGED <<account, generated, latest, used, cut, raced>>
  BY <1>1, <1>2, <1>4 DEF ReportReset, Clearing, Returns, Goto
<1>6. /\ Sent(u)' = Sent(u) \cup {write}
      /\ \A v \in Users : v # u => Sent(v)' = Sent(v)
  BY <1>4, <1>5 DEF Sent
<1>7. /\ task'[t] = IdleTask
      /\ \A v \in Users : v # u => Untouched(v)
      /\ \A s \in Tasks : s # t /\ About(s, u)' => About(s, u)
      /\ u \in Calm => \A s \in Tasks : About(s, u)' => s = t
      /\ About(t, u)
  <2>1. Turns(t, IdleTask) /\ IdleTask.pc = "idle" /\ u = task[t].user
    BY <1>1, <1>2, <1>5 DEF Turns, IdleTask
  <2>2. \A v \in Users : v # u =>
            account'[v] = account[v] /\ latest'[v] = latest[v] /\ Sent(v)' = Sent(v)
    BY <1>5, <1>6
  <2> QED
    BY <1>3, <2>1, <2>2, SomethingMoves
<1>8. u \in Calm' <=> u \in Calm
  BY <1>5 DEF Calm, Accounts
<1>9. Steady(u)'
  <2>1. u \in Calm => /\ Follows(Sent(u), own) /\ latest[u] \notin used
                      /\ u \notin cut => Posted(account[u], Sent(u), own, latest[u])
    BY <1>1, <1>3, <1>7, SteadyBusy
  <2>2. PICK sent : sent = Sent(u)'
    OBVIOUS
  <2>3. PICK row : row = account[u]
    OBVIOUS
  <2>4. PICK mailed : mailed = latest[u]
    OBVIOUS
  <2>5. u \in Calm => sent = {write} /\ mailed \notin used /\ (u \notin cut => mailed = NoCode)
    BY <1>3, <1>6, <2>1, <2>2, <2>4 DEF Follows, Posted
  <2>6. write.kind = "clear" /\ write.code = NoCode /\ NoCode \notin used
    BY <1>3, <1>4, FreshIsNew
  <2>7. u \in Calm => /\ Behind(row, sent, used)
                      /\ u \notin cut => Ahead(row, sent, mailed)
    BY <2>5, <2>6 DEF Behind, Ahead
  <2>8. u \in Calm => \A s \in Tasks : ~About(s, u)'
    BY <1>7 DEF About, At, IdleTask
  <2>9. row = account'[u] /\ used' = used /\ mailed = latest'[u] /\ cut' = cut
    BY <1>5, <2>3, <2>4
  <2> QED
    BY <1>8, <2>2, <2>5, <2>7, <2>8, <2>9, IdleSteady
<1>10. ASSUME NEW c \in Codes, HasCode(u, c)'
       PROVE  HasCode(u, c)
  <2>1. ASSUME NEW s \in Tasks, About(s, u)', c = task'[s].code
        PROVE  HasCode(u, c)
    <3>1. s # t
      BY <1>7, <2>1 DEF About, At, IdleTask
    <3>2. About(s, u) /\ c = task[s].code
      BY <1>3, <1>5, <1>7, <2>1, <3>1
    <3> QED
      BY <3>2 DEF HasCode
  <2>2. (c = latest[u] \/ c = account[u].remember_token \/ \E w \in Sent(u) : c = w.code)
          => HasCode(u, c)
    BY <1>3 DEF HasCode
  <2>3. c # write.code
    BY <1>4 DEF Codes, NoCode
  <2> QED
    BY <1>5, <1>6, <1>10, <2>1, <2>2, <2>3 DEF HasCode
<1>11. OwnerInv'
  BY <1>3, <1>5 DEF OwnerInv, Accounts
<1>12. Counted /\ used' = used
  BY <1>3, <1>5, FreshIsNew DEF Counted
<1> QED
  BY <1>7, <1>8, <1>9, <1>10, <1>11, <1>12, Confined DEF Aside, Counted

LEMMA SavePasswordCalm ==
    ASSUME IndInv, CalmInv, NEW t \in Tasks, SavePassword(t)
    PROVE  CalmInv'
<1>1. PICK own : own = task[t]
  OBVIOUS
<1>2. PICK u : u = own.user
  OBVIOUS
<1>3. /\ own \in Task /\ own.pc = "resetting" /\ u \in Accounts /\ u \in Users
      /\ ~At(t, "idle") /\ OwnerInv /\ CodeInv /\ Steady(u) /\ TypeOK
      /\ task \in [Tasks -> Task] /\ own.code \in Codes
      /\ account[u] \in Account /\ account \in [Users -> Account \cup {Null}]
  <2>1. Right(own) /\ own \in Task /\ own.pc = "resetting"
    BY <1>1, UnderWay DEF SavePassword, At
  <2> QED
    BY <1>1, <1>2, <2>1, UnderWay, CalmParts DEF SavePassword, At, IndInv, Right, Task
<1>4. PICK row : row = [account[u] EXCEPT !.password = own.password]
  OBVIOUS
<1>5. PICK local : local = [IdleTask EXCEPT !.pc = "congratulating", !.user = u]
  OBVIOUS
<1>6. PICK now : now = IF latest[u] = own.code THEN NoCode ELSE latest[u]
  OBVIOUS
<1>7. PICK codes : codes = used \cup {own.code}
  OBVIOUS
<1>8. /\ task' = [task EXCEPT ![t] = local] /\ account' = [account EXCEPT ![u] = row]
      /\ used' = codes /\ latest' = [latest EXCEPT ![u] = now]
      /\ UNCHANGED <<writes, generated, cut, raced>>
  BY <1>1, <1>2, <1>3, <1>4, <1>5, <1>6, <1>7 DEF SavePassword, Goto, Unsent
<1>9. /\ latest'[u] = now /\ account'[u] = row
      /\ \A v \in Users : v # u => latest'[v] = latest[v] /\ account'[v] = account[v]
  BY <1>3, <1>8 DEF TypeOK
<1>10. /\ row.email = account[u].email /\ row.remember_token = account[u].remember_token
       /\ \A v : Sent(v)' = Sent(v)
  BY <1>3, <1>4, <1>8 DEF Account, Sent
<1>11. local.user = u /\ local.pc = "congratulating" /\ local.code = NoCode
  BY <1>5 DEF IdleTask
<1>12. /\ task'[t] = local
       /\ \A v \in Users : v # u => Untouched(v)
       /\ \A s \in Tasks : s # t /\ About(s, u)' => About(s, u)
       /\ u \in Calm => \A s \in Tasks : About(s, u)' => s = t
       /\ About(t, u)
  <2>1. Turns(t, local) /\ u = task[t].user
    BY <1>1, <1>2, <1>8 DEF Turns
  <2>2. \A v \in Users : v # u =>
            account'[v] = account[v] /\ latest'[v] = latest[v] /\ Sent(v)' = Sent(v)
    BY <1>9, <1>10
  <2> QED
    BY <1>3, <1>11, <2>1, <2>2, SomethingMoves
<1>13. u \in Accounts' /\ Accounts' = Accounts /\ (u \in Calm' <=> u \in Calm)
  <2>1. u \in Accounts'
    BY <1>3, SavePasswordKeeps DEF Grows
  <2>2. Accounts' = Accounts
    BY <1>3, <1>9, <2>1 DEF Accounts
  <2> QED
    BY <1>8, <2>1, <2>2 DEF Calm
<1>14. Steady(u)'
  <2>1. u \in Calm => /\ Follows(Sent(u), own) /\ latest[u] \notin used
                      /\ u \notin cut => Posted(account[u], Sent(u), own, latest[u])
    BY <1>1, <1>3, <1>12, SteadyBusy
  <2>2. NoCode \notin codes
    BY <1>3, <1>7, FreshIsNew DEF Codes, NoCode
  <2>3. u \in Calm => Sent(u) = {} /\ now \notin codes /\ (u \notin cut => now = NoCode)
    BY <1>3, <1>6, <1>7, <2>1, <2>2 DEF Follows, Posted
  <2>4. PICK sent : sent = Sent(u)
    OBVIOUS
  <2>5. u \in Calm => /\ Behind(row, sent, codes) /\ Follows(sent, local)
                      /\ u \notin cut => Posted(row, sent, local, now)
    BY <1>11, <2>3, <2>4 DEF Behind, Follows, Posted
  <2>6. SoFar(row, local)
    BY <1>11 DEF SoFar
  <2>7. /\ row = account'[u] /\ sent = Sent(u)' /\ codes = used' /\ now = latest'[u]
        /\ cut' = cut /\ local = task'[t]
    BY <1>8, <1>9, <1>10, <1>12, <2>4
  <2> QED
    BY <1>11, <1>12, <1>13, <2>3, <2>5, <2>6, <2>7, BusySteady
<1>15. ASSUME NEW c \in Codes, HasCode(u, c)'
       PROVE  HasCode(u, c)
  <2>1. c # NoCode
    BY DEF Codes, NoCode
  <2>2. ASSUME NEW s \in Tasks, About(s, u)', c = task'[s].code
        PROVE  HasCode(u, c)
    <3>1. s # t
      BY <1>11, <1>12, <2>1, <2>2
    <3>2. About(s, u) /\ c = task[s].code
      BY <1>3, <1>8, <1>12, <2>2, <3>1
    <3> QED
      BY <3>2 DEF HasCode
  <2>3. (c = latest[u] \/ c = account[u].remember_token \/ \E w \in Sent(u) : c = w.code)
          => HasCode(u, c)
    BY <1>3 DEF HasCode
  <2>4. c = latest'[u] => c = latest[u]
    BY <1>6, <1>9, <2>1
  <2> QED
    BY <1>9, <1>10, <1>15, <2>2, <2>3, <2>4 DEF HasCode
<1>16. OwnerInv'
  BY <1>3, <1>9, <1>10, <1>13, SameRowsSameOwners
<1>17. Counted
  BY <1>3, <1>7, <1>8, FreshIsNew DEF Counted
<1>18. \A c \in used' : c \in used \/ HasCode(u, c)
  BY <1>1, <1>7, <1>8, <1>12 DEF HasCode
<1> QED
  BY <1>3, <1>12, <1>13, <1>14, <1>15, <1>16, <1>17, <1>18, Confined DEF Aside, Counted

\* Storing a code, and what it does to the accounts that share the address.
LEMMA StoredRows ==
    ASSUME IndInv, NEW email \in Emails, NEW code \in Codes \cup {NoCode},
           account' = CodeStored(email, code)
    PROVE  /\ Accounts' = Accounts
           /\ \A v \in Accounts : /\ account'[v].email = account[v].email
                                  /\ account'[v].suspended = account[v].suspended
                                  /\ account'[v].verified = account[v].verified
                                  /\ account'[v].user_type = account[v].user_type
           /\ \A v \in Owners(email) : account'[v].remember_token = code
           /\ \A v \in Users : v \notin Owners(email) => account'[v] = account[v]
<1>1. account \in [Users -> Account \cup {Null}]
  BY DEF IndInv, TypeOK
<1>2. \A v \in Users : account'[v] = IF v \in Owners(email)
                                     THEN [account[v] EXCEPT !.remember_token = code]
                                     ELSE account[v]
  BY DEF CodeStored
<1>3. ASSUME NEW v \in Accounts
      PROVE  /\ v \in Users /\ account[v] \in Account
             /\ account'[v].email = account[v].email
             /\ account'[v].suspended = account[v].suspended
             /\ account'[v].verified = account[v].verified
             /\ account'[v].user_type = account[v].user_type
             /\ v \in Owners(email) => account'[v].remember_token = code
  <2>1. v \in Users /\ account[v] \in Account
    BY <1>1 DEF Accounts
  <2> QED
    BY <1>2, <2>1 DEF Account
<1>4. Owners(email) \subseteq Accounts
  BY DEF Owners
<1>5. Accounts' = Accounts
  <2>1. \A v \in Accounts : v \in Accounts'
    <3> SUFFICES ASSUME NEW v \in Accounts
                 PROVE  account'[v] # Null
      BY <1>3 DEF Accounts
    <3>1. [account[v] EXCEPT !.remember_token = code] \in Account
      BY <1>3 DEF Account
    <3>2. [account[v] EXCEPT !.remember_token = code] # Null /\ account[v] # Null
      BY <1>3, <3>1, AccountAssumption
    <3> QED
      BY <1>2, <1>3, <3>2
  <2> QED
    BY <1>2, <1>4, <2>1 DEF Accounts
<1> QED
  BY <1>2, <1>3, <1>4, <1>5

\* The updates and the requests of other accounts than x are what they were.
Only(x) == \A v \in Users : v # x =>
    /\ Sent(v)' = Sent(v)
    /\ \A s \in Tasks : About(s, v) \/ About(s, v)' => task'[s] = task[s]

LEMMA StoredAside ==
    ASSUME IndInv, CalmInv, NEW x \in Users, NEW email \in Emails,
           NEW code \in Codes \cup {NoCode}, account' = CodeStored(email, code),
           latest' = latest, raced' = raced \cup (Owners(email) \ {x}), Only(x),
           x \in Calm => account[x].email = email, HasCode(x, code)
    PROVE  /\ \A v \in Users : v # x => Aside(x, v)
           /\ OwnerInv'
           /\ raced \subseteq raced' /\ (x \in Calm' <=> x \in Calm)
           /\ x \in Calm => /\ account'[x].remember_token = code
                            /\ account'[x].email = account[x].email
<1>1. /\ Accounts' = Accounts
      /\ \A v \in Accounts : account'[v].email = account[v].email
      /\ \A v \in Owners(email) : account'[v].remember_token = code
      /\ \A v \in Users : v \notin Owners(email) => account'[v] = account[v]
  BY StoredRows
<1>2. OwnerInv'
  BY <1>1, CalmParts, SameRowsSameOwners
<1>3. raced \subseteq raced' /\ (x \in Calm' <=> x \in Calm)
  BY <1>1 DEF Calm
<1>4. x \in Calm => /\ account'[x].remember_token = code
                    /\ account'[x].email = account[x].email
  BY <1>1 DEF Calm, Owners
<1>5. ASSUME NEW v \in Users, v # x
      PROVE  Aside(x, v)
  <2>1. CASE v \notin Owners(email)
    BY <1>1, <1>5, <2>1 DEF Aside, Untouched, Only
  <2>2. CASE v \in Owners(email)
    <3>1. x \notin Calm'
      BY <1>3, <1>5, <2>2, CalmParts DEF OwnerInv, Calm, Owners
    <3>2. v \in raced' /\ v \in Accounts
      BY <1>5, <2>2 DEF Owners
    <3>3. ASSUME NEW c \in Codes, HasCode(v, c)'
          PROVE  HasCode(v, c) \/ HasCode(x, c)
      <4>1. ASSUME NEW s \in Tasks, About(s, v)', c = task'[s].code
            PROVE  HasCode(v, c)
        <5>1. task'[s] = task[s]
          BY <1>5, <4>1 DEF Only
        <5> QED
          BY <4>1, <5>1 DEF HasCode, About, At
      <4>2. c = account'[v].remember_token => c = code
        BY <1>1, <2>2
      <4>3. c = latest'[v] => HasCode(v, c)
        BY DEF HasCode
      <4>4. (\E w \in Sent(v)' : c = w.code) => HasCode(v, c)
        BY <1>5 DEF HasCode, Only
      <4> QED
        BY <3>3, <4>1, <4>2, <4>3, <4>4 DEF HasCode
    <3> QED
      BY <3>1, <3>2, <3>3 DEF Aside
  <2> QED
    BY <2>1, <2>2
<1> QED
  BY <1>2, <1>3, <1>4, <1>5

LEMMA StoreCodeCalm ==
    ASSUME IndInv, CalmInv, NEW t \in Tasks, StoreCode(t)
    PROVE  CalmInv'
<1>1. PICK own : own = task[t]
  OBVIOUS
<1>2. PICK u : u = own.user
  OBVIOUS
<1>3. /\ own \in Task /\ own.pc = "storingCode" /\ u \in Accounts /\ u \in Users
      /\ ~At(t, "idle") /\ OwnerInv /\ CodeInv /\ Steady(u) /\ TypeOK
      /\ task \in [Tasks -> Task] /\ own.email \in Emails
      /\ own.code \in Codes \cup {NoCode}
  <2>1. Right(own) /\ own \in Task /\ own.pc = "storingCode"
    BY <1>1, UnderWay DEF StoreCode, At
  <2> QED
    BY <1>1, <1>2, <2>1, UnderWay, CalmParts DEF StoreCode, At, IndInv, Right, Task
<1>4. PICK local : local = [own EXCEPT !.pc = "mailing", !.email = Null]
  OBVIOUS
<1>5. /\ account' = CodeStored(own.email, own.code)
      /\ task' = [task EXCEPT ![t] = local]
      /\ raced' = raced \cup (Owners(own.email) \ {u})
      /\ UNCHANGED <<writes, generated, latest, used, cut>>
  BY <1>1, <1>2, <1>3, <1>4 DEF StoreCode
<1>6. local.user = u /\ local.pc = "mailing" /\ local.code = own.code
  BY <1>2, <1>3, <1>4 DEF Task
<1>7. About(t, u) /\ \A v : Sent(v)' = Sent(v)
  BY <1>1, <1>2, <1>3, <1>5 DEF About, Sent
<1>8. task'[t] = local /\ \A s \in Tasks : s # t => task'[s] = task[s]
  BY <1>3, <1>5
<1>9. Only(u)
  <2>1. ASSUME NEW v \in Users, v # u, NEW s \in Tasks, About(s, v) \/ About(s, v)'
        PROVE  task'[s] = task[s]
    <3>1. s # t
      BY <1>6, <1>7, <1>8, <2>1 DEF About
    <3> QED
      BY <1>8, <3>1
  <2> QED
    BY <1>7, <2>1 DEF Only
<1>10. u \in Calm => /\ own.code \notin used /\ latest[u] \notin used /\ Sent(u) = {}
                     /\ account[u].email = own.email
                     /\ \A s \in Tasks : About(s, u) => s = t
  <2>1. u \in Calm => /\ own.pc \in {"mailing", "storingCode"} => own.code \notin used
                      /\ latest[u] \notin used
                      /\ Follows(Sent(u), own) /\ SoFar(account[u], own)
                      /\ \A s \in Tasks : About(s, u) => s = t
    BY <1>1, <1>3, <1>7, SteadyBusy
  <2> QED
    BY <1>3, <2>1 DEF Follows, SoFar
<1>11. HasCode(u, own.code)
  BY <1>1, <1>7 DEF HasCode
<1>12. /\ \A v \in Users : v # u => Aside(u, v)
       /\ OwnerInv'
       /\ raced \subseteq raced' /\ (u \in Calm' <=> u \in Calm)
       /\ u \in Calm => /\ account'[u].remember_token = own.code
                        /\ account'[u].email = account[u].email
  BY <1>3, <1>5, <1>9, <1>10, <1>11, StoredAside
<1>13. Steady(u)'
  <2>1. PICK row : row = account'[u]
    OBVIOUS
  <2>2. PICK mailed : mailed = latest[u]
    OBVIOUS
  <2>3. u \in Calm => /\ Behind(row, {}, used) /\ Follows({}, local)
                      /\ Posted(row, {}, local, mailed)
    BY <1>6, <1>12, <2>1 DEF Behind, Follows, Posted, Ahead
  <2>4. SoFar(row, local)
    BY <1>6 DEF SoFar
  <2>5. PICK sent : sent = Sent(u)
    OBVIOUS
  <2>6. sent = Sent(u)' /\ used' = used /\ mailed = latest'[u] /\ local = task'[t]
    BY <1>5, <1>7, <1>8, <2>2, <2>5
  <2>7. u \in Calm => \A s \in Tasks : About(s, u)' => s = t
    BY <1>8, <1>10 DEF About, At
  <2>8. u \in Calm' => /\ \A s \in Tasks : About(s, u)' => s = t
                       /\ Behind(row, sent, used) /\ mailed \notin used
                       /\ SoFar(row, local) /\ Follows(sent, local)
                       /\ local.code \notin used
                       /\ Posted(row, sent, local, mailed)
    BY <1>6, <1>10, <1>12, <2>2, <2>3, <2>4, <2>5, <2>7
  <2> QED
    BY <1>6, <2>1, <2>6, <2>8, BusySteady
<1>14. ASSUME NEW c \in Codes, HasCode(u, c)'
       PROVE  HasCode(u, c)
  <2>1. ASSUME NEW s \in Tasks, About(s, u)', c = task'[s].code
        PROVE  HasCode(u, c)
    <3>1. CASE s = t
      BY <1>6, <1>8, <1>11, <2>1, <3>1
    <3>2. CASE s # t
      BY <1>8, <2>1, <3>2 DEF HasCode, About, At
    <3> QED
      BY <3>1, <3>2
  <2>2. c = account'[u].remember_token => HasCode(u, c)
    <3>1. CASE u \in Owners(own.email)
      BY <1>3, <1>5, <1>11, <3>1, StoredRows
    <3>2. CASE u \notin Owners(own.email)
      BY <1>3, <1>5, <3>2, StoredRows DEF HasCode
    <3> QED
      BY <3>1, <3>2
  <2>3. (c = latest[u] \/ \E w \in Sent(u) : c = w.code) => HasCode(u, c)
    BY DEF HasCode
  <2> QED
    BY <1>5, <1>7, <1>14, <2>1, <2>2, <2>3 DEF HasCode
<1>15. Counted /\ used' = used
  BY <1>3, <1>5, <1>12, FreshIsNew DEF Counted
<1> QED
  BY <1>12, <1>13, <1>14, <1>15, Confined DEF Counted

-----------------------------------------------------------------------------
(* Updates that land. *)

LEMMA LandSteady ==
    ASSUME IndInv, CalmInv, NEW w \in writes, Land(w), w.user \in Accounts,
           LET row == account'[w.user]
           IN  w.user \in Calm => /\ row.email = account[w.user].email
                                  /\ row.remember_token = IF w.kind = "code" THEN w.code ELSE NoCode,
           w.user \in Calm' => w.user \in Calm
    PROVE  Steady(w.user)'
<1>1. PICK u : u = w.user
  OBVIOUS
<1>2. PICK row : row = account'[u]
  OBVIOUS
<1>3. PICK old : old = account[u]
  OBVIOUS
<1>4. PICK mailed : mailed = latest[u]
  OBVIOUS
<1>5. PICK sent : sent = Sent(u)'
  OBVIOUS
<1>6. /\ Steady(u) /\ w \in Sent(u) /\ sent = Sent(u) \ {w}
      /\ used' = used /\ mailed = latest'[u] /\ cut' = cut /\ task' = task
  BY <1>1, <1>4, <1>5, CalmParts DEF Accounts, Land, Sent
<1>7. \A s \in Tasks : About(s, u)' <=> About(s, u)
  BY <1>6 DEF About, At
<1>8. u \in Calm => /\ row.email = old.email
                    /\ row.remember_token = IF w.kind = "code" THEN w.code ELSE NoCode
  BY <1>1, <1>2, <1>3
<1>9. CASE \A t \in Tasks : ~About(t, u)
  <2>1. u \in Calm => /\ Behind(old, Sent(u), used) /\ mailed \notin used
                      /\ u \notin cut => Ahead(old, Sent(u), mailed)
    BY <1>3, <1>4, <1>6, <1>9, SteadyIdle
  <2>2. u \in Calm => sent = {}
    BY <1>6, <2>1 DEF Behind
  <2>3. u \in Calm => /\ Behind(row, sent, used)
                      /\ u \notin cut => Ahead(row, sent, mailed)
    BY <1>6, <1>8, <2>1, <2>2 DEF Behind, Ahead
  <2> QED
    BY <1>1, <1>2, <1>5, <1>6, <1>7, <1>9, <2>1, <2>3, IdleSteady
<1>10. ASSUME NEW t \in Tasks, About(t, u)
       PROVE  Steady(u)'
  <2>1. PICK local : local = task[t]
    OBVIOUS
  <2>2. local = task'[t] /\ local.user = u /\ local.pc # "idle"
    BY <1>6, <1>10, <2>1 DEF About, At
  <2>3. u \in Calm => /\ \A s \in Tasks : About(s, u) => s = t
                      /\ Behind(old, Sent(u), used) /\ mailed \notin used
                      /\ Follows(Sent(u), local)
                      /\ local.pc \in {"mailing", "storingCode"} => local.code \notin used
                      /\ u \notin cut => Posted(old, Sent(u), local, mailed)
    BY <1>3, <1>4, <1>6, <1>10, <2>1, SteadyBusy
  <2>4. u \in Calm => sent = {}
    BY <1>6, <2>3 DEF Behind
  <2>5. u \in Calm => \/ local.pc = "mailing" /\ w.kind = "code" /\ w.code = local.code
                      \/ local.pc = "reporting" /\ w.kind = "confirm"
    BY <1>6, <2>3 DEF Follows
  <2>6. u \in Calm => SoFar(row, local)
    BY <2>5 DEF SoFar
  <2>7. u \in Calm => Behind(row, sent, used) /\ Follows(sent, local)
    BY <2>4 DEF Behind, Follows
  <2>8. u \in Calm /\ u \notin cut => Posted(row, sent, local, mailed)
    BY <1>6, <1>8, <2>3, <2>4, <2>5 DEF Posted, Ahead
  <2> QED
    BY <1>1, <1>2, <1>5, <1>6, <1>7, <2>2, <2>3, <2>6, <2>7, <2>8, BusySteady
<1> QED
  BY <1>1, <1>9, <1>10

LEMMA LandCalm ==
    ASSUME IndInv, CalmInv, WriteInv, NEW w \in writes, Land(w)
    PROVE  CalmInv'
<1>1. PICK u : u = w.user
  OBVIOUS
<1>2. /\ w \in Write /\ u \in Users /\ u \in Accounts /\ w.code \in Codes \cup {NoCode}
      /\ w.kind \in {"code", "clear", "confirm"} /\ (w.kind = "code" => w.email \in Emails)
      /\ TypeOK /\ OwnerInv /\ CodeInv
      /\ account[u] \in Account /\ account \in [Users -> Account \cup {Null}]
  <2>1. w \in Write
    BY DEF IndInv, TypeOK
  <2> QED
    BY <1>1, <2>1, CalmParts DEF Write, WriteInv, IndInv, TypeOK, Accounts
<1>3. /\ account' = Landed(w)
      /\ raced' = raced \cup (IF w.kind = "code" THEN Owners(w.email) \ {u} ELSE {})
      /\ writes' = writes \ {w}
      /\ UNCHANGED <<roles, task, generated, begun, latest, used, cut>>
  BY <1>1 DEF Land
<1>4. /\ Sent(u)' \subseteq Sent(u) /\ w \in Sent(u)
      /\ \A v \in Users : v # u => Sent(v)' = Sent(v)
  BY <1>1, <1>3 DEF Sent
<1>5. Only(u) /\ \A s \in Tasks : About(s, u)' <=> About(s, u)
  BY <1>3, <1>4 DEF Only, About, At
<1>6. HasCode(u, w.code)
  BY <1>4 DEF HasCode
<1>7. PICK token : token = IF w.kind = "code" THEN w.code ELSE NoCode
  OBVIOUS
<1>8. /\ \A v \in Users : v # u => Aside(u, v)
      /\ OwnerInv'
      /\ raced \subseteq raced' /\ (u \in Calm' <=> u \in Calm)
      /\ u \in Calm => /\ account'[u].remember_token = token
                       /\ account'[u].email = account[u].email
      /\ u \in Accounts' => account'[u].remember_token \in {token, account[u].remember_token}
  <2>1. CASE w.kind = "code"
    <3>1. account' = CodeStored(w.email, w.code) /\ raced' = raced \cup (Owners(w.email) \ {u})
      BY <1>3, <2>1 DEF Landed
    <3>2. u \in Calm => account[u].email = w.email
      <4>1. u \in Calm => Behind(account[u], Sent(u), used)
        <5>1. Steady(u)
          BY <1>2, CalmParts
        <5> QED
          BY <5>1, SteadyIdle, SteadyBusy
      <4> QED
        BY <1>4, <2>1, <4>1 DEF Behind
    <3>3. /\ \A v \in Users : v # u => Aside(u, v)
          /\ OwnerInv'
          /\ raced \subseteq raced' /\ (u \in Calm' <=> u \in Calm)
          /\ u \in Calm => /\ account'[u].remember_token = w.code
                           /\ account'[u].email = account[u].email
      BY <1>2, <1>3, <1>5, <1>6, <2>1, <3>1, <3>2, StoredAside
    <3>4. account'[u].remember_token \in {w.code, account[u].remember_token}
      BY <1>2, <2>1, <3>1, StoredRows
    <3> QED
      BY <1>7, <2>1, <3>3, <3>4
  <2>2. CASE w.kind \in {"clear", "confirm"}
    <3>1. PICK row : row = IF w.kind = "clear"
                           THEN [account[u] EXCEPT !.remember_token = NoCode]
                           ELSE [account[u] EXCEPT !.remember_token = NoCode, !.verified = TRUE]
      OBVIOUS
    <3>2. account' = [account EXCEPT ![u] = row] /\ raced' = raced
      BY <1>1, <1>2, <1>3, <2>2, <3>1 DEF Landed
    <3>3. row \in Account /\ row.email = account[u].email /\ row.remember_token = NoCode
      BY <1>2, <3>1 DEF Account, NoCode
    <3>4. account'[u] = row /\ \A v \in Users : v # u => account'[v] = account[v]
      BY <1>2, <3>2
    <3>5. Accounts' = Accounts
      <4>1. row # Null
        BY <3>3, AccountAssumption
      <4> QED
        BY <1>2, <3>4, <4>1 DEF Accounts
    <3>6. OwnerInv'
      BY <1>2, <3>3, <3>4, <3>5, SameRowsSameOwners
    <3>7. \A v \in Users : v # u => Untouched(v)
      BY <1>3, <1>5, <3>4 DEF Only, Untouched
    <3> QED
      BY <1>7, <2>2, <3>2, <3>3, <3>4, <3>5, <3>6, <3>7 DEF Aside, Calm
  <2> QED
    BY <1>2, <2>1, <2>2
<1>9. Steady(u)'
  BY <1>1, <1>2, <1>7, <1>8, LandSteady
<1>10. ASSUME NEW c \in Codes, HasCode(u, c)'
       PROVE  HasCode(u, c)
  <2>1. c # NoCode
    BY DEF Codes, NoCode
  <2>2. ASSUME NEW s \in Tasks, About(s, u)', c = task'[s].code
        PROVE  HasCode(u, c)
    BY <1>3, <1>5, <2>2 DEF HasCode
  <2>3. u \in Accounts' /\ c = account'[u].remember_token => HasCode(u, c)
    BY <1>2, <1>6, <1>7, <1>8, <2>1 DEF HasCode
  <2>4. (c = latest[u] \/ \E x \in Sent(u) : c = x.code) => HasCode(u, c)
    BY DEF HasCode
  <2> QED
    BY <1>3, <1>4, <1>10, <2>2, <2>3, <2>4 DEF HasCode
<1>11. Counted /\ used' = used
  BY <1>2, <1>3, <1>8, FreshIsNew DEF Counted
<1> QED
  BY <1>8, <1>9, <1>10, <1>11, Confined DEF Counted

-----------------------------------------------------------------------------
(* Administrators, the migration, a stop, and an account that is new. *)

LEMMA SetSuspendedCalm ==
    ASSUME IndInv, CalmInv, NEW u \in Accounts, NEW suspended \in BOOLEAN,
           SetSuspended(u, suspended)
    PROVE  CalmInv'
<1>1. PICK row : row = [account[u] EXCEPT !.suspended = suspended]
  OBVIOUS
<1>2. /\ u \in Users /\ account[u] \in Account /\ account \in [Users -> Account \cup {Null}]
      /\ OwnerInv /\ CodeInv /\ Steady(u) /\ u # Null
  BY CalmParts, AccountAssumption DEF IndInv, TypeOK, Accounts
<1>3. /\ account' = [account EXCEPT ![u] = row] /\ Marks(u)
      /\ UNCHANGED <<roles, writes, task, generated, latest, used, cut>>
  BY <1>1, <1>2 DEF SetSuspended
<1>4. /\ row \in Account /\ row.email = account[u].email
      /\ row.remember_token = account[u].remember_token
  BY <1>1, <1>2 DEF Account
<1>5. account'[u] = row /\ \A v \in Users : v # u => account'[v] = account[v]
  BY <1>2, <1>3
<1>6. Accounts' = Accounts
  <2>1. row # Null
    BY <1>4, AccountAssumption
  <2> QED
    BY <1>2, <1>5, <2>1 DEF Accounts
<1>7. (\A v : Sent(v)' = Sent(v)) /\ (\A s \in Tasks, v \in Users : About(s, v)' <=> About(s, v))
  BY <1>3 DEF Sent, About, At
<1>8. raced \subseteq raced' /\ (u \notin raced' => ~InFlight(u) /\ u \notin raced)
  BY <1>2, <1>3 DEF Marks
<1>9. \A v \in Users : v # u => Untouched(v)
  BY <1>3, <1>5, <1>7 DEF Untouched
<1>10. Steady(u)'
  <2>1. u \in Calm' => /\ u \in Calm /\ Sent(u) = {}
                       /\ \A s \in Tasks : ~About(s, u)
    BY <1>6, <1>8 DEF Calm, InFlight, Sent
  <2>2. PICK mailed : mailed = latest[u]
    OBVIOUS
  <2>3. u \in Calm' => /\ mailed \notin used
                       /\ u \notin cut => Ahead(account[u], {}, mailed)
    BY <1>2, <2>1, <2>2, SteadyIdle
  <2>4. PICK sent : sent = Sent(u)
    OBVIOUS
  <2>5. u \in Calm' => /\ \A s \in Tasks : ~About(s, u)'
                       /\ Behind(row, sent, used) /\ mailed \notin used
                       /\ u \notin cut' => Ahead(row, sent, mailed)
    BY <1>2, <1>3, <1>4, <1>7, <2>1, <2>3, <2>4 DEF Behind, Ahead
  <2>6. row = account'[u] /\ sent = Sent(u)' /\ used' = used /\ mailed = latest'[u]
    BY <1>3, <1>5, <1>7, <2>2, <2>4
  <2> QED
    BY <2>5, <2>6, IdleSteady
<1>11. \A c \in Codes : HasCode(u, c)' => HasCode(u, c)
  BY <1>2, <1>3, <1>4, <1>5, <1>6, <1>7 DEF HasCode
<1>12. OwnerInv'
  BY <1>2, <1>4, <1>5, <1>6, SameRowsSameOwners
<1>13. Counted /\ used' = used /\ (u \in Calm' => u \in Calm)
  BY <1>2, <1>3, <1>6, <1>8, FreshIsNew DEF Counted, Calm
<1> QED
  BY <1>9, <1>10, <1>11, <1>12, <1>13, Confined DEF Aside, Counted

\* A step that touches nobody.
LEMMA NobodyTouched ==
    ASSUME IndInv, CalmInv,
           UNCHANGED <<account, writes, task, generated, latest, used, raced, cut>>
    PROVE  CalmInv'
<1>1. OwnerInv /\ CodeInv
  BY CalmParts
<1>2. \A v \in Users : Untouched(v)
  BY DEF Untouched, Sent
<1>3. Counted /\ used' = used
  BY <1>1, FreshIsNew DEF Counted
<1>4. OwnerInv'
  BY <1>1 DEF OwnerInv, Accounts
<1> QED
  BY <1>2, <1>3, <1>4, AccountAssumption, Confined DEF Aside, Counted

\* What was in flight about an account is gone, or part of it; the account is cut.
LEMMA StopCalm ==
    ASSUME IndInv, CalmInv, NEW lost \in SUBSET writes, Stop(lost)
    PROVE  CalmInv'
<1>1. /\ OwnerInv /\ CodeInv /\ \A v \in Users : Steady(v)
      /\ \A s \in Tasks : task'[s] = IdleTask
      /\ writes' = writes \ lost /\ cut' = cut \cup {u \in Users : InFlight(u)}
      /\ UNCHANGED <<account, generated, latest, used, raced>>
  BY CalmParts DEF Stop
<1>2. \A s \in Tasks, v \in Users : ~About(s, v)'
  BY <1>1 DEF About, At, IdleTask
<1>3. /\ Accounts' = Accounts /\ Calm' = Calm
      /\ \A v \in Users : Sent(v)' \subseteq Sent(v)
  BY <1>1 DEF Accounts, Calm, Sent
<1>4. ASSUME NEW u \in Users
      PROVE  Steady(u)'
  <2>1. PICK sent : sent = Sent(u)'
    OBVIOUS
  <2>2. PICK row : row = account[u]
    OBVIOUS
  <2>3. PICK mailed : mailed = latest[u]
    OBVIOUS
  <2>4. u \in Calm => Behind(row, Sent(u), used) /\ mailed \notin used
    <3>1. Steady(u)
      BY <1>1
    <3> QED
      BY <2>2, <2>3, <3>1, SteadyIdle, SteadyBusy
  <2>5. u \in Calm => Behind(row, sent, used)
    <3>1. sent \subseteq Sent(u)
      BY <1>3, <2>1
    <3>2. u \in Calm => \A w \in sent : sent = {w}
      BY <2>4, <3>1 DEF Behind
    <3> QED
      BY <2>4, <3>1, <3>2 DEF Behind
  <2>6. u \in Calm /\ u \notin cut' => Ahead(row, sent, mailed)
    <3> SUFFICES ASSUME u \in Calm, u \notin cut'
                 PROVE  Ahead(row, sent, mailed)
      OBVIOUS
    <3>1. ~InFlight(u) /\ u \notin cut
      BY <1>1
    <3>2. Sent(u) = {} /\ \A s \in Tasks : ~About(s, u)
      BY <3>1 DEF InFlight, Sent
    <3>3. Ahead(row, Sent(u), mailed)
      BY <1>1, <2>2, <2>3, <3>1, <3>2, SteadyIdle
    <3> QED
      BY <1>3, <2>1, <3>2, <3>3
  <2>7. row = account'[u] /\ used' = used /\ mailed = latest'[u]
    BY <1>1, <2>2, <2>3
  <2> QED
    BY <1>2, <1>3, <2>1, <2>4, <2>5, <2>6, <2>7, IdleSteady
<1>5. ASSUME NEW u \in Users, NEW c \in Codes, HasCode(u, c)'
      PROVE  HasCode(u, c)
  BY <1>1, <1>2, <1>3, <1>5 DEF HasCode
<1>6. CodeInv'
  <2>1. Calm \subseteq Users
    BY DEF Calm, Accounts
  <2> QED
    BY <1>1, <1>3, <1>5, <2>1 DEF CodeInv
<1>7. OwnerInv'
  BY <1>1 DEF OwnerInv, Accounts
<1>8. Calm' \subseteq Users
  BY DEF Calm, Accounts
<1> QED
  BY <1>4, <1>6, <1>7, <1>8 DEF CalmInv, Steady

LEMMA InsertCalm ==
    ASSUME IndInv, CalmInv, WriteInv, NEW t \in Tasks, Insert(t)
    PROVE  CalmInv'
<1>1. PICK own : own = task[t]
  OBVIOUS
<1>2. /\ own \in Task /\ own.pc = "inserting" /\ own.user = Null /\ TypeOK
      /\ OwnerInv /\ CodeInv /\ task \in [Tasks -> Task]
      /\ account \in [Users -> Account \cup {Null}]
  BY <1>1, Held, CalmParts DEF Insert, At, Right, TypeOK
<1>3. PICK row : row = NewAccount(own)
  OBVIOUS
<1>4. PICK u \in Users \ Accounts :
          /\ account' = [account EXCEPT ![u] = row]
          /\ latest' = [latest EXCEPT ![u] = row.remember_token]
          /\ task' = [task EXCEPT ![t] = [IdleTask EXCEPT !.pc = "answering", !.user = u,
                                          !.row = row, !.roles = Roles]]
  BY <1>1, <1>3 DEF Insert, Goto
<1>5. PICK local : local = [IdleTask EXCEPT !.pc = "answering", !.user = u, !.row = row,
                                            !.roles = Roles]
  OBVIOUS
<1>6. /\ local.pc = "answering" /\ local.user = u /\ local.code = NoCode
      /\ local.role = Null
  BY <1>5 DEF IdleTask
<1>7. /\ row.email = own.email /\ row.suspended = FALSE
      /\ row.remember_token = IF own.google THEN NoCode ELSE FreshCode
  BY <1>3 DEF NewAccount
<1>8. /\ Owners(own.email) = {} /\ u # Null
      /\ generated' = (IF own.google THEN generated ELSE FreshCode)
      /\ UNCHANGED <<writes, used, cut, raced>>
  BY <1>1, AccountAssumption DEF Insert, Goto
<1>9. /\ task'[t] = local /\ \A s \in Tasks : s # t => task'[s] = task[s]
      /\ account'[u] = row /\ latest'[u] = row.remember_token
      /\ \A v \in Users : v # u => account'[v] = account[v] /\ latest'[v] = latest[v]
      /\ \A v : Sent(v)' = Sent(v)
  BY <1>2, <1>4, <1>5, <1>8 DEF TypeOK, Sent
<1>10. Sent(u) = {} /\ \A s \in Tasks : ~About(s, u)
  <2>1. \A s \in Tasks : task[s].user # Null => task[s].user \in Accounts
    BY DEF IndInv, RightInv, Right
  <2>2. \A w \in writes : w.user \in Accounts
    BY DEF WriteInv
  <2> QED
    BY <1>4, <1>8, <2>1, <2>2 DEF Sent, About
<1>11. \A v \in Users : v # u => Untouched(v)
  <2>1. ASSUME NEW v \in Users, v # u, NEW s \in Tasks, About(s, v) \/ About(s, v)'
        PROVE  task'[s] = task[s]
    <3>1. s # t
      BY <1>1, <1>2, <1>6, <1>9, <2>1, AccountAssumption DEF About
    <3> QED
      BY <1>9, <3>1
  <2> QED
    BY <1>9, <2>1 DEF Untouched
<1>12. FreshCode \notin used /\ NoCode \notin used
  BY <1>2, FreshIsNew
<1>13. Steady(u)'
  <2>1. PICK code : code = row.remember_token
    OBVIOUS
  <2>2. PICK sent : sent = Sent(u)'
    OBVIOUS
  <2>3. sent = {} /\ code \notin used
    BY <1>7, <1>9, <1>10, <1>12, <2>1, <2>2
  <2>4. /\ Behind(row, sent, used) /\ Follows(sent, local) /\ Posted(row, sent, local, code)
        /\ SoFar(row, local)
    BY <1>6, <1>7, <2>1, <2>3 DEF Behind, Follows, Posted, Ahead, SoFar
  <2>5. \A s \in Tasks : About(s, u)' => s = t
    BY <1>9, <1>10 DEF About, At
  <2>6. row = account'[u] /\ used' = used /\ code = latest'[u] /\ local = task'[t]
    BY <1>8, <1>9, <2>1
  <2> QED
    BY <1>6, <2>2, <2>3, <2>4, <2>5, <2>6, BusySteady
<1>14. ASSUME NEW c \in Codes, HasCode(u, c)'
       PROVE  c > generated /\ c <= generated'
  <2>1. c # NoCode
    BY DEF Codes, NoCode
  <2>2. \A s \in Tasks : About(s, u)' => task'[s].code = NoCode
    BY <1>6, <1>9, <1>10 DEF About, At
  <2>3. c = row.remember_token
    BY <1>9, <1>10, <1>14, <2>1, <2>2 DEF HasCode
  <2> QED
    BY <1>2, <1>7, <1>8, <2>1, <2>3, FreshIsNew
<1>15. OwnerInv'
  <2> SUFFICES ASSUME NEW v \in Accounts', NEW w \in Accounts',
                      account'[v].email = account'[w].email, v # w
               PROVE  FALSE
    BY DEF OwnerInv
  <2>1. v \in Users /\ w \in Users /\ (v # u => v \in Accounts) /\ (w # u => w \in Accounts)
    BY <1>9 DEF Accounts
  <2>2. CASE v = u
    BY <1>7, <1>8, <1>9, <2>1, <2>2 DEF Owners
  <2>3. CASE w = u
    BY <1>7, <1>8, <1>9, <2>1, <2>3 DEF Owners
  <2>4. CASE v # u /\ w # u
    BY <1>2, <1>9, <2>1, <2>4 DEF OwnerInv
  <2> QED
    BY <2>2, <2>3, <2>4
<1>16. Counted /\ used' = used
  BY <1>2, <1>8, FreshIsNew DEF Counted
<1> QED
  BY <1>11, <1>13, <1>14, <1>15, <1>16, Confined DEF Aside, Counted

-----------------------------------------------------------------------------
(* Every step. *)

LEMMA AuthCalm ==
    ASSUME IndInv, CalmInv, WriteInv, NEW t \in Tasks, AuthStep(t) \/ AuthRequest(t)
    PROVE  CalmInv'
<1>1. CASE AuthStep(t)
  BY <1>1, AnswerCalm, ListRolesCalm, SaveRoleCalm, ActivateCalm, InsertCalm, RefusedCalm,
     SaveAddedRoleCalm, SaveActiveRoleCalm, RereadCalm, StoreCodeCalm, MailCodeCalm,
     SavePasswordCalm, ReportResetCalm DEF AuthStep
<1>2. ASSUME NEW u \in Users,
             \/ Login(t, u) \/ GoogleAuth(t, u, Null) \/ ForgotPassword(t, u) \/ ResendEmail(t, u)
             \/ \E password \in Passwords : ResetPassword(t, u, password)
      PROVE  CalmInv'
  BY <1>2, LoginCalm, GoogleAuthCalm, ForgotPasswordCalm, ResendEmailCalm, ResetPasswordCalm
<1>3. ASSUME NEW u \in Users, NEW role \in Roles,
             \/ CreateAccount(t, u, role) \/ GoogleAuth(t, u, role)
             \/ AddRole(t, u, role) \/ SwitchRole(t, u, role)
      PROVE  CalmInv'
  BY <1>3, CreateAccountCalm, GoogleAuthCalm, AddRoleCalm, SwitchRoleCalm
<1>4. ASSUME NEW email \in Emails, NEW role \in Roles,
             \/ CreateNew(t, email, role, Null, TRUE)
             \/ \E password \in Passwords : CreateNew(t, email, role, password, FALSE)
      PROVE  CalmInv'
  BY <1>4, CreateNewCalm
<1> QED
  BY <1>1, <1>2, <1>3, <1>4 DEF AuthRequest

LEMMA SettingsCalm ==
    ASSUME IndInv, CalmInv, NEW t \in Tasks, SettingsStep(t) \/ SettingsRequest(t)
    PROVE  CalmInv'
BY SaveProfileCalm, ChangePasswordCalm, ReportConfirmationCalm, ConfirmUserEmailCalm,
   EditProfileCalm, UpdatePasswordCalm DEF SettingsStep, SettingsRequest

LEMMA AdminActCalm ==
    ASSUME IndInv, CalmInv, AdminAct
    PROVE  CalmInv'
<1>1. CASE GrantAllRoles
  BY <1>1, NobodyTouched DEF GrantAllRoles, history
<1>2. CASE \E u \in Users : Suspend(u) \/ Reactivate(u)
  BY <1>2, SetSuspendedCalm DEF Suspend, Reactivate, Visible
<1> QED
  BY <1>1, <1>2 DEF AdminAct

LEMMA NextCalm ==
    ASSUME IndInv, CalmInv, WriteInv, [Next]_vars
    PROVE  CalmInv'
<1>1. CASE \E t \in Tasks : Step(t) \/ Request(t)
  BY <1>1, AuthCalm, SettingsCalm, FailsCalm DEF Step, Request
<1>2. CASE \E w \in writes : Land(w)
  BY <1>2, LandCalm
<1>3. CASE \E lost \in SUBSET writes : Stop(lost)
  BY <1>3, StopCalm
<1>4. CASE AdminAct
  BY <1>4, AdminActCalm
<1>5. CASE UNCHANGED vars
  BY <1>5, NobodyTouched DEF vars, history
<1> QED
  BY <1>1, <1>2, <1>3, <1>4, <1>5 DEF Next

LEMMA InitCalm ==
    ASSUME StoreInit
    PROVE  CalmInv
<1>1. /\ \A u \in Users : account[u] # Null => account[u].remember_token = NoCode
      /\ \A u, v \in Accounts : u # v => account[u].email # account[v].email
      /\ writes = {} /\ \A t \in Tasks : task[t] = IdleTask
      /\ generated = 0 /\ latest = [u \in Users |-> NoCode] /\ used = {}
  <2>1. account \in [Users -> {Null} \cup
            {row \in Account : row.remember_token = NoCode /\ ~row.suspended}]
    BY DEF StoreInit
  <2>2. \A u \in Users : account[u] # Null => account[u].remember_token = NoCode
    BY <2>1
  <2> QED
    BY <2>2 DEF StoreInit
<1>2. (\A u : Sent(u) = {}) /\ \A t \in Tasks : \A u : ~About(t, u)
  BY <1>1 DEF Sent, About, At, IdleTask
<1>3. OwnerInv
  BY <1>1 DEF OwnerInv
<1>4. ASSUME NEW u \in Users, NEW c \in Codes
      PROVE  ~HasCode(u, c) /\ c \notin used
  <2>1. c # NoCode
    BY DEF Codes, NoCode
  <2> QED
    BY <1>1, <1>2, <2>1 DEF HasCode, Accounts
<1>5. CodeInv
  <2>1. Calm \subseteq Users
    BY DEF Calm, Accounts
  <2> SUFFICES ASSUME NEW c \in Codes
      PROVE  /\ c \in used \/ (\E u \in Users : HasCode(u, c)) => c <= generated
             /\ \A u \in Calm, v \in Users : HasCode(u, c) /\ HasCode(v, c) => u = v
    BY DEF CodeInv
  <2>2. c \notin used
    BY <1>1
  <2>3. \A u \in Users : ~HasCode(u, c)
    BY <1>4
  <2> QED
    BY <2>1, <2>2, <2>3
<1>6. ASSUME NEW u \in Calm
      PROVE  Alone(u) /\ StillSo(u) /\ Unused(u) /\ Mailed(u)
  <2>1. u \in Users /\ account[u] # Null
    BY DEF Calm, Accounts
  <2> QED
    BY <1>1, <1>2, <2>1 DEF Alone, StillSo, Unused, Mailed, Settles
<1> QED
  BY <1>3, <1>5, <1>6 DEF CalmInv

\* Roles are held as far as anybody relies on them, and an account whose requests
\* follow one another has one of them in flight, its codes to itself, and in its row
\* the code last e-mailed once the update of it has landed.
THEOREM InvAlways == Spec => []Inv
<1>1. StoreInit => CalmInv
  BY InitCalm
<1>2. RoleInv /\ CalmInv /\ [Next]_vars => CalmInv'
  BY NextCalm, InvIsInd
<1>3. RoleInv /\ CalmInv <=> Inv
  BY DEF Inv
<1> QED
  BY <1>1, <1>2, <1>3, RoleInvAlways, PTL DEF Spec

\* What a calm account is when nothing is in flight about it.
LEMMA AtRest ==
    ASSUME Inv, NEW u \in Accounts, ~InFlight(u), u \notin raced \cup cut
    PROVE  account[u].remember_token = latest[u] /\ latest[u] \notin used
<1>1. Sent(u) = {} /\ (\A t \in Tasks : ~About(t, u)) /\ u \in Calm
  BY DEF InFlight, Sent, Calm
<1>2. Steady(u)
  BY <1>1 DEF Inv, CalmInv, Steady
<1> QED
  BY <1>1, <1>2, SteadyIdle DEF Ahead

\* No request that began after a suspension answers with a token of the account, and
\* one that makes a role active answers with a token for that role.
THEOREM TokenIsCurrentAlways == Spec => []TokenIsCurrent
<1>1. Inv => TokenIsCurrent
  <2> SUFFICES ASSUME Inv, NEW t \in Tasks, At(t, "answering"), TokenOf(t).user # Null,
                      task[t].user \notin raced
               PROVE  /\ ~account[task[t].user].suspended
                      /\ task[t].role \in {Null, TokenOf(t).active}
    BY DEF TokenIsCurrent
  <2>1. /\ task[t].row # Null /\ task[t].user # Null
        /\ TokenOf(t).active = task[t].row.user_type
    BY DEF TokenOf
  <2>2. About(t, task[t].user) /\ task[t].user \in Calm
    BY <2>1 DEF About, At, Inv, RoleInv, HeldInv, Calm
  <2>3. StillSo(task[t].user)
    BY <2>2 DEF Inv, CalmInv
  <2> QED
    BY <2>1, <2>2, <2>3 DEF StillSo, At
<1> QED
  BY <1>1, InvAlways, PTL

\* A code that reset a password or confirmed an address is not in the row any more.
THEOREM SpentCodeIsClearedAlways == Spec => []SpentCodeIsCleared
<1>1. Inv => SpentCodeIsCleared
  BY AtRest DEF SpentCodeIsCleared
<1> QED
  BY <1>1, InvAlways, PTL

\* The code an account was last sent, and has not used, is the one it may use.
THEOREM MailedCodeWorksAlways == Spec => []MailedCodeWorks
<1>1. Inv => MailedCodeWorks
  BY AtRest DEF MailedCodeWorks
<1> QED
  BY <1>1, InvAlways, PTL

-----------------------------------------------------------------------------
(* Confirmations. *)

\* A step that rewrites the row of one account and keeps its confirmation.
LEMMA RowStaysVerified ==
    ASSUME IndInv, NEW x \in Users, NEW row,
           account' = [account EXCEPT ![x] = row],
           x \in Accounts /\ account[x].verified => row.verified \/ x \in raced',
           NEW u \in Accounts, account[u].verified
    PROVE  account'[u].verified \/ u \in raced'
<1>1. u \in Users /\ account \in [Users -> Account \cup {Null}]
  BY DEF IndInv, TypeOK, Accounts
<1>2. CASE u = x
  BY <1>1, <1>2
<1>3. CASE u # x
  BY <1>1, <1>3
<1> QED
  BY <1>2, <1>3

LEMMA WrittenStaysVerified ==
    ASSUME IndInv, CalmInv, NEW t \in Tasks, NEW u \in Accounts, account[u].verified,
           \/ Activate(t) \/ SaveActiveRole(t) \/ SavePassword(t) \/ ChangePassword(t)
           \/ SaveProfile(t)
    PROVE  account'[u].verified \/ u \in raced'
<1>1. PICK own : own = task[t]
  OBVIOUS
<1>2. PICK x : x = own.user
  OBVIOUS
<1>3. /\ own.pc \in {"activating", "switching", "resetting", "changingPassword", "savingProfile"}
      /\ x \in Users /\ x \in Accounts /\ account[x] \in Account
      /\ account \in [Users -> Account \cup {Null}] /\ Steady(x) /\ About(t, x)
  <2>1. own.pc \in {"activating", "switching", "resetting", "changingPassword", "savingProfile"}
    BY <1>1 DEF Activate, SaveActiveRole, SavePassword, ChangePassword, SaveProfile, At
  <2> QED
    BY <1>1, <1>2, <2>1, UnderWay, CalmParts DEF About, At
<1>4. CASE Activate(t)
  <2>1. PICK row : row = [account[x] EXCEPT
            !.user_type = IF own.role = Null THEN @ ELSE Activated(own).user_type,
            !.verified = @ \/ (own.google /\ ~own.row.verified)]
    OBVIOUS
  <2>2. account' = [account EXCEPT ![x] = row]
    BY <1>1, <1>2, <1>3, <1>4, <2>1 DEF Activate
  <2>3. account[x].verified => row.verified
    BY <1>3, <2>1 DEF Account
  <2> QED
    BY <1>3, <2>2, <2>3, RowStaysVerified
<1>5. CASE SaveActiveRole(t)
  <2>1. PICK row : row = [account[x] EXCEPT !.user_type = own.role]
    OBVIOUS
  <2>2. account' = [account EXCEPT ![x] = row]
    BY <1>1, <1>2, <1>3, <1>5, <2>1 DEF SaveActiveRole
  <2>3. account[x].verified => row.verified
    BY <1>3, <2>1 DEF Account
  <2> QED
    BY <1>3, <2>2, <2>3, RowStaysVerified
<1>6. CASE SavePassword(t) \/ ChangePassword(t)
  <2>1. PICK row : row = [account[x] EXCEPT !.password = own.password]
    OBVIOUS
  <2>2. account' = [account EXCEPT ![x] = row]
    BY <1>1, <1>2, <1>3, <1>6, <2>1 DEF SavePassword, ChangePassword
  <2>3. account[x].verified => row.verified
    BY <1>3, <2>1 DEF Account
  <2> QED
    BY <1>3, <2>2, <2>3, RowStaysVerified
<1>7. CASE SaveProfile(t)
  <2>1. PICK row : row = SavedProfile(x, own.row)
    OBVIOUS
  <2>2. account' = [account EXCEPT ![x] = row] /\ raced' = raced /\ own.pc = "savingProfile"
    BY <1>1, <1>2, <1>3, <1>7, <2>1 DEF SaveProfile, Returns, Goto, At
  <2>3. x \notin raced => own.row.verified = account[x].verified
    BY <1>1, <1>3, <2>2, SteadyBusy DEF Calm, SoFar
  <2>4. row.verified = own.row.verified
    BY <1>3, <2>1 DEF Account, SavedProfile
  <2> QED
    BY <1>3, <2>2, <2>3, <2>4, RowStaysVerified
<1> QED
  BY <1>4, <1>5, <1>6, <1>7

LEMMA LandedStaysVerified ==
    ASSUME IndInv, WriteInv, NEW w \in writes, Land(w), NEW u \in Accounts, account[u].verified
    PROVE  account'[u].verified
<1>1. /\ w.kind \in {"code", "clear", "confirm"} /\ w.user \in Users /\ u \in Users
      /\ (w.kind = "code" => w.email \in Emails) /\ w.code \in Codes \cup {NoCode}
      /\ account \in [Users -> Account \cup {Null}] /\ account' = Landed(w)
      /\ account[u] \in Account
  BY DEF IndInv, TypeOK, Write, WriteInv, Accounts, Land
<1>2. CASE w.kind = "code"
  <2>1. account' = CodeStored(w.email, w.code)
    BY <1>1, <1>2 DEF Landed
  <2> QED
    BY <1>1, <1>2, <2>1, StoredRows
<1>3. CASE w.kind = "clear"
  <2>1. account' = [account EXCEPT ![w.user].remember_token = NoCode]
    BY <1>1, <1>3 DEF Landed
  <2>2. CASE u = w.user
    BY <1>1, <2>1, <2>2 DEF Account
  <2>3. CASE u # w.user
    BY <1>1, <2>1, <2>3
  <2> QED
    BY <2>2, <2>3
<1>4. CASE w.kind = "confirm"
  <2>1. account' = [account EXCEPT ![w.user].remember_token = NoCode,
                                   ![w.user].verified = TRUE]
    BY <1>1, <1>4 DEF Landed
  <2>2. CASE u = w.user
    BY <1>1, <2>1, <2>2 DEF Account
  <2>3. CASE u # w.user
    BY <1>1, <2>1, <2>3
  <2> QED
    BY <2>2, <2>3
<1> QED
  BY <1>1, <1>2, <1>3, <1>4

LEMMA OthersStayVerified ==
    ASSUME IndInv, NEW u \in Accounts, account[u].verified,
           \/ \E t \in Tasks : Insert(t) \/ StoreCode(t)
           \/ \E v \in Users : Suspend(v) \/ Reactivate(v)
    PROVE  account'[u].verified
<1>1. account \in [Users -> Account \cup {Null}] /\ u \in Users /\ account[u] \in Account
  BY DEF IndInv, TypeOK, Accounts
<1>2. ASSUME NEW t \in Tasks, Insert(t)
      PROVE  account'[u].verified
  <2>1. PICK v \in Users \ Accounts : account' = [account EXCEPT ![v] = NewAccount(task[t])]
    BY <1>2 DEF Insert
  <2> QED
    BY <1>1, <2>1
<1>3. ASSUME NEW t \in Tasks, StoreCode(t)
      PROVE  account'[u].verified
  <2>1. /\ task[t].email \in Emails /\ task[t].code \in Codes \cup {NoCode}
    BY <1>3, Held DEF StoreCode, At, Right
  <2>2. account' = CodeStored(task[t].email, task[t].code)
    BY <1>3 DEF StoreCode
  <2> QED
    BY <2>1, <2>2, StoredRows
<1>4. ASSUME NEW v \in Users, Suspend(v) \/ Reactivate(v)
      PROVE  account'[u].verified
  <2>1. PICK suspended \in BOOLEAN : account' = [account EXCEPT ![v].suspended = suspended]
    BY <1>4 DEF Suspend, Reactivate, SetSuspended
  <2>2. CASE u = v
    BY <1>1, <2>1, <2>2 DEF Account
  <2>3. CASE u # v
    BY <1>1, <2>1, <2>3
  <2> QED
    BY <2>2, <2>3
<1> QED
  BY <1>2, <1>3, <1>4

\* The steps that leave the table of accounts alone.
LEMMA UnwrittenAccounts ==
    ASSUME [Next]_vars, account' # account
    PROVE  \/ \E t \in Tasks :
                 \/ Activate(t) \/ SaveActiveRole(t) \/ SavePassword(t) \/ ChangePassword(t)
                 \/ SaveProfile(t) \/ Insert(t) \/ StoreCode(t)
           \/ \E v \in Users : Suspend(v) \/ Reactivate(v)
           \/ \E w \in writes : Land(w)
<1>1. ASSUME NEW t \in Tasks, AuthStep(t)
      PROVE  \/ Activate(t) \/ SaveActiveRole(t) \/ SavePassword(t) \/ Insert(t) \/ StoreCode(t)
  BY <1>1 DEF AuthStep, Answer, ListRoles, SaveRole, Refused, SaveAddedRole, Reread, MailCode,
     ReportReset
<1>2. ASSUME NEW t \in Tasks, AuthRequest(t)
      PROVE  FALSE
  BY <1>2 DEF AuthRequest, Login, GoogleAuth, ForgotPassword, ResendEmail, ResetPassword,
     CreateAccount, AddRole, SwitchRole, CreateNew
<1>3. ASSUME NEW t \in Tasks, SettingsStep(t) \/ SettingsRequest(t) \/ Fails(t)
      PROVE  ChangePassword(t) \/ SaveProfile(t)
  BY <1>3 DEF SettingsStep, SettingsRequest, ReportConfirmation, EditProfile, UpdatePassword,
     ConfirmUserEmail, Fails
<1>4. ASSUME NEW lost \in SUBSET writes, Stop(lost)
      PROVE  FALSE
  BY <1>4 DEF Stop
<1>5. CASE AdminAct
  BY <1>5 DEF AdminAct, GrantAllRoles
<1>6. CASE UNCHANGED vars
  BY <1>6 DEF vars
<1> QED
  BY <1>1, <1>2, <1>3, <1>4, <1>5, <1>6 DEF Next, Step, Request

\* Only an edit of the profile that overlaps a confirmation may undo it.
THEOREM ConfirmationSticksAlways == Spec => ConfirmationSticks
<1>1. Inv /\ [Next]_vars =>
          [\A u \in Accounts : account[u].verified => account'[u].verified \/ u \in raced']_vars
  <2> SUFFICES ASSUME Inv, [Next]_vars, NEW u \in Accounts, account[u].verified
               PROVE  account'[u].verified \/ u \in raced'
    OBVIOUS
  <2>1. IndInv /\ WriteInv /\ CalmInv
    BY InvIsInd DEF Inv
  <2>2. CASE account' = account
    BY <2>2
  <2>3. CASE account' # account
    BY <2>1, <2>3, UnwrittenAccounts, WrittenStaysVerified, OthersStayVerified,
       LandedStaysVerified
  <2> QED
    BY <2>2, <2>3
<1> QED
  BY <1>1, InvAlways, PTL DEF Spec, ConfirmationSticks
=============================================================================
