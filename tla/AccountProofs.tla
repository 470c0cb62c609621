---------------------------- MODULE AccountProofs ----------------------------
(***************************************************************************)
(* Proofs about AccountTokens: no string is accepted that was dead when     *)
(* the request began, and a device is given tokens of one user.             *)
(***************************************************************************)
EXTENDS AccountTokens, FiniteSetTheorems, TLAPS

-----------------------------------------------------------------------------
(* Types                                                                   *)

Ops == {"idle", "put", "issue", "approve", "compare", "delete_file"}
Pcs == {"idle", "put", "user", "short", "approved", "compare", "delete_file"}
Persons == Users \cup {"nobody"}

UserRecs == [hash : Nat, expires : Nat, revoked : BOOLEAN]
ShortRecs == [user : Users, hash : Nat, expires : Nat]
LongRecs == [user : Users, id : Nat, status : {"active", "revoked"}, expires : Nat]
CodeRecs == [status : {"none", "pending", "approved"}, expires : Nat, user : Persons, access : Nat, refresh : Nat]
TaskRecs == [op : Ops, pc : Pcs, user : Persons, token : Nat, refresh : Nat, expires : Nat, dead : SUBSET Nat]

DrawnOk == \E n \in Nat : owner \in [1..n -> Users]

AccountTypes ==
  /\ DrawnOk /\ clock \in [now : Nat, tasks : Nat]
  /\ vault \in [Users -> Nat] /\ users \in [Users -> UserRecs]
  /\ short \subseteq ShortRecs /\ long \subseteq LongRecs
  /\ code \in CodeRecs /\ task \in [Tasks -> TaskRecs] /\ dead \subseteq Drawn

-----------------------------------------------------------------------------
(***************************************************************************)
(* The invariant.  A string is drawn for one user and one table.  A token   *)
(* that is dead and whose row is not revoked is behind the vault, which     *)
(* only moves on to strings drawn later: CompareToken will refuse it.       *)
(***************************************************************************)
ShortIds == {r.hash : r \in short}
LongIds == {r.id : r \in long}

\* A token of the vault, drawn for u.
PutFor(t, u) == t \in Drawn /\ owner[t] = u /\ t \notin ShortIds /\ t \notin LongIds

DrawnFor(t, u) == t \in Drawn /\ owner[t] = u
Stored(t, u) == DrawnFor(t, u) /\ \E r \in short : r.hash = t /\ r.user = u

TablesOk ==
  /\ ShortIds \subseteq Drawn /\ LongIds \subseteq Drawn /\ ShortIds \cap LongIds = {}
  /\ \A q, r \in short : q.hash = r.hash => q = r
  /\ \A q, r \in long : q.id = r.id => q = r
  /\ dead \cap ShortIds = {}
  /\ \A r \in long : r.id \in dead => r.status = "revoked"

RowOk(r, u) ==
  /\ r = NoUser \/ PutFor(r.hash, u)
  /\ r.hash \in dead /\ ~r.revoked => vault[u] # r.hash

UsersOk == \A u \in Users : RowOk(users[u], u)

\* A request that has put its token and not yet written the row of its user.
PutOk(r) ==
  /\ PutFor(r.token, r.user) /\ r.token <= vault[r.user]
  /\ \A u \in Users : users[u].hash # r.token
  /\ r.token \in dead => vault[r.user] # r.token

TaskOk(r) ==
  /\ r.pc # "idle" => r.user \in Users
  /\ r.pc = "user" => PutOk(r)
  /\ r.pc \in {"short", "approved"} => DrawnFor(r.token, r.user)
  /\ r.pc = "approved" => Stored(r.refresh, r.user)
  /\ r.pc = "compare" => r.token \in Drawn /\ (r.token \in r.dead => vault[r.user] # r.token)

TasksOk ==
  /\ \A k \in Tasks : TaskOk(task[k])
  /\ \A j, k \in Tasks : task[j].pc = "user" /\ task[k].pc = "user" /\ task[j].token = task[k].token => j = k

CodeOk ==
  /\ client = "polling" => code.status # "none"
  /\ code.status = "approved" => DrawnFor(code.access, code.user) /\ Stored(code.refresh, code.user)
  /\ \A a \in answers : a.stored /\ DrawnFor(a.access, a.user) /\ DrawnFor(a.refresh, a.user)

AccountInv == AccountTypes /\ TablesOk /\ UsersOk /\ TasksOk /\ CodeOk /\ DeadRejected

-----------------------------------------------------------------------------
(* Records                                                                 *)

SetDead(r, d) == [r EXCEPT !.dead = d]
SetIssue(r, o, e) == [r EXCEPT !.op = o, !.expires = e]
SetString(r, t) == [r EXCEPT !.token = t]
SetPc(r, p) == [r EXCEPT !.pc = p]
SetToken(r, p, t) == [r EXCEPT !.pc = p, !.token = t]
SetRefresh(r, p, t) == [r EXCEPT !.pc = p, !.refresh = t]

LEMMA IdleFields == IdleTask \in TaskRecs /\ IdleTask.pc = "idle"
  BY DEF IdleTask, TaskRecs, NoToken, Ops, Pcs, Persons

LEMMA RequestFields ==
  ASSUME NEW o \in {"put", "compare", "delete_file"}, NEW u \in Users
  PROVE  Request(o, u) \in TaskRecs /\ Request(o, u).pc = o /\ Request(o, u).user = u
<1>1. o \in Ops /\ o \in Pcs /\ u \in Persons
  BY DEF Ops, Pcs, Persons
<1>2. QED  BY <1>1, IdleFields DEF Request, TaskRecs

LEMMA BeginFields ==
  ASSUME NEW r \in TaskRecs
  PROVE  /\ \A d \in SUBSET Nat : /\ SetDead(r, d) \in TaskRecs /\ SetDead(r, d).dead = d /\ SetDead(r, d).pc = r.pc
                                  /\ SetDead(r, d).user = r.user /\ SetDead(r, d).token = r.token
         /\ \A o \in Ops, e \in Nat : /\ SetIssue(r, o, e) \in TaskRecs /\ SetIssue(r, o, e).pc = r.pc
                                      /\ SetIssue(r, o, e).user = r.user
         /\ \A t \in Nat : /\ SetString(r, t) \in TaskRecs /\ SetString(r, t).pc = r.pc
                           /\ SetString(r, t).user = r.user /\ SetString(r, t).token = t
<1>1. \A d \in SUBSET Nat : /\ SetDead(r, d) \in TaskRecs /\ SetDead(r, d).dead = d /\ SetDead(r, d).pc = r.pc
                            /\ SetDead(r, d).user = r.user /\ SetDead(r, d).token = r.token
  BY DEF SetDead, TaskRecs
<1>2. \A o \in Ops, e \in Nat : /\ SetIssue(r, o, e) \in TaskRecs /\ SetIssue(r, o, e).pc = r.pc
                               /\ SetIssue(r, o, e).user = r.user
  BY DEF SetIssue, TaskRecs
<1>3. \A t \in Nat : /\ SetString(r, t) \in TaskRecs /\ SetString(r, t).pc = r.pc
                    /\ SetString(r, t).user = r.user /\ SetString(r, t).token = t
  BY DEF SetString, TaskRecs
<1>4. QED  BY <1>1, <1>2, <1>3

LEMMA TaskFields ==
  ASSUME NEW r \in TaskRecs, NEW p \in Pcs, NEW t \in Nat
  PROVE  /\ SetPc(r, p) \in TaskRecs /\ SetPc(r, p).pc = p /\ SetPc(r, p).user = r.user
         /\ SetPc(r, p).token = r.token /\ SetPc(r, p).refresh = r.refresh
         /\ SetToken(r, p, t) \in TaskRecs /\ SetToken(r, p, t).pc = p /\ SetToken(r, p, t).user = r.user
         /\ SetToken(r, p, t).token = t
         /\ SetRefresh(r, p, t) \in TaskRecs /\ SetRefresh(r, p, t).pc = p /\ SetRefresh(r, p, t).user = r.user
         /\ SetRefresh(r, p, t).token = r.token /\ SetRefresh(r, p, t).refresh = t
<1>1. /\ SetPc(r, p) \in TaskRecs /\ SetPc(r, p).pc = p /\ SetPc(r, p).user = r.user
      /\ SetPc(r, p).token = r.token /\ SetPc(r, p).refresh = r.refresh
  BY DEF SetPc, TaskRecs
<1>2. /\ SetToken(r, p, t) \in TaskRecs /\ SetToken(r, p, t).pc = p /\ SetToken(r, p, t).user = r.user
      /\ SetToken(r, p, t).token = t
  BY DEF SetToken, TaskRecs
<1>3. /\ SetRefresh(r, p, t) \in TaskRecs /\ SetRefresh(r, p, t).pc = p /\ SetRefresh(r, p, t).user = r.user
      /\ SetRefresh(r, p, t).token = r.token /\ SetRefresh(r, p, t).refresh = t
  BY DEF SetRefresh, TaskRecs
<1>4. QED  BY <1>1, <1>2, <1>3

-----------------------------------------------------------------------------
(* Strings                                                                 *)

LEMMA FreshIsNew ==
  ASSUME DrawnOk
  PROVE  /\ Fresh \in Nat /\ Fresh \notin Drawn /\ Drawn \cup {Fresh} = 1..Fresh
         /\ \A t \in Drawn : t \in Nat /\ t > 0 /\ t < Fresh
<1>1. PICK n \in Nat : owner \in [1..n -> Users]
  BY DEF DrawnOk
<1>2. Drawn = 1..n
  BY <1>1 DEF Drawn
<1>3. Cardinality(1..n) = n
  BY FS_Interval
<1>4. Fresh = n + 1
  BY <1>2, <1>3 DEF Fresh
<1>5. QED  BY <1>2, <1>4

LEMMA DrawGrows ==
  ASSUME DrawnOk, NEW u \in Users, Draw(u)
  PROVE  /\ DrawnOk' /\ Drawn' = Drawn \cup {Fresh} /\ owner'[Fresh] = u
         /\ \A t \in Drawn : owner'[t] = owner[t]
<1>1. owner' = [t \in 1..Fresh |-> IF t = Fresh THEN u ELSE owner[t]] /\ Fresh \in Nat
  BY FreshIsNew DEF Draw
<1>2. \A t \in Drawn : owner[t] \in Users
  BY DEF DrawnOk, Drawn
<1>3. \A t \in 1..Fresh : t # Fresh => t \in Drawn
  BY FreshIsNew
<1>4. owner' \in [1..Fresh -> Users]
  BY <1>1, <1>2, <1>3
<1>5. DrawnOk'
  BY <1>1, <1>4 DEF DrawnOk
<1>6. Drawn' = Drawn \cup {Fresh}
  BY <1>1, FreshIsNew DEF Drawn
<1>7. QED  BY <1>1, <1>5, <1>6, FreshIsNew

\* Strings keep their owner and their table; rows are added for new strings.
Grows ==
  /\ DrawnOk' /\ \A t \in Drawn : t \in Drawn' /\ owner'[t] = owner[t]
  /\ short \subseteq short' /\ \A r \in short' : r \in short \/ r.hash \notin Drawn
  /\ \A r \in long' : r.id \in LongIds \/ r.id \notin Drawn

LEMMA KindsStay ==
  ASSUME Grows, NEW t, NEW u
  PROVE  (PutFor(t, u) => PutFor(t, u)') /\ (DrawnFor(t, u) => DrawnFor(t, u)') /\ (Stored(t, u) => Stored(t, u)')
<1>1. t \in Drawn /\ t \notin ShortIds => t \notin ShortIds'
  BY DEF Grows, ShortIds
<1>2. t \in Drawn /\ t \notin LongIds => t \notin LongIds'
  BY DEF Grows, LongIds
<1>3. PutFor(t, u) => PutFor(t, u)'
  BY <1>1, <1>2 DEF Grows, PutFor
<1>4. DrawnFor(t, u) => DrawnFor(t, u)'
  BY DEF Grows, DrawnFor
<1>5. Stored(t, u) => Stored(t, u)'
  BY <1>4 DEF Grows, Stored
<1>6. QED  BY <1>3, <1>4, <1>5

\* The vault moves on to strings drawn later.
VaultMoves ==
  \A u \in Users : vault'[u] = vault[u] \/ (vault'[u] \notin Drawn /\ \A t \in Drawn : t <= vault'[u])

LEMMA TaskStays ==
  ASSUME Grows, VaultMoves, NEW r, TaskOk(r),
         r.pc = "user" => /\ \A u \in Users : users'[u].hash # r.token
                          /\ r.token \in dead' => r.token \in dead \/ vault'[r.user] # r.token
  PROVE  TaskOk(r)'
<1>1. r.pc # "idle" => r.user \in Users
  BY DEF TaskOk
<1>2. r.pc = "user" => PutOk(r)'
  <2> SUFFICES ASSUME r.pc = "user" PROVE PutOk(r)'
    OBVIOUS
  <2>1. PutOk(r) /\ r.user \in Users
    BY <1>1 DEF TaskOk
  <2>2. PutFor(r.token, r.user)' /\ r.token \in Drawn
    BY <2>1, KindsStay DEF PutOk, PutFor
  <2>3. r.token <= vault'[r.user]
    BY <2>1, <2>2 DEF PutOk, VaultMoves
  <2>4. r.token \in dead' => vault'[r.user] # r.token
    BY <2>1, <2>2 DEF PutOk, VaultMoves
  <2>5. QED  BY <2>2, <2>3, <2>4 DEF PutOk
<1>3. r.pc \in {"short", "approved"} => DrawnFor(r.token, r.user)'
  BY KindsStay DEF TaskOk
<1>4. r.pc = "approved" => Stored(r.refresh, r.user)'
  BY KindsStay DEF TaskOk
<1>5. r.pc = "compare" => r.token \in Drawn' /\ (r.token \in r.dead => vault'[r.user] # r.token)
  BY <1>1 DEF TaskOk, Grows, VaultMoves
<1>6. QED  BY <1>1, <1>2, <1>3, <1>4, <1>5 DEF TaskOk

\* One request moves on; the others are not disturbed.
LEMMA TasksKeep ==
  ASSUME AccountInv, NEW k \in Tasks, NEW r \in TaskRecs, task' = [task EXCEPT ![k] = r], TaskOk(r)',
         \A j \in Tasks \ {k} : task[j].pc = "user" /\ r.pc = "user" => task[j].token # r.token,
         \A j \in Tasks \ {k} : \A q : q = task[j] => TaskOk(q)'
  PROVE  TasksOk' /\ task' \in [Tasks -> TaskRecs]
<1>1. \A j \in Tasks : task'[j] = IF j = k THEN r ELSE task[j]
  BY DEF AccountInv, AccountTypes
<1>2. task' \in [Tasks -> TaskRecs]
  BY DEF AccountInv, AccountTypes
<1>3. ASSUME NEW j \in Tasks PROVE TaskOk(task[j])'
  <2>1. PICK q : q = task'[j]
    OBVIOUS
  <2>2. TaskOk(q)'
    <3>1. CASE j = k
      BY <1>1, <2>1, <3>1 DEF TaskOk, PutOk, PutFor, DrawnFor, Stored
    <3>2. CASE j # k
      BY <1>1, <2>1, <3>2
    <3>3. QED  BY <3>1, <3>2
  <2>3. QED  BY <2>1, <2>2 DEF TaskOk, PutOk, PutFor, DrawnFor, Stored
<1>4. \A i, j \in Tasks : task'[i].pc = "user" /\ task'[j].pc = "user" /\ task'[i].token = task'[j].token => i = j
  BY <1>1 DEF AccountInv, TasksOk
<1>5. QED  BY <1>2, <1>3, <1>4 DEF TasksOk

LEMMA SameTasks ==
  ASSUME AccountInv, task' = task, \A j \in Tasks : \A q : q = task[j] => TaskOk(q)'
  PROVE  TasksOk' /\ task' \in [Tasks -> TaskRecs]
<1>1. ASSUME NEW j \in Tasks PROVE TaskOk(task[j])'
  <2>1. PICK q : q = task'[j]
    OBVIOUS
  <2>2. TaskOk(q)'
    BY <2>1
  <2>3. QED  BY <2>1, <2>2 DEF TaskOk, PutOk, PutFor, DrawnFor, Stored
<1>2. QED  BY <1>1 DEF AccountInv, AccountTypes, TasksOk

\* Requests are not disturbed when the rows of the users stay, or are revoked.
LEMMA OtherTasks ==
  ASSUME AccountInv, Grows, VaultMoves, NEW S \in SUBSET Tasks,
         \A u \in Users : users'[u].hash = users[u].hash,
         \A k \in S : task[k].pc = "user" /\ task[k].token \in dead' => task[k].token \in dead
  PROVE  \A j \in S : \A q : q = task[j] => TaskOk(q)'
<1> SUFFICES ASSUME NEW j \in S, NEW q, q = task[j] PROVE TaskOk(q)'
  OBVIOUS
<1>1. TaskOk(q)
  BY DEF AccountInv, TasksOk
<1>2. q.pc = "user" => \A u \in Users : users'[u].hash # q.token
  BY <1>1 DEF TaskOk, PutOk
<1>3. QED  BY <1>1, <1>2, TaskStays

LEMMA SameCode ==
  ASSUME AccountInv, Grows, UNCHANGED <<code, client, answers>>
  PROVE  CodeOk'
<1>1. PICK c : c = code
  OBVIOUS
<1>2. code.status = "approved" => DrawnFor(c.access, c.user)' /\ Stored(c.refresh, c.user)'
  BY <1>1, KindsStay DEF AccountInv, CodeOk
<1>3. \A a \in answers : a.stored /\ DrawnFor(a.access, a.user)' /\ DrawnFor(a.refresh, a.user)'
  BY KindsStay DEF AccountInv, CodeOk
<1>4. QED  BY <1>1, <1>2, <1>3 DEF AccountInv, CodeOk, DrawnFor, Stored

LEMMA RowStays ==
  ASSUME AccountInv, Grows, VaultMoves, NEW u \in Users, NEW r, r = users[u],
         r.hash \in dead' /\ ~r.revoked => r.hash \in dead
  PROVE  RowOk(r, u)'
<1>1. RowOk(r, u)
  BY DEF AccountInv, UsersOk
<1>2. r = NoUser \/ (PutFor(r.hash, u)' /\ r.hash \in Drawn)
  BY <1>1, KindsStay DEF RowOk, PutFor
<1>3. r = NoUser => r.revoked
  BY DEF NoUser
<1>4. r.hash \in dead' /\ ~r.revoked => vault'[u] # r.hash
  BY <1>1, <1>2, <1>3 DEF RowOk, VaultMoves
<1>5. QED  BY <1>2, <1>4 DEF RowOk

LEMMA UsersFrom ==
  ASSUME \A u \in Users : \A r : r = users'[u] => RowOk(r, u)'
  PROVE  UsersOk'
<1> SUFFICES ASSUME NEW u \in Users PROVE RowOk(users[u], u)'
  BY DEF UsersOk
<1>1. PICK r : r = users'[u]
  OBVIOUS
<1>2. RowOk(r, u)'
  BY <1>1
<1>3. QED  BY <1>1, <1>2 DEF RowOk, PutFor

LEMMA SameUsers ==
  ASSUME AccountInv, Grows, VaultMoves, users' = users, dead' = dead
  PROVE  UsersOk'
<1>1. \A u \in Users : \A r : r = users'[u] => RowOk(r, u)'
  BY RowStays
<1>2. QED  BY <1>1, UsersFrom

LEMMA StringsSame ==
  ASSUME AccountInv, UNCHANGED <<owner, short, long>>
  PROVE  Grows
<1>1. \A r \in long : r.id \in LongIds
  BY DEF LongIds
<1>2. QED  BY <1>1 DEF AccountInv, AccountTypes, Grows, DrawnOk, Drawn

-----------------------------------------------------------------------------
(* Steps that leave the tables of strings alone.                           *)

Calm == UNCHANGED <<vault, users, short, long, dead, owner>>

LEMMA CalmKeeps ==
  ASSUME AccountInv, Calm
  PROVE  /\ Grows /\ VaultMoves /\ TablesOk' /\ UsersOk'
         /\ \A j \in Tasks : \A q : q = task[j] => TaskOk(q)'
         /\ DrawnOk' /\ vault' \in [Users -> Nat] /\ users' \in [Users -> UserRecs]
         /\ short' \subseteq ShortRecs /\ long' \subseteq LongRecs /\ dead' \subseteq Drawn'
<1>1. UNCHANGED <<vault, users, short, long, dead, owner>>
  BY DEF Calm
<1>2. Grows
  BY <1>1, StringsSame
<1>3. VaultMoves
  BY <1>1 DEF VaultMoves
<1>4. TablesOk'
  BY <1>1 DEF AccountInv, TablesOk, ShortIds, LongIds, Drawn
<1>5. UsersOk'
  BY <1>1, <1>2, <1>3, SameUsers
<1>6. \A j \in Tasks : \A q : q = task[j] => TaskOk(q)'
  BY <1>1, <1>2, <1>3, OtherTasks
<1>7. QED
  BY <1>1, <1>2, <1>3, <1>4, <1>5, <1>6 DEF AccountInv, AccountTypes, DrawnOk, Drawn

LEMMA IdleOk == TaskOk(IdleTask)'
  BY IdleFields DEF TaskOk

\* A request that ends.
LEMMA CalmEnds ==
  ASSUME AccountInv, Calm, NEW k \in Tasks, End(k), code' \in CodeRecs, clock' \in [now : Nat, tasks : Nat],
         CodeOk', DeadRejected'
  PROVE  AccountInv'
<1>1. task' = [task EXCEPT ![k] = IdleTask]
  BY DEF End
<1>2. TasksOk' /\ task' \in [Tasks -> TaskRecs]
  BY <1>1, IdleOk, IdleFields, CalmKeeps, TasksKeep
<1>3. QED  BY <1>2, CalmKeeps DEF AccountInv, AccountTypes

\* A request that begins.
LEMMA CalmBegins ==
  ASSUME AccountInv, Calm, UNCHANGED <<code, client, answers, accepted>>, clock' \in [now : Nat, tasks : Nat],
         NEW k \in Tasks, NEW r \in TaskRecs, task' = [task EXCEPT ![k] = r], TaskOk(r)', r.pc # "user"
  PROVE  AccountInv'
<1>1. TasksOk' /\ task' \in [Tasks -> TaskRecs]
  BY CalmKeeps, TasksKeep
<1>2. CodeOk'
  BY CalmKeeps, SameCode
<1>3. DeadRejected' /\ code' \in CodeRecs
  BY DEF AccountInv, DeadRejected, AccountTypes
<1>4. QED  BY <1>1, <1>2, <1>3, CalmKeeps DEF AccountInv, AccountTypes

\* No request moves.
LEMMA CalmAround ==
  ASSUME AccountInv, Calm, task' = task, code' \in CodeRecs, clock' \in [now : Nat, tasks : Nat], CodeOk', DeadRejected'
  PROVE  AccountInv'
<1>1. TasksOk' /\ task' \in [Tasks -> TaskRecs]
  BY CalmKeeps, SameTasks
<1>2. QED  BY <1>1, CalmKeeps DEF AccountInv, AccountTypes

DeadNow == dead \cup ExpiredStrings

LEMMA BeginTypes ==
  ASSUME AccountInv, NEW k \in Tasks, NEW r, Begin(k, r)
  PROVE  /\ DeadNow \in SUBSET Nat /\ clock' \in [now : Nat, tasks : Nat] /\ task[k].pc = "idle"
         /\ task' = [task EXCEPT ![k] = SetDead(r, DeadNow)]
         /\ clock.now \in Nat /\ now \in Nat /\ now + Lifetime \in Nat
<1>1. Drawn \subseteq Nat
  BY FreshIsNew DEF AccountInv, AccountTypes
<1>2. DeadNow \subseteq Drawn
  BY DEF AccountInv, AccountTypes, DeadNow, ExpiredStrings
<1>3. clock.now \in Nat /\ clock' \in [now : Nat, tasks : Nat]
  BY DEF AccountInv, AccountTypes, Begin
<1>4. now \in Nat /\ now + Lifetime \in Nat
  BY <1>3, AccountAssumption DEF now
<1>5. QED  BY <1>1, <1>2, <1>3, <1>4 DEF Begin, DeadNow, SetDead

LEMMA NobodyIsPerson == Users \subseteq Persons
  BY DEF Persons

LEMMA IssueKeeps ==
  ASSUME AccountInv, NEW k \in Tasks, NEW u \in Users, issue_user_token(k, u) \/ approve_device_code(k, u)
  PROVE  AccountInv'
<1>1. PICK o, e :
        o \in {"issue", "approve"} /\ e \in {now, Never, now + Lifetime} /\ Begin(k, SetIssue(Request("put", u), o, e))
  BY DEF issue_user_token, approve_device_code, SetIssue
<1>2. PICK q : q = SetIssue(Request("put", u), o, e)
  OBVIOUS
<1>3. /\ DeadNow \in SUBSET Nat /\ clock' \in [now : Nat, tasks : Nat] /\ e \in Nat
      /\ task' = [task EXCEPT ![k] = SetDead(q, DeadNow)]
  <2>1. Begin(k, q)
    BY <1>1, <1>2
  <2>2. /\ DeadNow \in SUBSET Nat /\ clock' \in [now : Nat, tasks : Nat] /\ now \in Nat /\ now + Lifetime \in Nat
        /\ task' = [task EXCEPT ![k] = SetDead(q, DeadNow)]
    BY <2>1, BeginTypes
  <2>3. QED  BY <1>1, <2>2 DEF Never
<1>4. Request("put", u) \in TaskRecs /\ Request("put", u).pc = "put" /\ Request("put", u).user = u
  BY RequestFields
<1>5. q \in TaskRecs /\ q.pc = "put" /\ q.user = u
  <2>1. o \in Ops
    BY <1>1 DEF Ops
  <2>2. e \in Nat
    BY <1>3
  <2>3. /\ SetIssue(Request("put", u), o, e) \in TaskRecs /\ SetIssue(Request("put", u), o, e).pc = "put"
        /\ SetIssue(Request("put", u), o, e).user = u
    BY <1>4, <2>1, <2>2, BeginFields
  <2>4. QED  BY <1>2, <2>3
<1>6. PICK r \in TaskRecs : task' = [task EXCEPT ![k] = r] /\ r.pc = "put" /\ r.user = u
  <2>1. SetDead(q, DeadNow) \in TaskRecs /\ SetDead(q, DeadNow).pc = "put" /\ SetDead(q, DeadNow).user = u
    BY <1>3, <1>5, BeginFields
  <2>2. QED  BY <1>3, <2>1
<1>7. TaskOk(r)'
  BY <1>6 DEF TaskOk
<1>8. Calm /\ UNCHANGED <<code, client, answers, accepted>>
  BY DEF issue_user_token, approve_device_code, Calm
<1>9. QED  BY <1>3, <1>6, <1>7, <1>8, CalmBegins

\* The row that was found is current when the comparison begins: a dead token
\* among the rows is behind the vault already.
LEMMA VerifyKeeps ==
  ASSUME AccountInv, NEW k \in Tasks, NEW t \in Drawn, verify_user_token(k, t)
  PROVE  AccountInv'
<1>1. PICK u \in RowOf(t) : Begin(k, SetString(Request("compare", u), t))
  BY DEF verify_user_token, SetString
<1>2. PICK d : d = DeadNow
  OBVIOUS
<1>3. PICK q : q = SetString(Request("compare", u), t)
  OBVIOUS
<1>4. /\ d \in SUBSET Nat /\ clock' \in [now : Nat, tasks : Nat] /\ task' = [task EXCEPT ![k] = SetDead(q, d)]
  <2>1. Begin(k, q)
    BY <1>1, <1>3
  <2>2. QED  BY <1>2, <2>1, BeginTypes
<1>5. u \in Users /\ users[u].hash = t /\ ~Expired(users[u].expires) /\ ~users[u].revoked /\ t \in Nat
  BY FreshIsNew DEF RowOf, AccountInv, AccountTypes
<1>6. PICK r \in TaskRecs : /\ task' = [task EXCEPT ![k] = r] /\ r.pc = "compare" /\ r.user = u
                            /\ r.token = t /\ r.dead = d
  <2>1. Request("compare", u) \in TaskRecs /\ Request("compare", u).pc = "compare" /\ Request("compare", u).user = u
    BY <1>5, RequestFields
  <2>2. q \in TaskRecs /\ q.pc = "compare" /\ q.user = u /\ q.token = t
    BY <1>3, <1>5, <2>1, BeginFields
  <2>3. /\ SetDead(q, d) \in TaskRecs /\ SetDead(q, d).pc = "compare" /\ SetDead(q, d).user = u
        /\ SetDead(q, d).token = t /\ SetDead(q, d).dead = d
    BY <1>4, <2>2, BeginFields
  <2>4. QED  BY <1>4, <2>3
<1>7. Calm /\ UNCHANGED <<code, client, answers, accepted>>
  BY DEF verify_user_token, Calm
<1>8. PutFor(t, u) /\ (t \in dead => vault[u] # t)
  <2>1. users[u] # NoUser
    BY <1>5 DEF NoUser
  <2>2. QED  BY <1>5, <2>1 DEF AccountInv, UsersOk, RowOk
<1>9. t \notin ExpiredStrings
  <2>1. \A v \in Users : users[v].hash = t => v = u
    <3>1. \A v \in Users : users[v] = NoUser => users[v].hash \notin Drawn
      BY FreshIsNew DEF NoUser, NoToken, AccountInv, AccountTypes
    <3>2. \A v \in Users : users[v].hash = t => owner[t] = v
      BY <3>1 DEF AccountInv, UsersOk, RowOk, PutFor
    <3>3. QED  BY <1>5, <3>2
  <2>2. \A x \in short : x.hash # t
    BY <1>8 DEF PutFor, ShortIds
  <2>3. \A x \in long : x.id # t
    BY <1>8 DEF PutFor, LongIds
  <2>4. QED  BY <1>5, <2>1, <2>2, <2>3 DEF ExpiredStrings
<1>10. TaskOk(r)'
  BY <1>2, <1>5, <1>6, <1>7, <1>8, <1>9 DEF TaskOk, Calm, Drawn, DeadNow
<1>11. QED  BY <1>4, <1>6, <1>7, <1>10, CalmBegins

\* The vault is read again: what it still holds was not dead at the beginning.
LEMMA CompareKeeps ==
  ASSUME AccountInv, NEW k \in Tasks, CompareToken(k)
  PROVE  AccountInv'
<1>1. /\ Calm /\ End(k) /\ UNCHANGED <<code, client, answers, clock>> /\ task[k].pc = "compare"
      /\ \/ accepted' = accepted
         \/ vault[task[k].user] = task[k].token /\ Accept(task[k].token, k)
  BY DEF CompareToken, Calm, get_unencrypted_token_by_id
<1>2. TaskOk(task[k])
  BY DEF AccountInv, TasksOk
<1>3. DeadRejected'
  <2>1. CASE accepted' = accepted
    BY <2>1 DEF AccountInv, DeadRejected
  <2>2. CASE vault[task[k].user] = task[k].token /\ Accept(task[k].token, k)
    <3>1. task[k].token \notin task[k].dead
      BY <1>1, <1>2, <2>2 DEF TaskOk
    <3>2. accepted' = {[string |-> task[k].token, dead |-> task[k].dead]}
      BY <2>2 DEF Accept
    <3>3. QED  BY <3>1, <3>2 DEF DeadRejected
  <2>3. QED  BY <1>1, <2>1, <2>2
<1>4. CodeOk' /\ code' \in CodeRecs /\ clock' \in [now : Nat, tasks : Nat]
  BY <1>1, CalmKeeps, SameCode DEF AccountInv, AccountTypes
<1>5. QED  BY <1>1, <1>3, <1>4, CalmEnds

LEMMA EndKeeps ==
  ASSUME AccountInv, NEW k \in Tasks, Dropped(k) \/ delete_session_from_disk(k)
  PROVE  AccountInv'
<1>1. Calm /\ End(k) /\ UNCHANGED <<code, client, answers, accepted, clock>>
  BY DEF Dropped, delete_session_from_disk, Calm
<1>2. CodeOk' /\ code' \in CodeRecs /\ clock' \in [now : Nat, tasks : Nat] /\ DeadRejected'
  BY <1>1, CalmKeeps, SameCode DEF AccountInv, AccountTypes, DeadRejected
<1>3. QED  BY <1>1, <1>2, CalmEnds

\* The code is approved with tokens of one user, the refresh token stored.
LEMMA ApproveKeeps ==
  ASSUME AccountInv, NEW k \in Tasks, ApproveCode(k)
  PROVE  AccountInv'
<1>1. PICK r \in TaskRecs : r = task[k]
  BY DEF AccountInv, AccountTypes
<1>2. /\ Calm /\ End(k) /\ UNCHANGED <<client, answers, accepted, clock>> /\ r.pc = "approved"
      /\ code' = [code EXCEPT !.status = "approved", !.user = r.user, !.access = r.token, !.refresh = r.refresh]
  BY <1>1 DEF ApproveCode, Calm
<1>3. DrawnFor(r.token, r.user) /\ Stored(r.refresh, r.user) /\ r.user \in Persons /\ r.token \in Nat /\ r.refresh \in Nat
  BY <1>1, <1>2 DEF AccountInv, TasksOk, TaskOk, TaskRecs
<1>4. /\ code' \in CodeRecs /\ code'.status = "approved" /\ code'.user = r.user /\ code'.access = r.token
      /\ code'.refresh = r.refresh
  BY <1>2, <1>3 DEF AccountInv, AccountTypes, CodeRecs
<1>5. DrawnFor(r.token, r.user)' /\ Stored(r.refresh, r.user)'
  BY <1>2, <1>3, CalmKeeps, KindsStay
<1>6. \A a \in answers : a.stored /\ DrawnFor(a.access, a.user)' /\ DrawnFor(a.refresh, a.user)'
  BY <1>2, CalmKeeps, KindsStay DEF AccountInv, CodeOk
<1>7. CodeOk'
  BY <1>2, <1>4, <1>5, <1>6 DEF CodeOk, DrawnFor, Stored
<1>8. DeadRejected' /\ clock' \in [now : Nat, tasks : Nat]
  BY <1>2 DEF AccountInv, AccountTypes, DeadRejected
<1>9. QED  BY <1>2, <1>4, <1>7, <1>8, CalmEnds

LEMMA RequestCodeKeeps ==
  ASSUME AccountInv, request_device_code
  PROVE  AccountInv'
<1>1. /\ Calm /\ UNCHANGED <<task, answers, accepted, clock>>
      /\ code' = [NoCode EXCEPT !.status = "pending", !.expires = now + Lifetime]
  BY DEF request_device_code, issue_device_code, Calm
<1>2. now + Lifetime \in Nat
  BY AccountAssumption DEF AccountInv, AccountTypes, now
<1>3. NoCode \in CodeRecs
  BY DEF NoCode, CodeRecs, Persons, NoToken
<1>4. code' \in CodeRecs /\ code'.status = "pending"
  BY <1>1, <1>2, <1>3 DEF CodeRecs
<1>5. \A a \in answers : a.stored /\ DrawnFor(a.access, a.user)' /\ DrawnFor(a.refresh, a.user)'
  BY <1>1, CalmKeeps, KindsStay DEF AccountInv, CodeOk
<1>6. CodeOk'
  BY <1>1, <1>4, <1>5 DEF CodeOk, DrawnFor
<1>7. DeadRejected' /\ clock' \in [now : Nat, tasks : Nat]
  BY <1>1 DEF AccountInv, AccountTypes, DeadRejected
<1>8. QED  BY <1>1, <1>4, <1>6, <1>7, CalmAround

LEMMA PollKeeps ==
  ASSUME AccountInv, poll_token
  PROVE  AccountInv'
<1>1. /\ Calm /\ UNCHANGED <<task, accepted, clock, code>> /\ client = "polling"
  BY DEF poll_token, Calm
<1>2. code \in CodeRecs /\ code.status \in {"pending", "approved"}
  BY <1>1 DEF AccountInv, AccountTypes, CodeOk, CodeRecs
<1>3. device_token.error = "none" => code.status = "approved"
  <2>1. poll_device_token \in {"authorization_expired", "authorization_pending", "ok"}
    BY DEF poll_device_token
  <2>2. poll_device_token # "ok" => device_token.error # "none"
    BY <2>1 DEF device_token
  <2>3. poll_device_token = "ok" => code.status # "pending"
    BY DEF poll_device_token
  <2>4. QED  BY <1>2, <2>2, <2>3
<1>4. PICK c : c = code
  OBVIOUS
<1>5. \A a \in answers' : a.stored /\ DrawnFor(a.access, a.user)' /\ DrawnFor(a.refresh, a.user)'
  <2>1. \A a \in answers : a.stored /\ DrawnFor(a.access, a.user)' /\ DrawnFor(a.refresh, a.user)'
    BY <1>1, CalmKeeps, KindsStay DEF AccountInv, CodeOk
  <2>2. CASE device_token.error # "none"
    <3>1. answers' = answers
      BY <2>2 DEF poll_token
    <3>2. QED  BY <2>1, <3>1
  <2>3. CASE device_token.error = "none"
    <3>1. DrawnFor(c.access, c.user) /\ Stored(c.refresh, c.user)
      BY <1>3, <1>4, <2>3 DEF AccountInv, CodeOk
    <3>2. DrawnFor(c.access, c.user)' /\ DrawnFor(c.refresh, c.user)'
      BY <1>1, <3>1, CalmKeeps, KindsStay DEF Stored
    <3>3. PICK b : b = \E r \in short : r.hash = c.refresh /\ r.user = c.user
      OBVIOUS
    <3>4. b
      BY <3>1, <3>3 DEF Stored
    <3>5. answers' = {[user |-> c.user, access |-> c.access, refresh |-> c.refresh, stored |-> b]}
      BY <1>4, <2>3, <3>3 DEF poll_token
    <3>6. QED  BY <3>2, <3>4, <3>5
  <2>4. QED  BY <2>2, <2>3
<1>6. code.status = "approved" => DrawnFor(c.access, c.user)' /\ Stored(c.refresh, c.user)'
  BY <1>1, <1>4, CalmKeeps, KindsStay DEF AccountInv, CodeOk
<1>7. CodeOk'
  BY <1>1, <1>2, <1>4, <1>5, <1>6 DEF CodeOk, DrawnFor, Stored
<1>8. DeadRejected' /\ clock' \in [now : Nat, tasks : Nat] /\ code' \in CodeRecs
  BY <1>1 DEF AccountInv, AccountTypes, DeadRejected
<1>9. QED  BY <1>1, <1>7, <1>8, CalmAround

LEMMA ClockKeeps ==
  ASSUME AccountInv, ClockTicks \/ UNCHANGED avars
  PROVE  AccountInv'
<1>1. Calm /\ UNCHANGED <<task, code, client, answers, accepted>>
  BY DEF ClockTicks, avars, Calm
<1>2. clock' \in [now : Nat, tasks : Nat]
  BY DEF ClockTicks, avars, AccountInv, AccountTypes
<1>3. DeadRejected' /\ code' \in CodeRecs /\ CodeOk'
  BY <1>1, CalmKeeps, SameCode DEF AccountInv, AccountTypes, DeadRejected
<1>4. QED  BY <1>1, <1>2, <1>3, CalmAround

-----------------------------------------------------------------------------
(* Sessions                                                                *)

\* No row of a user has the string of a session.
LEMMA SessionStrings ==
  ASSUME AccountInv, NEW t \in ShortIds \cup LongIds, NEW u \in Users
  PROVE  users[u].hash # t /\ t \in Drawn
<1>1. t \in Drawn /\ t > 0
  BY FreshIsNew DEF AccountInv, AccountTypes, TablesOk
<1>2. CASE users[u] = NoUser
  BY <1>1, <1>2 DEF NoUser, NoToken
<1>3. CASE users[u] # NoUser
  BY <1>1, <1>3 DEF AccountInv, UsersOk, RowOk, PutFor
<1>4. QED  BY <1>2, <1>3

LEMMA LookupKeeps ==
  ASSUME AccountInv, NEW t \in Drawn, lookup_short_session(t)
  PROVE  AccountInv'
<1>1. /\ Calm /\ UNCHANGED <<task, code, client, answers, clock>>
      /\ accepted' = {[string |-> t, dead |-> dead \cup ExpiredStrings]}
  BY DEF lookup_short_session, Calm
<1>2. PICK r \in short : r.hash = t /\ ~Expired(r.expires)
  BY DEF lookup_short_session
<1>3. t \in ShortIds
  BY <1>2 DEF ShortIds
<1>4. t \notin dead /\ t \notin LongIds
  BY <1>3 DEF AccountInv, TablesOk
<1>5. t \notin ExpiredStrings
  <2>1. \A u \in Users : users[u].hash # t
    BY <1>3, SessionStrings
  <2>2. \A q \in short : q.hash = t => q = r
    BY <1>2 DEF AccountInv, TablesOk
  <2>3. \A q \in long : q.id # t
    BY <1>4 DEF LongIds
  <2>4. QED  BY <1>2, <2>1, <2>2, <2>3 DEF ExpiredStrings
<1>6. DeadRejected'
  BY <1>1, <1>4, <1>5 DEF DeadRejected
<1>7. clock' \in [now : Nat, tasks : Nat] /\ code' \in CodeRecs /\ CodeOk'
  BY <1>1, CalmKeeps, SameCode DEF AccountInv, AccountTypes
<1>8. QED  BY <1>1, <1>6, <1>7, CalmAround

\* Rows of long sessions are taken away or revoked, no string is drawn.
LEMMA LongShrinks ==
  ASSUME AccountInv, UNCHANGED <<vault, users, short, code, client, answers, owner>>,
         long' \subseteq LongRecs, \A r \in long' : \E q \in long : q.id = r.id /\ (q.status = "revoked" => r.status = "revoked"),
         \A q, r \in long' : q.id = r.id => q = r,
         dead \subseteq dead', dead' \subseteq dead \cup LongIds,
         \A r \in long' : r.id \in dead' \ dead => r.status = "revoked",
         task' \in [Tasks -> TaskRecs], TasksOk', DeadRejected', clock' \in [now : Nat, tasks : Nat]
  PROVE  AccountInv'
<1>1. \A r \in long' : r.id \in LongIds
  BY DEF LongIds
<1>2. Grows /\ VaultMoves
  BY <1>1 DEF AccountInv, AccountTypes, Grows, DrawnOk, Drawn, VaultMoves
<1>3. LongIds \subseteq Drawn /\ ShortIds \cap LongIds = {}
  BY DEF AccountInv, TablesOk
<1>4. TablesOk'
  <2>1. LongIds' \subseteq LongIds /\ ShortIds' = ShortIds /\ Drawn' = Drawn
    BY <1>1 DEF LongIds, ShortIds, Drawn
  <2>2. dead' \cap ShortIds' = {}
    BY <1>3, <2>1 DEF AccountInv, TablesOk
  <2>3. ASSUME NEW r \in long', r.id \in dead' PROVE r.status = "revoked"
    <3>1. CASE r.id \in dead
      <4>1. PICK q \in long : q.id = r.id /\ (q.status = "revoked" => r.status = "revoked")
        OBVIOUS
      <4>2. q.status = "revoked"
        BY <3>1, <4>1 DEF AccountInv, TablesOk
      <4>3. QED  BY <4>1, <4>2
    <3>2. CASE r.id \notin dead
      BY <2>3, <3>2
    <3>3. QED  BY <3>1, <3>2
  <2>4. QED  BY <1>3, <2>1, <2>2, <2>3 DEF AccountInv, TablesOk
<1>5. UsersOk'
  <2>1. ASSUME NEW u \in Users, NEW r, r = users'[u] PROVE RowOk(r, u)'
    <3>1. r = users[u]
      BY <2>1
    <3>2. r.hash \in dead' => r.hash \in dead
      BY <3>1, SessionStrings
    <3>3. QED  BY <1>2, <3>1, <3>2, RowStays
  <2>2. QED  BY <2>1, UsersFrom
<1>6. CodeOk'
  BY <1>2, SameCode
<1>7. dead' \subseteq Drawn'
  BY <1>3 DEF AccountInv, AccountTypes, Drawn
<1>8. AccountTypes'
  BY <1>2, <1>7 DEF AccountInv, AccountTypes, Grows
<1>9. QED  BY <1>4, <1>5, <1>6, <1>8 DEF AccountInv

LEMMA ResolveKeeps ==
  ASSUME AccountInv, NEW u \in Users, \/ \E id \in Drawn : resolve_long_session(u, id)
                                      \/ list_long_sessions(u)
  PROVE  AccountInv'
<1>1. UNCHANGED <<vault, users, short, code, client, answers, owner, task, dead, clock>>
  BY DEF resolve_long_session, list_long_sessions
<1>2. long' \subseteq long
  BY DEF resolve_long_session, list_long_sessions, PurgeLong
<1>3. \A t \in Drawn : t \in LongIds => t \notin ShortIds /\ \A v \in Users : users[v].hash # t
  BY SessionStrings DEF AccountInv, TablesOk
<1>4. DeadRejected'
  <2>1. CASE accepted' = accepted
    BY <2>1 DEF AccountInv, DeadRejected
  <2>2. CASE accepted' # accepted
    <3>1. PICK id \in Drawn : resolve_long_session(u, id)
      BY <2>2 DEF list_long_sessions
    <3>2. PICK r \in long : /\ r.id = id /\ r.status = "active" /\ ~Expired(r.expires)
                            /\ accepted' = {[string |-> id, dead |-> dead \cup ExpiredStrings]}
      BY <2>2, <3>1 DEF resolve_long_session
    <3>3. id \notin dead
      BY <3>2 DEF AccountInv, TablesOk
    <3>4. id \in LongIds
      BY <3>2 DEF LongIds
    <3>5. \A q \in long : q.id = id => q = r
      BY <3>2 DEF AccountInv, TablesOk
    <3>6. \A q \in short : q.hash # id
      BY <1>3, <3>4 DEF ShortIds
    <3>7. id \notin ExpiredStrings
      BY <1>3, <3>2, <3>4, <3>5, <3>6 DEF ExpiredStrings
    <3>8. QED  BY <3>2, <3>3, <3>7 DEF DeadRejected
  <2>3. QED  BY <2>1, <2>2
<1>5. Grows /\ VaultMoves
  BY <1>1, <1>2 DEF AccountInv, AccountTypes, Grows, DrawnOk, Drawn, VaultMoves, LongIds
<1>6. TasksOk' /\ task' \in [Tasks -> TaskRecs]
  <2>1. \A j \in Tasks : \A q : q = task[j] => TaskOk(q)'
    BY <1>1, <1>5, OtherTasks
  <2>2. QED  BY <1>1, <2>1, SameTasks
<1>7. /\ \A r \in long' : \E q \in long : q.id = r.id /\ (q.status = "revoked" => r.status = "revoked")
      /\ \A q, r \in long' : q.id = r.id => q = r
      /\ long' \subseteq LongRecs /\ clock' \in [now : Nat, tasks : Nat]
  BY <1>1, <1>2 DEF AccountInv, AccountTypes, TablesOk
<1>8. QED  BY <1>1, <1>4, <1>6, <1>7, LongShrinks

SetStatus(r) == [r EXCEPT !.status = "revoked"]

LEMMA StatusFields ==
  ASSUME NEW r \in LongRecs
  PROVE  SetStatus(r) \in LongRecs /\ SetStatus(r).id = r.id /\ SetStatus(r).status = "revoked"
  BY DEF SetStatus, LongRecs

LEMMA RevokeSessionKeeps ==
  ASSUME AccountInv, NEW k \in Tasks, NEW u \in Users, NEW id \in Drawn, session_revoke(k, u, id)
  PROVE  AccountInv'
<1>1. /\ UNCHANGED <<vault, users, short, code, client, answers, accepted, owner>> /\ dead' = dead \cup {id}
      /\ long' = {IF r.id = id THEN SetStatus(r) ELSE r : r \in long}
  BY DEF session_revoke, revoke_long_session, SetStatus
<1>2. id \in LongIds
  BY DEF session_revoke, revoke_long_session, LongIds
<1>3. ASSUME NEW r \in long'
      PROVE  /\ r \in LongRecs
             /\ \E q \in long : /\ q.id = r.id /\ (q.status = "revoked" => r.status = "revoked")
                                /\ r = IF q.id = id THEN SetStatus(q) ELSE q
             /\ r.id = id => r.status = "revoked"
  <2>1. PICK q \in long : r = IF q.id = id THEN SetStatus(q) ELSE q
    BY <1>1
  <2>2. q \in LongRecs
    BY DEF AccountInv, AccountTypes
  <2>3. SetStatus(q) \in LongRecs /\ SetStatus(q).id = q.id /\ SetStatus(q).status = "revoked"
    BY <2>2, StatusFields
  <2>4. QED  BY <2>1, <2>2, <2>3
<1>4. \A q, r \in long' : q.id = r.id => q = r
  BY <1>3 DEF AccountInv, TablesOk
<1>5. Grows /\ VaultMoves
  BY <1>1, <1>3 DEF AccountInv, AccountTypes, Grows, DrawnOk, Drawn, VaultMoves, LongIds
<1>6. PICK q : q = SetString(Request("delete_file", u), id)
  OBVIOUS
<1>7. Begin(k, q)
  BY <1>6 DEF session_revoke, SetString
<1>8. /\ DeadNow \in SUBSET Nat /\ clock' \in [now : Nat, tasks : Nat] /\ task' = [task EXCEPT ![k] = SetDead(q, DeadNow)]
  BY <1>7, BeginTypes
<1>9. PICK r \in TaskRecs : task' = [task EXCEPT ![k] = r] /\ r.pc = "delete_file" /\ r.user = u
  <2>1. /\ Request("delete_file", u) \in TaskRecs /\ Request("delete_file", u).pc = "delete_file"
        /\ Request("delete_file", u).user = u
    BY RequestFields
  <2>2. id \in Nat
    BY FreshIsNew DEF AccountInv, AccountTypes
  <2>3. q \in TaskRecs /\ q.pc = "delete_file" /\ q.user = u
    BY <1>6, <2>1, <2>2, BeginFields
  <2>4. SetDead(q, DeadNow) \in TaskRecs /\ SetDead(q, DeadNow).pc = "delete_file" /\ SetDead(q, DeadNow).user = u
    BY <1>8, <2>3, BeginFields
  <2>5. QED  BY <1>8, <2>4
<1>10. TaskOk(r)'
  BY <1>9 DEF TaskOk
<1>11. \A j \in Tasks : task[j].pc = "user" => task[j].token # id
  BY <1>2 DEF AccountInv, TasksOk, TaskOk, PutOk, PutFor
<1>12. \A j \in Tasks : \A x : x = task[j] => TaskOk(x)'
  <2>1. \A j \in Tasks : task[j].pc = "user" /\ task[j].token \in dead' => task[j].token \in dead
    BY <1>1, <1>11
  <2>2. \A v \in Users : users'[v].hash = users[v].hash
    BY <1>1
  <2>3. QED  BY <1>5, <2>1, <2>2, OtherTasks
<1>13. TasksOk' /\ task' \in [Tasks -> TaskRecs]
  BY <1>9, <1>10, <1>12, TasksKeep
<1>14. DeadRejected'
  BY <1>1 DEF AccountInv, DeadRejected
<1>15. long' \subseteq LongRecs /\ (\A x \in long' : x.id \in dead' \ dead => x.status = "revoked")
  BY <1>1, <1>3
<1>16. \A x \in long' : \E y \in long : y.id = x.id /\ (y.status = "revoked" => x.status = "revoked")
  BY <1>3
<1>17. QED  BY <1>1, <1>2, <1>4, <1>8, <1>13, <1>14, <1>15, <1>16, LongShrinks

-----------------------------------------------------------------------------
(* Steps that draw a string                                                *)

LEMMA ShortAdds ==
  ASSUME AccountInv, NEW u \in Users, Draw(u), NEW e \in Nat, UNCHANGED <<vault, users, long, dead>>,
         short' = short \cup {[user |-> u, hash |-> Fresh, expires |-> e]}
  PROVE  /\ Grows /\ VaultMoves /\ TablesOk' /\ (\A f : f = Fresh => Stored(f, u)') /\ dead' \subseteq Drawn'
         /\ short' \subseteq ShortRecs
<1>1. /\ Fresh \in Nat /\ Fresh \notin Drawn /\ DrawnOk' /\ Drawn' = Drawn \cup {Fresh} /\ owner'[Fresh] = u
      /\ \A t \in Drawn : owner'[t] = owner[t]
  BY FreshIsNew, DrawGrows DEF AccountInv, AccountTypes
<1>2. PICK f \in Nat : f = Fresh
  BY <1>1
<1>3. PICK s \in ShortRecs : s.hash = f /\ s.user = u /\ short' = short \cup {s}
  <2>1. PICK s : s = [user |-> u, hash |-> f, expires |-> e]
    OBVIOUS
  <2>2. s \in ShortRecs /\ s.hash = f /\ s.user = u
    BY <2>1 DEF ShortRecs
  <2>3. QED  BY <1>2, <2>1, <2>2
<1>4. Grows
  BY <1>1, <1>2, <1>3 DEF Grows, LongIds
<1>5. VaultMoves
  BY DEF VaultMoves
<1>6. ShortIds' = ShortIds \cup {f} /\ LongIds' = LongIds
  BY <1>3 DEF ShortIds, LongIds
<1>7. TablesOk'
  <2>1. f \notin LongIds /\ f \notin ShortIds /\ f \notin dead
    BY <1>1, <1>2 DEF AccountInv, AccountTypes, TablesOk
  <2>2. \A q, r \in short' : q.hash = r.hash => q = r
    <3>1. \A q \in short : q.hash # f
      BY <2>1 DEF ShortIds
    <3>2. QED  BY <1>3, <3>1 DEF AccountInv, TablesOk
  <2>3. QED  BY <1>1, <1>2, <1>6, <2>1, <2>2 DEF AccountInv, TablesOk
<1>8. Stored(f, u)'
  BY <1>1, <1>2, <1>3 DEF Stored, DrawnFor
<1>9. \A g : g = Fresh => Stored(g, u)'
  BY <1>2, <1>8
<1>10. QED  BY <1>1, <1>3, <1>4, <1>5, <1>7, <1>8, <1>9 DEF AccountInv, AccountTypes

LEMMA InsertShortKeeps ==
  ASSUME AccountInv, NEW u \in Users, insert_short_session(u)
  PROVE  AccountInv'
<1>1. /\ Draw(u) /\ UNCHANGED <<vault, users, long, code, task, client, answers, accepted, dead, clock>>
      /\ short' = short \cup {[user |-> u, hash |-> Fresh, expires |-> now]}
  BY DEF insert_short_session
<1>2. now \in Nat
  BY DEF AccountInv, AccountTypes, now
<1>3. Grows /\ VaultMoves /\ TablesOk' /\ dead' \subseteq Drawn' /\ short' \subseteq ShortRecs
  BY <1>1, <1>2, ShortAdds
<1>4. TasksOk' /\ task' \in [Tasks -> TaskRecs]
  <2>1. \A j \in Tasks : \A q : q = task[j] => TaskOk(q)'
    BY <1>1, <1>3, OtherTasks
  <2>2. QED  BY <1>1, <2>1, SameTasks
<1>5. UsersOk' /\ CodeOk'
  BY <1>1, <1>3, SameUsers, SameCode
<1>6. DeadRejected'
  BY <1>1 DEF AccountInv, DeadRejected
<1>7. QED  BY <1>1, <1>3, <1>4, <1>5, <1>6 DEF AccountInv, AccountTypes, Grows

LEMMA InsertRefreshKeeps ==
  ASSUME AccountInv, NEW k \in Tasks, InsertRefresh(k)
  PROVE  AccountInv'
<1>1. PICK q \in TaskRecs : q = task[k]
  BY DEF AccountInv, AccountTypes
<1>2. PICK f : f = Fresh
  OBVIOUS
<1>3. /\ q.pc = "short" /\ Draw(q.user) /\ UNCHANGED <<vault, users, long, code, client, answers, accepted, dead, clock>>
      /\ short' = short \cup {[user |-> q.user, hash |-> Fresh, expires |-> q.expires]}
      /\ task' = [task EXCEPT ![k] = SetRefresh(q, "approved", f)]
  BY <1>1, <1>2 DEF InsertRefresh, SetRefresh, AccountInv, AccountTypes
<1>4. q.user \in Users /\ DrawnFor(q.token, q.user) /\ q.expires \in Nat /\ f \in Nat
  BY <1>1, <1>2, <1>3, FreshIsNew DEF AccountInv, AccountTypes, TasksOk, TaskOk, TaskRecs
<1>5. Grows /\ VaultMoves /\ TablesOk' /\ Stored(f, q.user)' /\ dead' \subseteq Drawn' /\ short' \subseteq ShortRecs
  BY <1>2, <1>3, <1>4, ShortAdds
<1>6. PICK r \in TaskRecs : /\ task' = [task EXCEPT ![k] = r] /\ r.pc = "approved" /\ r.user = q.user
                            /\ r.token = q.token /\ r.refresh = f
  <2>1. "approved" \in Pcs
    BY DEF Pcs
  <2>2. /\ SetRefresh(q, "approved", f) \in TaskRecs /\ SetRefresh(q, "approved", f).pc = "approved"
        /\ SetRefresh(q, "approved", f).user = q.user /\ SetRefresh(q, "approved", f).token = q.token
        /\ SetRefresh(q, "approved", f).refresh = f
    BY <1>4, <2>1, TaskFields
  <2>3. QED  BY <1>3, <2>2
<1>7. TaskOk(r)'
  <2>1. DrawnFor(r.token, r.user)' /\ Stored(r.refresh, r.user)'
    BY <1>4, <1>5, <1>6, KindsStay
  <2>2. QED  BY <1>4, <1>6, <2>1 DEF TaskOk
<1>8. \A j \in Tasks : \A x : x = task[j] => TaskOk(x)'
  BY <1>3, <1>5, OtherTasks
<1>9. TasksOk' /\ task' \in [Tasks -> TaskRecs]
  BY <1>6, <1>7, <1>8, TasksKeep
<1>10. UsersOk' /\ CodeOk'
  BY <1>3, <1>5, SameUsers, SameCode
<1>11. DeadRejected'
  BY <1>3 DEF AccountInv, DeadRejected
<1>12. QED  BY <1>3, <1>5, <1>9, <1>10, <1>11 DEF AccountInv, AccountTypes, Grows

LEMMA IssueSessionKeeps ==
  ASSUME AccountInv, NEW u \in Users, session_issue(u)
  PROVE  AccountInv'
<1>1. /\ Draw(u) /\ UNCHANGED <<vault, users, short, code, task, client, answers, accepted, dead, clock>>
      /\ long' = PurgeLong(u) \cup {[user |-> u, id |-> Fresh, status |-> "active", expires |-> now + Lifetime]}
  BY DEF session_issue, issue_long_session
<1>2. now + Lifetime \in Nat
  BY AccountAssumption DEF AccountInv, AccountTypes, now
<1>3. /\ Fresh \in Nat /\ Fresh \notin Drawn /\ DrawnOk' /\ Drawn' = Drawn \cup {Fresh}
      /\ \A t \in Drawn : owner'[t] = owner[t]
  BY <1>1, FreshIsNew, DrawGrows DEF AccountInv, AccountTypes
<1>4. PICK f \in Nat : f = Fresh
  BY <1>3
<1>5. PICK s \in LongRecs : s.id = f /\ long' = PurgeLong(u) \cup {s}
  <2>1. PICK s : s = [user |-> u, id |-> f, status |-> "active", expires |-> now + Lifetime]
    OBVIOUS
  <2>2. s \in LongRecs /\ s.id = f
    BY <1>2, <2>1 DEF LongRecs
  <2>3. QED  BY <1>1, <1>4, <2>1, <2>2
<1>6. PurgeLong(u) \subseteq long
  BY DEF PurgeLong
<1>7. Grows
  BY <1>1, <1>3, <1>4, <1>5, <1>6 DEF Grows, LongIds
<1>8. VaultMoves
  BY <1>1 DEF VaultMoves
<1>9. TablesOk'
  <2>1. f \notin LongIds /\ f \notin ShortIds /\ f \notin dead
    BY <1>3, <1>4 DEF AccountInv, AccountTypes, TablesOk
  <2>2. ShortIds' = ShortIds /\ LongIds' \subseteq LongIds \cup {f}
    BY <1>1, <1>5, <1>6 DEF ShortIds, LongIds
  <2>3. \A q \in long : q.id # f
    BY <2>1 DEF LongIds
  <2>4. \A q, r \in long' : q.id = r.id => q = r
    BY <1>5, <1>6, <2>3 DEF AccountInv, TablesOk
  <2>5. \A r \in long' : r.id \in dead' => r.status = "revoked"
    BY <1>1, <1>5, <1>6, <2>1 DEF AccountInv, TablesOk
  <2>6. \A q, r \in short' : q.hash = r.hash => q = r
    BY <1>1 DEF AccountInv, TablesOk
  <2>7. ShortIds' \subseteq Drawn' /\ LongIds' \subseteq Drawn' /\ ShortIds' \cap LongIds' = {} /\ dead' \cap ShortIds' = {}
    BY <1>1, <1>3, <1>4, <2>1, <2>2 DEF AccountInv, TablesOk
  <2>8. QED  BY <2>4, <2>5, <2>6, <2>7 DEF TablesOk
<1>10. TasksOk' /\ task' \in [Tasks -> TaskRecs]
  <2>1. \A j \in Tasks : \A q : q = task[j] => TaskOk(q)'
    BY <1>1, <1>7, <1>8, OtherTasks
  <2>2. QED  BY <1>1, <2>1, SameTasks
<1>11. UsersOk' /\ CodeOk'
  BY <1>1, <1>7, <1>8, SameUsers, SameCode
<1>12. DeadRejected'
  BY <1>1 DEF AccountInv, DeadRejected
<1>13. long' \subseteq LongRecs /\ dead' \subseteq Drawn'
  BY <1>1, <1>3, <1>5, <1>6 DEF AccountInv, AccountTypes
<1>14. QED  BY <1>1, <1>3, <1>9, <1>10, <1>11, <1>12, <1>13 DEF AccountInv, AccountTypes

\* The vault moves on to the new token, which no row has yet.
LEMMA PutKeeps ==
  ASSUME AccountInv, NEW k \in Tasks, put_unencrypted_token(k)
  PROVE  AccountInv'
<1>1. PICK q \in TaskRecs : q = task[k]
  BY DEF AccountInv, AccountTypes
<1>2. PICK f : f = Fresh
  OBVIOUS
<1>3. /\ q.pc = "put" /\ Draw(q.user) /\ UNCHANGED <<users, short, long, code, client, answers, accepted, dead, clock>>
      /\ vault' = [vault EXCEPT ![q.user] = f]
      /\ task' = [task EXCEPT ![k] = SetToken(q, "user", f)]
  BY <1>1, <1>2 DEF put_unencrypted_token, SetToken, AccountInv, AccountTypes
<1>4. q.user \in Users
  BY <1>1, <1>3 DEF AccountInv, TasksOk, TaskOk
<1>5. /\ f \in Nat /\ f > 0 /\ f \notin Drawn /\ \A t \in Drawn : t \in Nat /\ t > 0 /\ t < f
  BY <1>2, FreshIsNew DEF AccountInv, AccountTypes
<1>6. DrawnOk' /\ Drawn' = Drawn \cup {f} /\ owner'[f] = q.user /\ \A t \in Drawn : owner'[t] = owner[t]
  BY <1>2, <1>3, <1>4, DrawGrows DEF AccountInv, AccountTypes
<1>7. vault' \in [Users -> Nat] /\ \A u \in Users : vault'[u] = IF u = q.user THEN f ELSE vault[u]
  BY <1>3, <1>5 DEF AccountInv, AccountTypes
<1>8. Grows
  BY <1>3, <1>6 DEF Grows, LongIds
<1>9. VaultMoves
  BY <1>5, <1>7 DEF VaultMoves
<1>10. ShortIds' = ShortIds /\ LongIds' = LongIds
  BY <1>3 DEF ShortIds, LongIds
<1>11. TablesOk' /\ dead' \subseteq Drawn'
  BY <1>3, <1>6, <1>10 DEF AccountInv, AccountTypes, TablesOk
<1>12. PICK r \in TaskRecs : /\ task' = [task EXCEPT ![k] = r] /\ r.pc = "user" /\ r.user = q.user /\ r.token = f
  <2>1. "user" \in Pcs
    BY DEF Pcs
  <2>2. /\ SetToken(q, "user", f) \in TaskRecs /\ SetToken(q, "user", f).pc = "user"
        /\ SetToken(q, "user", f).user = q.user /\ SetToken(q, "user", f).token = f
    BY <1>5, <2>1, TaskFields
  <2>3. QED  BY <1>3, <2>2
<1>13. TaskOk(r)'
  <2>1. PutFor(f, q.user)'
    BY <1>5, <1>6, <1>10 DEF PutFor, AccountInv, TablesOk
  <2>2. \A u \in Users : users'[u].hash # f
    <3>1. \A u \in Users : users[u] = NoUser => users[u].hash # f
      BY <1>5 DEF NoUser, NoToken
    <3>2. \A u \in Users : users[u] # NoUser => users[u].hash # f
      BY <1>5 DEF AccountInv, UsersOk, RowOk, PutFor
    <3>3. QED  BY <1>3, <3>1, <3>2
  <2>3. f \notin dead'
    BY <1>3, <1>5 DEF AccountInv, AccountTypes
  <2>4. f <= vault'[q.user]
    BY <1>4, <1>5, <1>7
  <2>5. PutOk(r)'
    BY <1>12, <2>1, <2>2, <2>3, <2>4 DEF PutOk, PutFor
  <2>6. QED  BY <1>4, <1>12, <2>5 DEF TaskOk
<1>14. \A j \in Tasks : \A x : x = task[j] => TaskOk(x)'
  BY <1>3, <1>8, <1>9, OtherTasks
<1>15. \A j \in Tasks : task[j].pc = "user" => task[j].token # f
  BY <1>5 DEF AccountInv, TasksOk, TaskOk, PutOk, PutFor
<1>16. TasksOk' /\ task' \in [Tasks -> TaskRecs]
  BY <1>12, <1>13, <1>14, <1>15, TasksKeep
<1>17. UsersOk' /\ CodeOk'
  BY <1>3, <1>8, <1>9, SameUsers, SameCode
<1>18. DeadRejected'
  BY <1>3 DEF AccountInv, DeadRejected
<1>19. QED  BY <1>3, <1>6, <1>7, <1>11, <1>16, <1>17, <1>18 DEF AccountInv, AccountTypes

SetRevoked(r) == [r EXCEPT !.revoked = TRUE]

LEMMA RevokedFields ==
  ASSUME NEW r \in UserRecs
  PROVE  SetRevoked(r) \in UserRecs /\ SetRevoked(r).hash = r.hash /\ SetRevoked(r).revoked
  BY DEF SetRevoked, UserRecs

\* A revoked row is refused by its own flag; no other row or request has its token.
LEMMA RevokeKeeps ==
  ASSUME AccountInv, NEW u \in Users, revoke_user_token(u) \/ \E t \in Drawn : token_revoke(u, t)
  PROVE  AccountInv'
<1>1. PICK h : h = users[u].hash
  OBVIOUS
<1>2. /\ UNCHANGED <<vault, short, long, code, task, client, answers, accepted, owner, clock>>
      /\ users' = [users EXCEPT ![u] = SetRevoked(users[u])] /\ dead' = dead \cup {h} /\ users[u] # NoUser
  <2>1. CASE revoke_user_token(u)
    BY <1>1, <2>1 DEF revoke_user_token, SetRevoked, AccountInv, AccountTypes
  <2>2. CASE \E t \in Drawn : token_revoke(u, t)
    <3>1. NoUser.revoked
      BY DEF NoUser
    <3>2. QED  BY <1>1, <2>2, <3>1 DEF token_revoke, SetRevoked, AccountInv, AccountTypes
  <2>3. QED  BY <2>1, <2>2
<1>3. PutFor(h, u)
  BY <1>1, <1>2 DEF AccountInv, UsersOk, RowOk
<1>4. Grows
  BY <1>2, StringsSame
<1>5. VaultMoves
  BY <1>2 DEF VaultMoves
<1>6. users[u] \in UserRecs
  BY DEF AccountInv, AccountTypes
<1>7. SetRevoked(users[u]) \in UserRecs /\ SetRevoked(users[u]).hash = h /\ SetRevoked(users[u]).revoked
  BY <1>1, <1>6, RevokedFields
<1>8. /\ users' \in [Users -> UserRecs]
      /\ \A v \in Users : users'[v] = IF v = u THEN SetRevoked(users[u]) ELSE users[v]
  BY <1>2, <1>7 DEF AccountInv, AccountTypes
<1>9. \A v \in Users : users'[v].hash = users[v].hash
  BY <1>1, <1>7, <1>8
<1>10. UsersOk'
  <2>1. ASSUME NEW v \in Users, NEW r, r = users'[v] PROVE RowOk(r, v)'
    <3>1. CASE v = u
      <4>1. r.hash = h /\ r.revoked
        BY <1>7, <1>8, <2>1, <3>1
      <4>2. PutFor(h, u)'
        BY <1>3, <1>4, KindsStay
      <4>3. QED  BY <3>1, <4>1, <4>2 DEF RowOk, PutFor
    <3>2. CASE v # u
      <4>1. r = users[v]
        BY <1>8, <2>1, <3>2
      <4>2. r = NoUser => r.revoked
        BY DEF NoUser
      <4>3. r # NoUser => r.hash # h
        BY <1>3, <3>2, <4>1 DEF AccountInv, UsersOk, RowOk, PutFor
      <4>4. r.hash \in dead' /\ ~r.revoked => r.hash \in dead
        BY <1>2, <4>2, <4>3
      <4>5. QED  BY <1>4, <1>5, <4>1, <4>4, RowStays
    <3>3. QED  BY <3>1, <3>2
  <2>2. QED  BY <2>1, UsersFrom
<1>11. TablesOk' /\ dead' \subseteq Drawn'
  <2>1. ShortIds' = ShortIds /\ LongIds' = LongIds /\ Drawn' = Drawn
    BY <1>2 DEF ShortIds, LongIds, Drawn
  <2>2. dead' \cap ShortIds' = {} /\ dead' \subseteq Drawn'
    BY <1>2, <1>3, <2>1 DEF AccountInv, AccountTypes, TablesOk, PutFor
  <2>3. \A r \in long' : r.id \in dead' => r.status = "revoked"
    BY <1>2, <1>3 DEF AccountInv, TablesOk, PutFor, LongIds
  <2>4. QED  BY <1>2, <2>1, <2>2, <2>3 DEF AccountInv, TablesOk
<1>12. TasksOk' /\ task' \in [Tasks -> TaskRecs]
  <2>1. \A j \in Tasks : task[j].pc = "user" => task[j].token # h
    BY <1>1 DEF AccountInv, TasksOk, TaskOk, PutOk
  <2>2. \A j \in Tasks : task[j].pc = "user" /\ task[j].token \in dead' => task[j].token \in dead
    BY <1>2, <2>1
  <2>3. \A j \in Tasks : \A q : q = task[j] => TaskOk(q)'
    BY <1>4, <1>5, <1>9, <2>2, OtherTasks
  <2>4. QED  BY <1>2, <2>3, SameTasks
<1>13. CodeOk'
  BY <1>2, <1>4, SameCode
<1>14. DeadRejected'
  BY <1>2 DEF AccountInv, DeadRejected
<1>15. QED  BY <1>2, <1>4, <1>8, <1>10, <1>11, <1>12, <1>13, <1>14 DEF AccountInv, AccountTypes, Grows

\* The row of the user takes the token; the ones put before it are dead, and
\* behind the vault.
LEMMA UpsertKeeps ==
  ASSUME AccountInv, NEW k \in Tasks, UpsertUser(k)
  PROVE  AccountInv'
<1>1. PICK q \in TaskRecs : q = task[k]
  BY DEF AccountInv, AccountTypes
<1>2. PICK u : u = q.user
  OBVIOUS
<1>3. PICK t : t = q.token
  OBVIOUS
<1>4. PICK row : row = [hash |-> t, expires |-> q.expires, revoked |-> FALSE]
  OBVIOUS
<1>5. PICK D : D = {s \in 1..(t - 1) : /\ owner[s] = u /\ s \notin {r.hash : r \in short} \cup {r.id : r \in long}
                                       /\ \A j \in Tasks : task[j].refresh # s}
  OBVIOUS
<1>6. /\ q.pc = "user" /\ users' = [users EXCEPT ![u] = row] /\ dead' = dead \cup D
      /\ UNCHANGED <<vault, short, long, code, client, answers, accepted, owner, clock>>
      /\ task' = [task EXCEPT ![k] = SetPc(q, "short")] \/ task' = [task EXCEPT ![k] = IdleTask]
  <2>1. /\ q.pc = "user" /\ users' = [users EXCEPT ![u] = row]
        /\ UNCHANGED <<vault, short, long, code, client, answers, accepted, owner, clock>>
    BY <1>1, <1>2, <1>3, <1>4 DEF UpsertUser
  <2>2. dead' = dead \cup D
    BY <1>1, <1>2, <1>3, <1>5 DEF UpsertUser
  <2>3. task' = [task EXCEPT ![k] = SetPc(q, "short")] \/ task' = [task EXCEPT ![k] = IdleTask]
    BY <1>1 DEF UpsertUser, Goto, End, SetPc
  <2>4. QED  BY <2>1, <2>2, <2>3
<1>7. /\ u \in Users /\ PutFor(t, u) /\ t <= vault[u] /\ (\A v \in Users : users[v].hash # t)
      /\ t \in dead => vault[u] # t
  BY <1>1, <1>2, <1>3, <1>6 DEF AccountInv, TasksOk, TaskOk, PutOk
<1>8. t \in Nat /\ vault[u] \in Nat /\ 1..(t - 1) \subseteq Drawn
  <2>1. PICK n \in Nat : owner \in [1..n -> Users]
    BY DEF AccountInv, AccountTypes, DrawnOk
  <2>2. Drawn = 1..n
    BY <2>1 DEF Drawn
  <2>3. t \in 1..n
    BY <1>7, <2>2 DEF PutFor
  <2>4. QED  BY <1>7, <2>2, <2>3 DEF AccountInv, AccountTypes
<1>9. \A s \in D : s \in Drawn /\ owner[s] = u /\ s \notin ShortIds /\ s \notin LongIds /\ s # t /\ vault[u] # s
  BY <1>5, <1>7, <1>8 DEF ShortIds, LongIds
<1>10. row \in UserRecs /\ row.hash = t /\ ~row.revoked
  BY <1>4, <1>8 DEF UserRecs, TaskRecs
<1>11. users' \in [Users -> UserRecs] /\ \A v \in Users : users'[v] = IF v = u THEN row ELSE users[v]
  BY <1>6, <1>10 DEF AccountInv, AccountTypes
<1>12. Grows
  BY <1>6, StringsSame
<1>13. VaultMoves
  BY <1>6 DEF VaultMoves
<1>14. UsersOk'
  <2>1. ASSUME NEW v \in Users, NEW r, r = users'[v] PROVE RowOk(r, v)'
    <3>1. CASE v = u
      <4>1. r = row
        BY <1>11, <2>1, <3>1
      <4>2. PutFor(t, u)'
        BY <1>7, <1>12, KindsStay
      <4>3. t \in dead' => vault'[u] # t
        BY <1>6, <1>7, <1>9
      <4>4. QED  BY <1>10, <3>1, <4>1, <4>2, <4>3 DEF RowOk, PutFor
    <3>2. CASE v # u
      <4>1. r = users[v]
        BY <1>11, <2>1, <3>2
      <4>2. r = NoUser => r.revoked
        BY DEF NoUser
      <4>3. r # NoUser => r.hash \notin D
        BY <1>9, <3>2, <4>1 DEF AccountInv, UsersOk, RowOk, PutFor
      <4>4. r.hash \in dead' /\ ~r.revoked => r.hash \in dead
        BY <1>6, <4>2, <4>3
      <4>5. QED  BY <1>12, <1>13, <4>1, <4>4, RowStays
    <3>3. QED  BY <3>1, <3>2
  <2>2. QED  BY <2>1, UsersFrom
<1>15. TablesOk' /\ dead' \subseteq Drawn'
  <2>1. ShortIds' = ShortIds /\ LongIds' = LongIds /\ Drawn' = Drawn
    BY <1>6 DEF ShortIds, LongIds, Drawn
  <2>2. dead' \cap ShortIds' = {} /\ dead' \subseteq Drawn'
    BY <1>6, <1>9, <2>1 DEF AccountInv, AccountTypes, TablesOk
  <2>3. \A r \in long' : r.id \in dead' => r.status = "revoked"
    BY <1>6, <1>9 DEF AccountInv, TablesOk, LongIds
  <2>4. QED  BY <1>6, <2>1, <2>2, <2>3 DEF AccountInv, TablesOk
<1>16. PICK r \in TaskRecs : task' = [task EXCEPT ![k] = r] /\ r.pc # "user" /\ TaskOk(r)'
  <2>1. CASE task' = [task EXCEPT ![k] = IdleTask]
    BY <2>1, IdleFields, IdleOk
  <2>2. CASE task' = [task EXCEPT ![k] = SetPc(q, "short")]
    <3>1. "short" \in Pcs
      BY DEF Pcs
    <3>2. PICK r : r = SetPc(q, "short")
      OBVIOUS
    <3>3. r \in TaskRecs /\ r.pc = "short" /\ r.user = u /\ r.token = t
      BY <1>2, <1>3, <1>8, <3>1, <3>2, TaskFields
    <3>4. DrawnFor(t, u)'
      BY <1>7, <1>12, KindsStay DEF PutFor, DrawnFor
    <3>5. TaskOk(r)'
      BY <1>7, <3>3, <3>4 DEF TaskOk
    <3>6. QED  BY <2>2, <3>2, <3>3, <3>5
  <2>3. QED  BY <1>6, <2>1, <2>2
<1>17. ASSUME NEW j \in Tasks \ {k}, NEW x, x = task[j] PROVE TaskOk(x)'
  <2>1. TaskOk(x)
    BY <1>17 DEF AccountInv, TasksOk
  <2>2. x.pc = "user" => x.token # t /\ PutOk(x)
    BY <1>1, <1>3, <1>6, <1>17, <2>1 DEF AccountInv, TasksOk, TaskOk
  <2>3. x.pc = "user" => \A v \in Users : users'[v].hash # x.token
    BY <1>10, <1>11, <2>2 DEF PutOk
  <2>4. x.pc = "user" /\ x.token \in D => vault'[x.user] # x.token
    BY <1>6, <1>9, <2>2 DEF PutOk, PutFor
  <2>5. x.pc = "user" /\ x.token \in dead' => x.token \in dead \/ vault'[x.user] # x.token
    BY <1>6, <2>4
  <2>6. QED  BY <1>12, <1>13, <2>1, <2>3, <2>5, TaskStays
<1>18. TasksOk' /\ task' \in [Tasks -> TaskRecs]
  BY <1>16, <1>17, TasksKeep
<1>19. CodeOk'
  BY <1>6, <1>12, SameCode
<1>20. DeadRejected'
  BY <1>6 DEF AccountInv, DeadRejected
<1>21. QED  BY <1>6, <1>11, <1>12, <1>14, <1>15, <1>18, <1>19, <1>20 DEF AccountInv, AccountTypes, Grows

-----------------------------------------------------------------------------
LEMMA InitAccounts ==
  ASSUME AInit
  PROVE  AccountInv
<1>1. owner = <<>> /\ owner \in [1..0 -> Users]
  BY DEF AInit
<1>2. DrawnOk /\ Drawn = {}
  BY <1>1 DEF DrawnOk, Drawn
<1>3. NoUser \in UserRecs /\ NoUser.revoked /\ NoCode \in CodeRecs /\ NoCode.status = "none"
  BY DEF NoUser, UserRecs, NoCode, CodeRecs, Persons, NoToken
<1>4. AccountTypes
  BY <1>2, <1>3, IdleFields DEF AInit, AccountTypes, NoToken
<1>5. TablesOk
  BY DEF AInit, TablesOk, ShortIds, LongIds
<1>6. UsersOk
  BY <1>3 DEF AInit, UsersOk, RowOk
<1>7. TasksOk
  BY IdleFields DEF AInit, TasksOk, TaskOk
<1>8. CodeOk /\ DeadRejected
  BY <1>3 DEF AInit, CodeOk, DeadRejected
<1>9. QED  BY <1>4, <1>5, <1>6, <1>7, <1>8 DEF AccountInv

LEMMA AccountStep ==
  ASSUME AccountInv, [TokenNext \/ SessionNext]_avars
  PROVE  AccountInv'
<1>1. CASE TokenNext
  BY <1>1, RequestCodeKeeps, PollKeeps, ClockKeeps, PutKeeps, UpsertKeeps, CompareKeeps, InsertRefreshKeeps, ApproveKeeps,
     EndKeeps, IssueKeeps, VerifyKeeps, RevokeKeeps, LookupKeeps DEF TokenNext
<1>2. CASE SessionNext
  BY <1>2, ClockKeeps, InsertShortKeeps, IssueSessionKeeps, ResolveKeeps, LookupKeeps, EndKeeps, RevokeSessionKeeps
     DEF SessionNext
<1>3. CASE UNCHANGED avars
  BY <1>3, ClockKeeps
<1>4. QED  BY <1>1, <1>2, <1>3

\* However issues, approvals, revocations and dropped requests interleave over
\* any set of users and requests, no string is accepted that was revoked,
\* superseded or past its time when the request began, and a device is answered
\* with tokens of the user who approved its code, the refresh token stored.
THEOREM AccountsAlwaysSafe == ASpec => []AccountsSafe
<1>1. AInit => AccountInv
  BY InitAccounts
<1>2. AccountInv /\ [TokenNext \/ SessionNext]_avars => AccountInv'
  BY AccountStep
<1>3. AccountInv => AccountsSafe
  BY DEF AccountInv, AccountsSafe, CodeOk, DrawnFor, DeviceAnswerStored
<1>4. QED  BY <1>1, <1>2, <1>3, PTL DEF ASpec
=============================================================================
