---------------------------- MODULE AccountTokens ----------------------------
(***************************************************************************)
(* Accounts: the tables behind opsense-model/src/entities/admin and the     *)
(* HTTP handlers of api/oauth/v1.rs and api/admin/v1.rs that use them.      *)
(* There are no transactions: every SQL statement commits by itself, so a   *)
(* handler is preempted between two of them.  Tokens, refresh tokens and    *)
(* session keys are random strings and numbered in the order in which they  *)
(* are drawn; a hash is as good as the string it was made of.  The command  *)
(* line client polls for its token (client/auth.rs) and keeps the files of  *)
(* its long sessions (session/cli.rs).                                      *)
(***************************************************************************)
EXTENDS Integers, FiniteSets

CONSTANTS
    Users,
    Tasks,      \* slots for requests in flight, numbers
    MaxTokens,  \* bound on the strings drawn
    MaxTasks,   \* bound on the requests made
    MaxNow,     \* bound on the clock
    Lifetime    \* 8 hours, the life of what a login hands out

ASSUME AccountAssumption == Lifetime \in Nat

VARIABLES
    vault,    \* sys_token_map: user -> the token under the service name of the user
    users,    \* sys_user: user -> [hash, expires, revoked], or NoUser
    short,    \* sys_short_sessions: set of [user, hash, expires]
    long,     \* sys_long_sessions: set of [user, id, status, expires]
    code,     \* sys_device_code, one row: [status, expires, user, access, refresh]
    files,    \* session files of the command line client
    task,     \* requests in flight
    client,   \* the poll loop of the client: "off", "polling", "in", or why it failed
    answers,  \* the last tokens device/token answered: {} or one [user, access, refresh, stored]
    accepted, \* the last string accepted, with the ones that were dead when the request began
    dead,     \* strings that are no longer good: superseded or revoked
    owner,    \* string -> the user it was drawn for
    clock     \* [now, tasks]

avars == <<vault, users, short, long, code, files, task, client, answers, accepted,
           dead, owner, clock>>

NoToken == 0
Never == 1000
now == clock.now
NoUser == [hash |-> NoToken, expires |-> 0, revoked |-> TRUE]
NoCode == [status |-> "none", expires |-> 0, user |-> "nobody", access |-> NoToken, refresh |-> NoToken]
IdleTask == [op |-> "idle", pc |-> "idle", user |-> "nobody", token |-> NoToken, refresh |-> NoToken,
             expires |-> 0, dead |-> {}]

AInit ==
    /\ vault = [u \in Users |-> NoToken]
    /\ users = [u \in Users |-> NoUser]
    /\ short = {} /\ long = {} /\ files = {}
    /\ code = NoCode
    /\ task = [k \in Tasks |-> IdleTask]
    /\ client = "off"
    /\ answers = {} /\ accepted = {} /\ dead = {}
    /\ owner = <<>>
    /\ clock = [now |-> 0, tasks |-> 0]

Drawn == DOMAIN owner
Fresh == Cardinality(Drawn) + 1
CanDraw == Fresh <= MaxTokens
Draw(u) == owner' = [t \in Drawn \cup {Fresh} |-> IF t = Fresh THEN u ELSE owner[t]]
Expired(when) == when < now
ExpiredStrings ==
    {t \in Drawn : \/ \E u \in Users : users[u].hash = t /\ Expired(users[u].expires)
                   \/ \E r \in short : r.hash = t /\ Expired(r.expires)
                   \/ \E r \in long : r.id = t /\ Expired(r.expires)}

Begin(k, rec) ==
    /\ task[k].pc = "idle" /\ \A j \in Tasks : task[j].pc = "idle" => k <= j
    /\ clock.tasks < MaxTasks
    /\ task' = [task EXCEPT ![k] = [rec EXCEPT !.dead = dead \cup ExpiredStrings]]
    /\ clock' = [clock EXCEPT !.tasks = @ + 1]
Goto(k, pc) == task' = [task EXCEPT ![k].pc = pc]
End(k) == task' = [task EXCEPT ![k] = IdleTask]
Request(op, u) == [IdleTask EXCEPT !.op = op, !.pc = op, !.user = u]
Accept(t, k) == accepted' = {[string |-> t, dead |-> task[k].dead]}

-----------------------------------------------------------------------------
(* User tokens *)

\* issue_user_token of the administration API: the caller issues for itself.
issue_user_token(k, u) ==
    /\ \E e \in {now, Never} : Begin(k, [Request("put", u) EXCEPT !.op = "issue", !.expires = e])
    /\ UNCHANGED <<vault, users, short, long, code, files, client, answers, accepted, dead, owner>>

\* put_unencrypted_token: the row of the vault, new or replaced.
put_unencrypted_token(k) ==
    LET u == task[k].user IN
    /\ task[k].pc = "put" /\ CanDraw
    /\ Draw(u)
    /\ vault' = [vault EXCEPT ![u] = Fresh]
    /\ task' = [task EXCEPT ![k].pc = "user", ![k].token = Fresh]
    /\ UNCHANGED <<users, short, long, code, files, client, answers, accepted, dead, clock>>

\* The row of the user: the hash of the new token, and no revocation.  The
\* request is answered, or goes on to approve a device code.  From here on the
\* tokens put for the user before this one are superseded.
UpsertUser(k) ==
    LET u == task[k].user  t == task[k].token IN
    /\ task[k].pc = "user"
    /\ users' = [users EXCEPT ![u] = [hash |-> t, expires |-> task[k].expires, revoked |-> FALSE]]
    /\ dead' = dead \cup {s \in 1..(t - 1) : owner[s] = u /\ s \notin {r.hash : r \in short} \cup {r.id : r \in long}
                                             /\ \A j \in Tasks : task[j].refresh # s}
    /\ IF task[k].op = "approve" THEN Goto(k, "short") ELSE End(k)
    /\ UNCHANGED <<vault, short, long, code, files, client, answers, accepted, owner, clock>>

\* The vault is read each time: its rows keep their id when their token changes.
get_unencrypted_token_by_id(u) == vault[u]

\* The row of a user whose hash matches, unless it is past its time or revoked.
RowOf(t) == {u \in Users : users[u].hash = t /\ ~Expired(users[u].expires) /\ ~users[u].revoked}

\* verify_user_token, as introspection calls it: a row by its hash, then the
\* vault, whose token must be the same.
verify_user_token(k, t) ==
    /\ \E u \in RowOf(t) : Begin(k, [Request("compare", u) EXCEPT !.token = t])
    /\ UNCHANGED <<vault, users, short, long, code, files, client, answers, accepted, dead, owner>>

\* Accepts what the row accepted, without a look at the vault.
CompareToken_ByHash(k) ==
    /\ task[k].pc = "compare"
    /\ Accept(task[k].token, k)
    /\ End(k)
    /\ UNCHANGED <<vault, users, short, long, code, files, client, answers, dead, owner, clock>>

CompareToken(k) ==
    /\ task[k].pc = "compare"
    /\ IF get_unencrypted_token_by_id(task[k].user) = task[k].token
       THEN Accept(task[k].token, k)
       ELSE UNCHANGED accepted
    /\ End(k)
    /\ UNCHANGED <<vault, users, short, long, code, files, client, answers, dead, owner, clock>>

\* revoke_user_token: one statement; a user without a row is not found.
revoke_user_token(u) ==
    /\ users[u] # NoUser
    /\ users' = [users EXCEPT ![u].revoked = TRUE]
    /\ dead' = dead \cup {users[u].hash}
    /\ UNCHANGED <<vault, short, long, code, files, task, client, answers, accepted, owner, clock>>

\* token_revoke of the OAuth API: by user and hash.  What the statement did is
\* ignored, an error of the database included.
token_revoke(u, t) ==
    /\ users[u].hash = t /\ ~users[u].revoked
    /\ users' = [users EXCEPT ![u].revoked = TRUE]
    /\ dead' = dead \cup {t}
    /\ UNCHANGED <<vault, short, long, code, files, task, client, answers, accepted, owner, clock>>

-----------------------------------------------------------------------------
(* The device flow *)

issue_device_code == code' = [NoCode EXCEPT !.status = "pending", !.expires = now + Lifetime]

\* The client asks for a code, shows it to its user and starts to poll.
request_device_code ==
    /\ code = NoCode /\ client = "off"
    /\ issue_device_code
    /\ client' = "polling"
    /\ UNCHANGED <<vault, users, short, long, files, task, answers, accepted, dead, owner, clock>>

\* approve_device_code: the row is read; it must be pending and in time.
approve_device_code(k, u) ==
    /\ code.status = "pending" /\ ~Expired(code.expires)
    /\ Begin(k, [Request("put", u) EXCEPT !.op = "approve", !.expires = now + Lifetime])
    /\ UNCHANGED <<vault, users, short, long, code, files, client, answers, accepted, dead, owner>>

\* The refresh token, drawn and stored in a row of its own.
InsertRefresh(k) ==
    LET u == task[k].user IN
    /\ task[k].pc = "short" /\ CanDraw
    /\ Draw(u)
    /\ short' = short \cup {[user |-> u, hash |-> Fresh, expires |-> task[k].expires]}
    /\ task' = [task EXCEPT ![k].pc = "approved", ![k].refresh = Fresh]
    /\ UNCHANGED <<vault, users, long, code, files, client, answers, accepted, dead, clock>>

\* The row of the code takes both tokens.
ApproveCode(k) ==
    /\ task[k].pc = "approved"
    /\ code' = [code EXCEPT !.status = "approved", !.user = task[k].user,
                            !.access = task[k].token, !.refresh = task[k].refresh]
    /\ End(k)
    /\ UNCHANGED <<vault, users, short, long, files, client, answers, accepted, dead, owner, clock>>

\* What the row of the code says.
poll_device_token ==
    IF Expired(code.expires) THEN "authorization_expired"
    ELSE IF code.status = "pending" THEN "authorization_pending" ELSE "ok"

\* The HTTP status and the error the handler makes of it.
device_token ==
    CASE poll_device_token = "authorization_expired" -> [http |-> "gone", error |-> "expired_token"]
      [] poll_device_token = "authorization_pending" -> [http |-> "success", error |-> "authorization_pending"]
      [] poll_device_token = "ok" -> [http |-> "success", error |-> "none"]

\* poll_token: any successful status is the token, or a body that does not decode.
poll_token ==
    LET answer == device_token IN
    /\ client = "polling"
    /\ client' = IF answer.http = "success"
                 THEN IF answer.error = "none" THEN "in" ELSE "undecodable"
                 ELSE answer.error
    /\ answers' = IF answer.error = "none"
                  THEN {[user |-> code.user, access |-> code.access, refresh |-> code.refresh,
                                      stored |-> \E r \in short : r.hash = code.refresh /\ r.user = code.user]}
                  ELSE answers
    /\ UNCHANGED <<vault, users, short, long, code, files, task, accepted, dead, owner, clock>>

-----------------------------------------------------------------------------
(* Sessions *)

\* The file of a session in the directory of the client.
save_session_to_disk(id) == files' = files \cup {id}
remove_file(id) == files' = files \ {id}

\* lookup_short_session: one statement, which starts and answers at once.
lookup_short_session(t) ==
    /\ \E r \in short : r.hash = t /\ ~Expired(r.expires)
    /\ accepted' = {[string |-> t, dead |-> dead \cup ExpiredStrings]}
    /\ UNCHANGED <<vault, users, short, long, code, files, task, client, answers, dead, owner, clock>>

PurgeLong(u) == {r \in long : ~(r.user = u /\ Expired(r.expires))}

\* insert_short_session: a token of its own, and its row.
insert_short_session(u) ==
    /\ CanDraw /\ Draw(u)
    /\ short' = short \cup {[user |-> u, hash |-> Fresh, expires |-> now]}
    /\ UNCHANGED <<vault, users, long, code, files, task, client, answers, accepted, dead, clock>>

\* Expired rows of the user go, the new one comes.
issue_long_session(u) ==
    long' = PurgeLong(u) \cup {[user |-> u, id |-> Fresh, status |-> "active", expires |-> now + Lifetime]}

\* session issue: the server makes the key pair, the client writes its file.
session_issue(u) ==
    /\ CanDraw /\ Draw(u)
    /\ issue_long_session(u)
    /\ save_session_to_disk(Fresh)
    /\ UNCHANGED <<vault, users, short, code, task, client, answers, accepted, dead, clock>>

\* An active row of the user, else not found.
revoke_long_session(u, id) ==
    /\ \E r \in long : r.user = u /\ r.id = id /\ r.status = "active"
    /\ long' = {IF r.id = id THEN [r EXCEPT !.status = "revoked"] ELSE r : r \in long}

\* session revoke: first the server, then the file.
session_revoke(k, u, id) ==
    /\ revoke_long_session(u, id)
    /\ dead' = dead \cup {id}
    /\ Begin(k, [Request("delete_file", u) EXCEPT !.token = id])
    /\ UNCHANGED <<vault, users, short, code, files, client, answers, accepted, owner>>

delete_session_from_disk(k) ==
    /\ task[k].pc = "delete_file"
    /\ remove_file(task[k].token)
    /\ End(k)
    /\ UNCHANGED <<vault, users, short, long, code, client, answers, accepted, dead, owner, clock>>

list_long_sessions(u) ==
    /\ long # PurgeLong(u)
    /\ long' = PurgeLong(u)
    /\ UNCHANGED <<vault, users, short, code, files, task, client, answers, accepted, dead, owner, clock>>

\* resolve_long_session: the row must be active and in time; one past its time
\* is deleted.
resolve_long_session(u, id) ==
    \E r \in long :
        /\ r.user = u /\ r.id = id /\ r.status = "active"
        /\ IF Expired(r.expires)
           THEN long' = {s \in long : s.id # id} /\ UNCHANGED accepted
           ELSE accepted' = {[string |-> id, dead |-> dead \cup ExpiredStrings]} /\ UNCHANGED long
        /\ UNCHANGED <<vault, users, short, code, files, task, client, answers, dead, owner, clock>>

ClockTicks ==
    /\ now < MaxNow
    /\ clock' = [clock EXCEPT !.now = @ + 1]
    /\ UNCHANGED <<vault, users, short, long, code, files, task, client, answers, accepted, dead, owner>>

\* A client that goes away, or a server that stops, ends a request between two
\* statements; before the first one and after the last it leaves no trace.
Dropped(k) ==
    /\ task[k].pc \in {"user", "short", "approved", "delete_file"}
    /\ End(k)
    /\ UNCHANGED <<vault, users, short, long, code, files, client, answers, accepted, dead, owner, clock>>

-----------------------------------------------------------------------------
\* Tokens and the device flow.
TokenNext ==
    \/ request_device_code \/ poll_token \/ ClockTicks
    \/ \E k \in Tasks :
         \/ put_unencrypted_token(k) \/ UpsertUser(k) \/ CompareToken(k) \/ InsertRefresh(k)
         \/ ApproveCode(k) \/ Dropped(k)
         \/ \E u \in Users : issue_user_token(k, u) \/ approve_device_code(k, u)
         \/ \E t \in Drawn : verify_user_token(k, t)
    \/ \E u \in Users :
         \/ revoke_user_token(u)
         \/ \E t \in Drawn : token_revoke(u, t)
    \/ \E t \in Drawn : lookup_short_session(t)

\* Sessions, which share no table with the tokens but sys_short_sessions.
SessionNext ==
    \/ ClockTicks
    \/ \E u \in Users : insert_short_session(u) \/ session_issue(u) \/ list_long_sessions(u)
    \/ \E t \in Drawn : lookup_short_session(t)
    \/ \E u \in Users, t \in Drawn : resolve_long_session(u, t)
    \/ \E k \in Tasks :
         \/ delete_session_from_disk(k) \/ Dropped(k)
         \/ \E u \in Users, t \in Drawn : session_revoke(k, u, t)

ASpec == AInit /\ [][TokenNext \/ SessionNext]_avars

-----------------------------------------------------------------------------
(* Properties *)

\* A request accepts no string that was dead before the request began: not a
\* token revoked or superseded by a later one, not a session revoked, nothing
\* past its time, however issues, approvals and revocations interleave
\* (verify_user_token, lookup_short_session, resolve_long_session).
DeadRejected == \A a \in accepted : a.string \notin a.dead

\* Both tokens of an answer to the device are of the user who approved the code,
\* and the refresh token was in its table already, even when two approvals of
\* one code race (approve_device_code).
DeviceAnswerStored ==
    \A a \in answers : a.stored /\ owner[a.access] = a.user /\ owner[a.refresh] = a.user

\* What a holder of a token, and one who has it revoked, rely on.
AccountsSafe == DeadRejected /\ DeviceAnswerStored
=============================================================================
