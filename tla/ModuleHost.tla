----------------------------- MODULE ModuleHost -----------------------------
(***************************************************************************)
(* The module host: what the gateway does for a loaded module.             *)
(*                                                                         *)
(*  - REST routes: module_route_handler asks the module for its manifest,  *)
(*    calls route across the C interface (DynamicModuleWrapper on the      *)
(*    host side, ffi_handle on the plugin side) and frees the answer.      *)
(*  - SSE routes: sse_handler subscribes to the broadcast channel of an    *)
(*    output node, opens a stream in the module and runs a recv loop that  *)
(*    asks stream_push what to send.  The loop is a generator owned by     *)
(*    the HTTP response: when the client goes, it is dropped where it is.  *)
(*  - the page cache of the SDK (Page) over a Redis-like store with        *)
(*    expiring keys, one round trip per step.                              *)
(*  - the database transport: SQL text with $1..$n and JSON parameters     *)
(*    from the module, rewritten to positional ? for MySQL.                *)
(*                                                                         *)
(* Messages are numbered in the order the node publishes them.  The        *)
(* broadcast channel keeps the last ChanCapacity of them (1024 in the      *)
(* code); a receiver that falls further behind is told Lagged and moved    *)
(* to the oldest one kept.                                                 *)
(***************************************************************************)
EXTENDS Integers, Sequences, FiniteSets, SequencesExt

CONSTANTS Viewers,       \* HTTP clients of SSE and REST routes
          ChanCapacity,  \* messages a broadcast channel retains
          MaxMessages,   \* bound: messages published
          Pagers,        \* tasks of modules that use the page cache
          Pages,         \* the (after, limit) pairs asked for, in tuple order
          PageTtl,       \* ttl of the data keys; the index lives twice as long
          MaxSets,       \* bound: calls of Page::set
          MaxMicros,     \* bound: the clock
          MaxTokens      \* bound: tokens of a SQL text

ASSUME HostAssumption == ChanCapacity \in Nat /\ PageTtl \in Nat /\ Pages \subseteq Int

NoRx == -1
Lag == 0                  \* the "Data feed out of sync" event

VARIABLES tail,      \* messages published so far
          output,    \* the output node is there and its channel open
          sse,       \* per viewer: the handler and its generator
          streams,   \* viewers whose stream the module holds open
          strings    \* plugin strings handed to the host and not freed

hvars == <<tail, output, sse, streams, strings>>

Idle == [st |-> "idle", rx |-> NoRx, first |-> 0, sent |-> <<>>, code |-> 0]

SseInit ==
  /\ tail = 0 /\ output = TRUE
  /\ sse = [v \in Viewers |-> Idle]
  /\ streams = {} /\ strings = 0

(* The output node publishes; a send without receivers is dropped.         *)
publish_message ==
  /\ output /\ tail < MaxMessages
  /\ tail' = tail + 1
  /\ UNCHANGED <<output, sse, streams, strings>>

(* A reload removes the node: the broadcasts entry and the task's sender   *)
(* go, so the channel is closed once drained.                              *)
drop_output ==
  /\ output /\ output' = FALSE
  /\ UNCHANGED <<tail, sse, streams, strings>>

(* sse_handler, first await: the receiver starts at the channel's end.     *)
(* A route without source_node, a node that is no output, or a channel     *)
(* that is gone leaves rx at None and the handler goes on.                 *)
subscribe(v) ==
  /\ sse[v].st = "idle"
  /\ \E r \in IF output THEN {tail, NoRx} ELSE {NoRx} :
       sse' = [sse EXCEPT ![v].st = "subscribed", ![v].rx = r]
  /\ UNCHANGED <<tail, output, streams, strings>>

(* What the plugin's stream shim answers: the module's stream id, its      *)
(* error object, or the HTTP error body of a request that did not parse,   *)
(* which has no "error" field.                                             *)
ffi_stream_open == {"id", "error", "bad_request"}

(* DynamicModuleWrapper::stream: an old module has no entry; a null or     *)
(* unreadable answer and an error object are errors; any other object is   *)
(* a handle, whose id is "" when the field is missing.                     *)
stream_open(ans) == ans \in {"id", "bad_request"}

(* sse_handler, second await.  The answer string is freed in every branch. *)
stream(v) ==
  /\ sse[v].st = "subscribed"
  /\ \E ans \in ffi_stream_open \cup {"no_entry", "null"} :
       /\ sse' = [sse EXCEPT ![v].st = IF stream_open(ans) THEN "open" ELSE "refused",
                             ![v].first = tail]
       /\ streams' = IF ans = "id" THEN streams \cup {v} ELSE streams
  /\ UNCHANGED <<tail, output, strings>>

(* The generator's first poll: without a receiver or without a stream it   *)
(* returns at once, and a stream that the module opened stays open.        *)
generator_starts(v) ==
  /\ sse[v].st \in {"open", "refused"}
  /\ sse' = [sse EXCEPT ![v].st = IF sse[v].st = "refused" \/ sse[v].rx = NoRx
                                  THEN "ended" ELSE "running"]
  /\ UNCHANGED <<tail, output, streams, strings>>

Oldest == Max({0, tail - ChanCapacity})

(* What the plugin's push shim answers: the module's text, "" to skip the  *)
(* message, or an error object.                                            *)
ffi_stream_push == {"text", "empty", "error"}

(* DynamicModuleWrapper::stream_push and the loop's match: only a text     *)
(* that is not empty becomes an event; a module without the entry skips    *)
(* everything, an error is logged and passed over.                         *)
stream_push(v, m) ==
  \E ans \in ffi_stream_push :
    sse' = [sse EXCEPT ![v].rx = m,
                       ![v].sent = Append(@, IF ans = "text" THEN m ELSE -m)]

(* One turn of the recv loop.                                              *)
recv(v) ==
  /\ sse[v].st = "running"
  /\ sse[v].rx < tail
  /\ IF sse[v].rx < Oldest
       THEN sse' = [sse EXCEPT ![v].rx = Oldest, ![v].sent = Append(@, Lag)]
       ELSE stream_push(v, sse[v].rx + 1)
  /\ UNCHANGED <<tail, output, streams, strings>>

(* RecvError::Closed: the loop breaks and the module is told.              *)
recv_closed(v) ==
  /\ sse[v].st = "running"
  /\ ~output /\ sse[v].rx = tail
  /\ sse' = [sse EXCEPT ![v].st = "ended"]
  /\ streams' = streams \ {v}
  /\ UNCHANGED <<tail, output, strings>>

(* The client disconnects: the response body is dropped, the handler's     *)
(* future or the generator with it, and nothing after its await runs.      *)
disconnect(v) ==
  /\ sse[v].st \in {"subscribed", "open", "refused", "running"}
  /\ sse' = [sse EXCEPT ![v].st = "ended"]
  /\ UNCHANGED <<tail, output, streams, strings>>

(* The plugin's answer to a route call: its response, its error as an      *)
(* HTTP response with the error's own status, or a bad request.            *)
ffi_handle == {"response", "module_error", "bad_request"}

(* DynamicModuleWrapper::route: a null answer or one that is no response   *)
(* is an internal error, 500; a response keeps the status it carries.      *)
route(ans) ==
  CASE ans = "response" -> 200
    [] ans = "module_error" -> 404
    [] ans = "bad_request" -> 400
    [] OTHER -> 500

(* A REST request: the string of ffi_manifest is read in place and not     *)
(* freed; the answer of ffi_handle is freed once it was read.              *)
module_route_handler(v) ==
  /\ sse[v].st = "idle" /\ strings < MaxMessages
  /\ \E ans \in ffi_handle \cup {"null", "unreadable"} :
       sse' = [sse EXCEPT ![v].st = "answered", ![v].code = route(ans)]
  /\ strings' = strings + 1
  /\ UNCHANGED <<tail, output, streams>>

SseNext ==
  \/ publish_message \/ drop_output
  \/ \E v \in Viewers :
       \/ subscribe(v) \/ stream(v) \/ generator_starts(v) \/ recv(v)
       \/ recv_closed(v) \/ disconnect(v) \/ module_route_handler(v)

Number(m) == IF m < 0 THEN -m ELSE m

(***************************************************************************)
(* Gaps are announced: a running stream handles the messages published     *)
(* since the module opened it in order, each once, and between two that    *)
(* are not consecutive stands the "out of sync" event (modules.rs: the     *)
(* Lagged branch, and the order of broadcast() and stream()).              *)
(***************************************************************************)
GapsAnnounced ==
  \A v \in Viewers : sse[v].st = "running" =>
    LET s == sse[v].sent IN
    /\ \A i \in 1..Len(s) : s[i] # Lag =>
         IF i = 1 THEN Number(s[i]) <= sse[v].first + 1
         ELSE IF s[i-1] = Lag
                THEN \A j \in 1..(i-1) : s[j] # Lag => Number(s[j]) < Number(s[i])
                ELSE Number(s[i]) = Number(s[i-1]) + 1
    /\ (s = <<>> => sse[v].rx <= sse[v].first)

(***************************************************************************)
(* The page cache.                                                         *)
(***************************************************************************)
VARIABLES micros,    \* the clock, in microseconds
          index,     \* paging[key]:indices, a sequence of <<page, id>>, or None
          data,      \* paging[key]:data:id -> [page, exp]
          pager,     \* per task: the call it is in
          begun      \* history: <<id, page>> of every set that began

pgvars == <<micros, index, data, pager, begun>>

NoIndex == [ent |-> <<>>, exp |-> 0]
Resting == [at |-> "rest", page |-> 0, id |-> 0, ent |-> <<>>, ans |-> 0]

PageInit ==
  /\ micros = 1 /\ index = NoIndex /\ data = <<>>
  /\ pager = [t \in Pagers |-> Resting]
  /\ begun = {}

Put(f, k, x) == [i \in DOMAIN f \cup {k} |-> IF i = k THEN x ELSE f[i]]

IndexNow == IF index.exp > micros THEN index.ent ELSE <<>>
Alive(id) == id \in DOMAIN data /\ data[id].exp > micros

time_passes ==
  /\ micros < MaxMicros /\ micros' = micros + 1
  /\ UNCHANGED <<index, data, pager, begun>>

(* Page::set up to its first await: the id is the clock.                   *)
set_begin(t, p) ==
  /\ pager[t].at = "rest"
  /\ Cardinality(begun) < MaxSets
  /\ pager' = [pager EXCEPT ![t] = [Resting EXCEPT !.at = "read", !.page = p, !.id = micros]]
  /\ begun' = begun \cup {<<micros, p>>}
  /\ UNCHANGED <<micros, index, data>>

lower_bound(ent, p) == Cardinality({i \in DOMAIN ent : ent[i][1] < p}) + 1

(* A set that takes the entry at the insertion place without comparing.    *)
set_index_AnyEntry(t) ==
  LET c == pager[t]
      ent == IndexNow
      pos == lower_bound(ent, c.page)
  IN /\ c.at = "read"
     /\ IF pos <= Len(ent)
          THEN /\ pager' = [pager EXCEPT ![t].at = "data", ![t].id = ent[pos][2]]
          ELSE /\ pager' = [pager EXCEPT ![t].at = "index",
                            ![t].ent = InsertAt(ent, pos, <<c.page, c.id>>)]
     /\ UNCHANGED <<micros, index, data, begun>>

(* The index is read: a page it names keeps its id, and the index is then  *)
(* not written; any other page is inserted in order.                       *)
set_index(t) ==
  LET c == pager[t]
      ent == IndexNow
      pos == lower_bound(ent, c.page)
  IN /\ c.at = "read"
     /\ IF pos <= Len(ent) /\ ent[pos][1] = c.page
          THEN /\ pager' = [pager EXCEPT ![t].at = "data", ![t].id = ent[pos][2]]
          ELSE /\ pager' = [pager EXCEPT ![t].at = "index",
                            ![t].ent = InsertAt(ent, pos, <<c.page, c.id>>)]
     /\ UNCHANGED <<micros, index, data, begun>>

(* SETEX of the index for twice the ttl, over whatever stands there now.   *)
set_write_index(t) ==
  /\ pager[t].at = "index"
  /\ index' = [ent |-> pager[t].ent, exp |-> micros + 2 * PageTtl]
  /\ pager' = [pager EXCEPT ![t].at = "data"]
  /\ UNCHANGED <<micros, data, begun>>

(* SETEX of the data.                                                      *)
set_write_data(t) ==
  /\ pager[t].at = "data"
  /\ data' = Put(data, pager[t].id, [page |-> pager[t].page, exp |-> micros + PageTtl])
  /\ pager' = [pager EXCEPT ![t] = Resting]
  /\ UNCHANGED <<micros, index, begun>>

(* Page::get: the index, then EXISTS, then the data itself.                *)
page_index(t, p) ==
  LET hits == {i \in DOMAIN IndexNow : IndexNow[i][1] = p /\ Alive(IndexNow[i][2])}
  IN /\ pager[t].at = "rest" /\ hits # {}
     /\ pager' = [pager EXCEPT ![t] = [Resting EXCEPT !.at = "found", !.page = p,
                                        !.id = IndexNow[CHOOSE i \in hits : \A j \in hits : i <= j][2]]]
     /\ UNCHANGED <<micros, index, data, begun>>

page_get(t) ==
  /\ pager[t].at = "found"
  /\ pager' = [pager EXCEPT ![t].at = "got",
                 ![t].ans = IF Alive(pager[t].id) THEN data[pager[t].id].page ELSE 0]
  /\ UNCHANGED <<micros, index, data, begun>>

page_done(t) ==
  /\ pager[t].at = "got"
  /\ pager' = [pager EXCEPT ![t] = Resting]
  /\ UNCHANGED <<micros, index, data, begun>>

PageNext ==
  \/ time_passes
  \/ \E t \in Pagers :
       \/ \E p \in Pages : set_begin(t, p) \/ page_index(t, p)
       \/ set_index(t) \/ set_write_index(t) \/ set_write_data(t)
       \/ page_get(t) \/ page_done(t)

(***************************************************************************)
(* A page is answered with its own data: what Page::get returns for a page *)
(* was put there by a set of that page.  The id of a page is the clock, so *)
(* the one exception is two pages whose sets began in one microsecond.     *)
(***************************************************************************)
PageOwn ==
  \A t \in Pagers :
    LET c == pager[t] IN
    (c.at = "got" /\ c.ans # 0 /\ c.ans # c.page)
      => {<<c.id, c.page>>, <<c.id, c.ans>>} \subseteq begun

(***************************************************************************)
(* The database transport.  A SQL text is a sequence of tokens: 0 is any   *)
(* other character, -1 and -2 are two kinds of quote, n > 0 is $n.  A      *)
(* parameter is known by its JSON kind.                                    *)
(***************************************************************************)
VARIABLE asked       \* the last statement: text, parameters, both readings

dbvars == <<asked>>

Quotes == {-1, -2}
JsonKinds == {"null", "int", "text", "bytes", "not_bytes"}

(* bind_value: the SQL kind a JSON parameter is bound as; an array that    *)
(* holds something else than bytes is an error.                            *)
bind_value(k) ==
  CASE k = "null"      -> "NULL TEXT"
    [] k = "int"       -> "BIGINT"
    [] k = "text"      -> "TEXT"
    [] k = "bytes"     -> "BLOB"
    [] k = "not_bytes" -> "error"

(* row_to_json: what the module reads back of a column of that kind; bytes *)
(* come back as base64 text.                                               *)
row_to_json(k) ==
  CASE k = "NULL TEXT" -> "null"
    [] k = "BIGINT"    -> "int"
    [] k = "TEXT"      -> "text"
    [] k = "BLOB"      -> "base64"

ReadBack(bound) == [i \in DOMAIN bound |-> row_to_json(bound[i])]

Scan0 == [marks |-> 0, ordered |-> <<>>, quote |-> 0, skip |-> FALSE, err |-> FALSE]

(* One character of the scanner, which looks one ahead for a doubled       *)
(* quote.                                                                  *)
Scan(sql, params, acc, i) ==
  LET c == sql[i]
      reads == ~acc.err /\ ~acc.skip
  IN
  CASE reads /\ acc.quote # 0 /\ c = acc.quote ->
         IF i < Len(sql) /\ sql[i+1] = c THEN [acc EXCEPT !.skip = TRUE] ELSE [acc EXCEPT !.quote = 0]
    [] reads /\ acc.quote = 0 /\ c \in Quotes -> [acc EXCEPT !.quote = c]
    [] reads /\ acc.quote = 0 /\ c > 0 ->
         IF c > Len(params) THEN [acc EXCEPT !.err = TRUE]
         ELSE [acc EXCEPT !.marks = @ + 1, !.ordered = Append(@, params[c])]
    [] ~acc.err /\ acc.skip -> [acc EXCEPT !.skip = FALSE]
    [] OTHER -> acc

(* The scanner after each character of the text.                           *)
Scanned(sql, params) ==
  LET after[i \in 0..Len(sql)] == IF i = 0 THEN Scan0 ELSE Scan(sql, params, after[i-1], i)
  IN after

rewrite_placeholders_mysql(sql, params) == Scanned(sql, params)[Len(sql)]

(* The values a MySQL server sees at its question marks.                   *)
query_mysql(sql, params) ==
  LET r == rewrite_placeholders_mysql(sql, params)
      bound == [i \in DOMAIN r.ordered |-> bind_value(r.ordered[i])]
  IN IF r.err \/ "error" \in Range(bound) \/ Len(bound) # r.marks
       THEN <<"refused">> ELSE <<"ok">> \o ReadBack(bound)

(* A server with numbered placeholders reads the text itself: a quote      *)
(* opens a literal that the next quote of its kind closes.                 *)
InLiteral(sql) ==
  LET q[i \in 0..Len(sql)] ==
        IF i = 0 THEN 0
        ELSE IF q[i-1] = 0 THEN (IF sql[i] \in Quotes THEN sql[i] ELSE 0)
        ELSE IF sql[i] = q[i-1] THEN 0 ELSE q[i-1]
  IN q

(* The places of the marks among the first i characters.                   *)
Marks(sql) ==
  LET places[i \in 0..Len(sql)] ==
        IF i = 0 THEN <<>>
        ELSE IF sql[i] > 0 /\ InLiteral(sql)[i-1] = 0 THEN Append(places[i-1], i) ELSE places[i-1]
  IN places

query_numbered(sql, params) ==
  LET marks == Marks(sql)[Len(sql)]
      bound == [i \in DOMAIN params |-> bind_value(params[i])]
  IN IF "error" \in Range(bound) \/ \E i \in Range(marks) : sql[i] > Len(params)
       THEN <<"refused">> ELSE <<"ok">> \o ReadBack([i \in DOMAIN marks |-> bound[sql[marks[i]]]])

DbInit == asked = [sql |-> <<>>, mysql |-> <<"ok">>, numbered |-> <<"ok">>]

(* A module's statement, as AnyDbBackend::query runs it on either kind of  *)
(* pool.                                                                   *)
db_query ==
  /\ Len(asked.sql) < MaxTokens
  /\ \E c \in -2..3, params \in [1..2 -> JsonKinds] :
       LET sql == Append(asked.sql, c) IN
       asked' = [sql |-> sql, mysql |-> query_mysql(sql, params),
                 numbered |-> query_numbered(sql, params)]

DbNext == db_query

(* The three parts share nothing.                                          *)
HostSpec ==
  /\ SseInit /\ PageInit /\ DbInit
  /\ [][ \/ SseNext /\ UNCHANGED <<pgvars, dbvars>>
         \/ PageNext /\ UNCHANGED <<hvars, dbvars>>
         \/ DbNext /\ UNCHANGED <<hvars, pgvars>> ]_<<hvars, pgvars, dbvars>>

(***************************************************************************)
(* A statement means the same on every kind of pool: when MySQL accepts    *)
(* it, the values at its marks are those that $1..$n name, and it refuses  *)
(* nothing the others accept (db.rs: placeholders reused, out of order,    *)
(* inside literals with doubled quotes, without a parameter).              *)
(***************************************************************************)
SameOnEveryPool ==
  /\ asked.numbered[1] = "ok" => asked.mysql = asked.numbered
  /\ asked.mysql[1] = "ok" => \/ asked.numbered = asked.mysql
                             \/ asked.numbered[1] = "refused"

(***************************************************************************)
(* What the host promises a module and its clients: streams whose gaps are *)
(* announced, pages of their own, one meaning of a statement.              *)
(***************************************************************************)
HostSound == GapsAnnounced /\ PageOwn /\ SameOnEveryPool
=============================================================================
