---------------------------- MODULE IndexTables ----------------------------
(***************************************************************************)
(* What the index keeps beside its tree: CategoryStorage and the traits it *)
(* inherits (opsense-mlib/src/storage.rs: NodeMetaStorage, EdgeDataStorage,*)
(* ChainStorage, ShortcutsStorage, update_node, the roots), in the shape   *)
(* each back end gives them, and Search::clear, which empties them before  *)
(* a rebuild.  The same calls go to all four; want is what the comments of *)
(* the traits promise.  new_node and the transactions are in CategoryIndex.*)
(***************************************************************************)
EXTENDS Naturals, Sequences, FiniteSets, Functions, TLC

CONSTANTS TKeys,        \* record, element and edge ids
          TValues,      \* what is stored under them
          TElems,       \* elements of the shortcut sets
          TextElems,    \* those of them whose bytes are UTF-8
          Chains,       \* the chains of records: sequences over 0..3
          MaxTableCalls \* bound on the calls

VARIABLES want,         \* the contract
          mtab, stab, rtab, ltab,   \* memory, SQLite, Redis, lake
          cutoff,       \* a clear of Redis was refused after it had deleted keys
          tcalls

tabvars == <<want, mtab, stab, rtab, ltab, cutoff, tcalls>>

-----------------------------------------------------------------------------
ValueTables == {"edges", "node_meta", "meta", "key_lens"}
KeyTables == ValueTables \cup {"chains"}
Cleared == {"edges", "node_meta", "chains"}   \* the tables with a clear
NoRoot == 0                                   \* EMPTY
Shard(e) == e % 2                             \* radix::shard_of, two shards
Sentinel == <<"", NoRoot>>                    \* node 0, and node 1 as new_node made it
Node1 == <<"p", NoRoot>>

\* A chain is stored as the little-endian bytes of its elements: an element
\* is two digits here where the code writes eight bytes.
encode_chain(c) == [i \in 1..(2 * Len(c)) |->
                      IF i % 2 = 1 THEN c[(i + 1) \div 2] % 2 ELSE c[i \div 2] \div 2]
\* as_chunks drops an incomplete chunk at the end.
decode_chain(b) == [i \in 1..(Len(b) \div 2) |-> b[2 * i - 1] + 2 * b[2 * i]]

Put(f, k, v) == [x \in DOMAIN f \cup {k} |-> IF x = k THEN v ELSE f[x]]
Found(f, k) == IF k \in DOMAIN f THEN {f[k]} ELSE {}    \* Option: at most one value

-----------------------------------------------------------------------------
(* Memory: vectors by shard or id, and maps.                               *)

NewMemory == [nodes |-> <<Sentinel, Node1>>, roots |-> << >>, cuts |-> << >>,
              kv |-> [t \in KeyTables |-> << >>]]
Resized(s, n, v) == s \o [i \in 1..(IF n > Len(s) THEN n - Len(s) ELSE 0) |-> v]

mem_set(d, t, k, v) == [d EXCEPT !.kv[t] = Put(@, k, v)]
mem_get(d, t, k) == Found(d.kv[t], k)
mem_clear(d, t) == [d EXCEPT !.kv[t] = << >>]
mem_set_root(d, s, r) == [d EXCEPT !.roots = [Resized(@, s + 1, NoRoot) EXCEPT ![s + 1] = r]]
mem_get_root(d, s) == IF s + 1 \in DOMAIN d.roots THEN d.roots[s + 1] ELSE NoRoot
mem_update_node(d, id, r) == IF id >= Len(d.nodes) THEN d ELSE [d EXCEPT !.nodes[id + 1][2] = r]
mem_get_node(d, id) == IF id >= Len(d.nodes) THEN {} ELSE {d.nodes[id + 1]}
mem_add_shortcut(d, s, e, n) ==
  [d EXCEPT !.cuts = [Resized(@, s + 1, << >>) EXCEPT
                        ![s + 1] = Put(@, e, {n} \cup UNION Found(@, e))]]
mem_get_shortcut(d, s, e) == IF s + 1 \in DOMAIN d.cuts THEN UNION Found(d.cuts[s + 1], e) ELSE {}
mem_clear_shortcuts(d) == [d EXCEPT !.cuts = [i \in DOMAIN @ |-> << >>]]

-----------------------------------------------------------------------------
(* SQLite: rows.  An upsert replaces the row of the same primary key.      *)

NewSqlite == [nodes |-> {<<0, Sentinel>>, <<1, Node1>>}, roots |-> {}, cuts |-> {},
              kv |-> [t \in KeyTables |-> {}]]
Upsert(rows, k, v) == {r \in rows : r[1] # k} \cup {<<k, v>>}
Select(rows, k) == {r[2] : r \in {x \in rows : x[1] = k}}

sqlite_set(d, t, k, v) == [d EXCEPT !.kv[t] = Upsert(@, k, v)]
sqlite_get(d, t, k) == Select(d.kv[t], k)
sqlite_clear_table(d, t) == [d EXCEPT !.kv[t] = {}]
sqlite_set_root(d, s, r) == [d EXCEPT !.roots = Upsert(@, s, r)]
sqlite_get_root(d, s) ==
  IF Select(d.roots, s) = {} THEN NoRoot ELSE CHOOSE r \in Select(d.roots, s) : TRUE
sqlite_update_node(d, id, r) ==
  [d EXCEPT !.nodes = {IF x[1] = id THEN <<id, <<x[2][1], r>>>> ELSE x : x \in @}]
sqlite_get_node(d, id) == Select(d.nodes, id)
sqlite_add_shortcut(d, s, e, n) == [d EXCEPT !.cuts = @ \cup {<<s, e, n>>}]
sqlite_get_shortcut(d, s, e) == {c[3] : c \in {x \in d.cuts : x[1] = s /\ x[2] = e}}
sqlite_clear_shortcuts(d) == [d EXCEPT !.cuts = {}]

-----------------------------------------------------------------------------
(* Redis: one flat space of keys; KeyBuilder makes their names.  A hash or *)
(* a set without members is no key.                                        *)

HashKey(t) == <<CASE t = "edges" -> "edgedata" [] t = "node_meta" -> "nodemeta"
                  [] t = "key_lens" -> "keylen" [] OTHER -> t>>
shortcut(s, e) == <<"shortcut", s, e>>
NewRedis == [k \in {<<"branch">>, <<"record">>} |->
               IF k = <<"branch">> THEN <<Sentinel[1], Node1[1]>> ELSE <<Sentinel[2], Node1[2]>>]
Held(d, k) == IF k \in DOMAIN d THEN d[k] ELSE << >>
Del(d, ks) == Restrict(d, DOMAIN d \ ks)

redis_set(d, t, k, v) == Put(d, HashKey(t), Put(Held(d, HashKey(t)), k, v))       \* HSET
redis_get(d, t, k) == Found(Held(d, HashKey(t)), k)                               \* HGET
redis_clear_table(d, t) == Del(d, {HashKey(t)})
redis_set_root(d, s, r) == Put(d, <<"endpoint">>, Put(Held(d, <<"endpoint">>), s, r))
redis_get_root(d, s) ==
  LET r == Found(Held(d, <<"endpoint">>), s) IN IF r = {} THEN 0 ELSE CHOOSE x \in r : TRUE
\* LSET fails on an index outside the list; LINDEX gives nil, which is no i64.
redis_update_node(d, id, r) ==
  IF id + 1 \notin DOMAIN d[<<"record">>] THEN d ELSE [d EXCEPT ![<<"record">>][id + 1] = r]
redis_get_node(d, id) ==
  IF id + 1 \notin DOMAIN d[<<"record">>] THEN {}
  ELSE {<<d[<<"branch">>][id + 1], d[<<"record">>][id + 1]>>}
redis_add_shortcut(d, s, e, n) ==                                                 \* SADD
  Put(d, shortcut(s, e), {n} \cup UNION Found(d, shortcut(s, e)))
redis_get_shortcut(d, s, e) == UNION Found(d, shortcut(s, e))                     \* SMEMBERS

ShortcutKeys(d) == {k \in DOMAIN d : k[1] = "shortcut"}
Text(k) == k[3] \in TextElems
\* SCAN MATCH "{prefix}:shortcut:*" in batches, every key of a batch read as a
\* String and then deleted: a batch with a name that is no UTF-8 ends the call
\* with an error, after the batches before it.
redis_clear_shortcuts_batches(d) ==
  IF \A k \in ShortcutKeys(d) : Text(k)
  THEN {[ok |-> TRUE, d |-> Del(d, ShortcutKeys(d))]}
  ELSE {[ok |-> FALSE, d |-> Del(d, ks)] : ks \in SUBSET {k \in ShortcutKeys(d) : Text(k)}}

-----------------------------------------------------------------------------
(* Lake: maps that change by log operations only, a clear by table name.   *)

NewLake == [nodes |-> (0 :> Sentinel) @@ (1 :> Node1), roots |-> << >>, cuts |-> << >>,
            kv |-> [t \in KeyTables |-> << >>]]
LakeName(t) == CASE t = "edges" -> "rt_edges" [] t = "chains" -> "rt_chains"
                 [] t = "node_meta" -> "rt_node_meta" [] OTHER -> "rt_meta"
AddOnce(list, n) == IF n \in Range(list) THEN list ELSE Append(list, n)

wal_ClearTable(d, name) ==
  CASE name = "rt_edges" -> [d EXCEPT !.kv["edges"] = << >>]
    [] name = "rt_chains" -> [d EXCEPT !.kv["chains"] = << >>]
    [] name = "rt_node_meta" -> [d EXCEPT !.kv["node_meta"] = << >>]
    [] name = "rt_shortcuts" -> [d EXCEPT !.cuts = << >>]
    [] OTHER -> d
lake_set(d, t, k, v) == [d EXCEPT !.kv[t] = Put(@, k, v)]
lake_get(d, t, k) == Found(d.kv[t], k)
lake_clear_table(d, t) == wal_ClearTable(d, LakeName(t))
lake_set_root(d, s, r) == [d EXCEPT !.roots = Put(@, s, r)]
lake_get_root(d, s) ==
  LET r == Found(d.roots, s) IN IF r = {} THEN NoRoot ELSE CHOOSE x \in r : TRUE
\* The logged operation holds the whole node: the current prefix is merged in.
lake_update_node(d, id, r) ==
  IF id \notin DOMAIN d.nodes THEN d ELSE [d EXCEPT !.nodes[id] = <<@[1], r>>]
lake_get_node(d, id) == Found(d.nodes, id)
lake_add_shortcut(d, s, e, n) ==
  [d EXCEPT !.cuts = Put(@, <<s, e>>, AddOnce(IF <<s, e>> \in DOMAIN @ THEN @[<<s, e>>] ELSE << >>, n))]
lake_get_shortcut(d, s, e) == UNION {Range(l) : l \in Found(d.cuts, <<s, e>>)}
lake_clear_shortcuts(d) == wal_ClearTable(d, "rt_shortcuts")

-----------------------------------------------------------------------------
TablesInit ==
  /\ want = [nodes |-> (0 :> Sentinel) @@ (1 :> Node1), roots |-> [s \in {0, 1} |-> NoRoot], cuts |-> {},
             kv |-> [t \in KeyTables |-> << >>]]
  /\ mtab = NewMemory /\ stab = NewSqlite /\ rtab = NewRedis /\ ltab = NewLake
  /\ cutoff = FALSE /\ tcalls = 0

Call == tcalls < MaxTableCalls /\ tcalls' = tcalls + 1

\* set_edge_data, set_node_meta, set_meta, set_key_len; set_chain encodes first.
SetValue(t, k, v) ==
  /\ Call /\ UNCHANGED cutoff
  /\ LET b == IF t = "chains" THEN encode_chain(v) ELSE v
     IN  /\ want' = [want EXCEPT !.kv[t] = Put(@, k, v)]
         /\ mtab' = mem_set(mtab, t, k, b) /\ stab' = sqlite_set(stab, t, k, b)
         /\ rtab' = redis_set(rtab, t, k, b) /\ ltab' = lake_set(ltab, t, k, b)

\* Radix::insert gives a node its record; a node that is not there is refused.
UpdateNode(id, r) ==
  /\ Call /\ UNCHANGED cutoff
  /\ want' = IF id \in DOMAIN want.nodes THEN [want EXCEPT !.nodes[id][2] = r] ELSE want
  /\ mtab' = mem_update_node(mtab, id, r) /\ stab' = sqlite_update_node(stab, id, r)
  /\ rtab' = redis_update_node(rtab, id, r) /\ ltab' = lake_update_node(ltab, id, r)

SetRoot(s, r) ==
  /\ Call /\ UNCHANGED cutoff
  /\ want' = [want EXCEPT !.roots[s] = r]
  /\ mtab' = mem_set_root(mtab, s, r) /\ stab' = sqlite_set_root(stab, s, r)
  /\ rtab' = redis_set_root(rtab, s, r) /\ ltab' = lake_set_root(ltab, s, r)

AddShortcut(e, n) ==
  /\ Call /\ UNCHANGED cutoff
  /\ want' = [want EXCEPT !.cuts = @ \cup {<<Shard(e), e, n>>}]
  /\ mtab' = mem_add_shortcut(mtab, Shard(e), e, n) /\ stab' = sqlite_add_shortcut(stab, Shard(e), e, n)
  /\ rtab' = redis_add_shortcut(rtab, Shard(e), e, n) /\ ltab' = lake_add_shortcut(ltab, Shard(e), e, n)

\* The clears and the roots of Search::clear, in its order, on one back end.
ClearedIndex(d, clear(_, _), set_root(_, _, _)) ==
  set_root(set_root(clear(clear(clear(d, "edges"), "node_meta"), "chains"), 0, NoRoot), 1, NoRoot)

\* Search::clear: the first call that fails ends it.  When Redis refuses, the
\* indexes on the other back ends are left as they are, to be compared with.
SearchClear ==
  /\ Call
  /\ \E r \in redis_clear_shortcuts_batches(rtab) :
       IF r.ok
       THEN /\ want' = [want EXCEPT !.cuts = {}, !.roots = [s \in {0, 1} |-> NoRoot],
                                    !.kv = [t \in KeyTables |-> IF t \in Cleared THEN << >> ELSE @[t]]]
            /\ mtab' = ClearedIndex(mem_clear_shortcuts(mtab), mem_clear, mem_set_root)
            /\ stab' = ClearedIndex(sqlite_clear_shortcuts(stab), sqlite_clear_table, sqlite_set_root)
            /\ rtab' = ClearedIndex(r.d, redis_clear_table, redis_set_root)
            /\ ltab' = ClearedIndex(lake_clear_shortcuts(ltab), lake_clear_table, lake_set_root)
            /\ cutoff' = FALSE
       ELSE rtab' = r.d /\ cutoff' = TRUE /\ UNCHANGED <<want, mtab, stab, ltab>>

TablesNext ==
  \/ \E t \in ValueTables, k \in TKeys, v \in TValues : SetValue(t, k, v)
  \/ \E k \in TKeys, c \in Chains : SetValue("chains", k, c)
  \/ \E id \in 1..2, r \in TKeys : UpdateNode(id, r)
  \/ \E s \in {0, 1}, r \in {1} : SetRoot(s, r)
  \/ \E e \in TElems, n \in {1, 2} : AddShortcut(e, n)
  \/ SearchClear

TablesSpec == TablesInit /\ [][TablesNext]_tabvars

-----------------------------------------------------------------------------
\* One back end answers every read of a table, a node, a root as want says.
ReadsAs(get(_, _), node(_), root(_)) ==
  /\ \A k \in TKeys : /\ \A t \in ValueTables : get(t, k) = Found(want.kv[t], k)
                      /\ {decode_chain(b) : b \in get("chains", k)} = Found(want.kv["chains"], k)
  /\ \A id \in 0..2 : node(id) = Found(want.nodes, id)
  /\ \A s \in {0, 1} : root(s) = want.roots[s]

Wanted(e) == {c[3] : c \in {x \in want.cuts : x[2] = e}}

\* The traits of storage.rs:257-384 and Search::clear (search.rs:280) on every
\* back end: a read gives the last value set since the table was last cleared,
\* a clear empties its own table and no other, a node that does not exist is
\* refused and changes nothing, and after a finished clear no shortcut, chain,
\* edge or root of the old index is left.  A clear that Redis cut off leaves
\* its roots, chains and metadata in place and never invents a shortcut.
TablesAgree ==
  /\ ReadsAs(LAMBDA t, k : mem_get(mtab, t, k), LAMBDA i : mem_get_node(mtab, i), LAMBDA s : mem_get_root(mtab, s))
  /\ ReadsAs(LAMBDA t, k : sqlite_get(stab, t, k), LAMBDA i : sqlite_get_node(stab, i), LAMBDA s : sqlite_get_root(stab, s))
  /\ ReadsAs(LAMBDA t, k : redis_get(rtab, t, k), LAMBDA i : redis_get_node(rtab, i), LAMBDA s : redis_get_root(rtab, s))
  /\ ReadsAs(LAMBDA t, k : lake_get(ltab, t, k), LAMBDA i : lake_get_node(ltab, i), LAMBDA s : lake_get_root(ltab, s))
  /\ \A e \in TElems :
       /\ mem_get_shortcut(mtab, Shard(e), e) = Wanted(e)
       /\ sqlite_get_shortcut(stab, Shard(e), e) = Wanted(e)
       /\ lake_get_shortcut(ltab, Shard(e), e) = Wanted(e)
       /\ redis_get_shortcut(rtab, Shard(e), e) \subseteq Wanted(e)
       /\ ~cutoff => redis_get_shortcut(rtab, Shard(e), e) = Wanted(e)
=============================================================================
