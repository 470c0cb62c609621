---------------------------- MODULE CategoryIndex ----------------------------
(***************************************************************************)
(* The substring index behind a category station: CategoryStation          *)
(* (opsense-core/src/station.rs), Search (opsense-mlib/src/search.rs) and  *)
(* Radix (radix.rs), over the node tables and transactions of the storage  *)
(* back ends (storage/sqlite.rs, redis.rs, parquet.rs, in_memory.rs).      *)
(*                                                                         *)
(* One insert is a list of storage calls.  The station is locked for       *)
(* writing while it runs, so nobody sees the index between two of them;    *)
(* the process may end there, and the calls that are left never happen.    *)
(* A station is built with one shard, so roots and shortcuts have none.    *)
(***************************************************************************)
EXTENDS Integers, Sequences, FiniteSets, SequencesExt

CONSTANTS Keys,        \* the texts that are inserted: sequences of elements
          Patterns,    \* the texts that are looked for
          MaxInserts,  \* bound on the inserts
          MaxStops     \* bound on the ends of the process

VARIABLES backend,     \* the [storage] backend of the station
          db,          \* what the storage holds
          todo,        \* the storage calls the running insert has left
          given,       \* record id -> key, for every insert that was started
          torn,        \* a lake commit was cut in the middle
          left,        \* records whose insert was cut before its shortcuts
          stops

ivars == <<backend, db, todo, given, torn, left, stops>>

EMPTY == 0
Elems == UNION {Range(k) : k \in Keys \cup Patterns}

(***************************************************************************)
(* The tables.  node[0] is the sentinel; next is the counter of ids; short *)
(* maps an element to the nodes that have, or had, it in their prefix.     *)
(***************************************************************************)
NewDb == [node |-> [i \in {0} |-> [prefix |-> << >>, record |-> EMPTY]],
          kids |-> [i \in {0} |-> {}], next |-> 1, root |-> EMPTY,
          short |-> [e \in Elems |-> {}], chain |-> << >>]

With(f, k, v) == [x \in DOMAIN f \cup {k} |-> IF x = k THEN v ELSE f[x]]
Added(d, c) ==
  [d EXCEPT !.node = With(@, c.id, [prefix |-> c.prefix, record |-> c.record]),
            !.kids = IF c.id \in DOMAIN @ THEN @ ELSE With(@, c.id, {})]

RECURSIVE Apply(_, _)
Apply(d, c) ==
  CASE c.call = "node"  -> Added(d, c)
    [] c.call = "next"  -> [d EXCEPT !.next = c.id]
    [] c.call = "root"  -> [d EXCEPT !.root = c.id]
    [] c.call = "add"   -> [d EXCEPT !.kids[c.parent] = @ \cup {c.child}]
    [] c.call = "del"   -> [d EXCEPT !.kids[c.parent] = @ \ {c.child}]
    [] c.call = "short" -> [d EXCEPT !.short[c.elem] = @ \cup {c.id}]
    [] c.call = "chain" -> [d EXCEPT !.chain = Append(@, <<c.record, c.key>>)]
    [] c.call = "tx"    -> FoldLeft(Apply, d, c.ops)

Node(id, p, r) == [call |-> "node", id |-> id, prefix |-> p, record |-> r]
Counter(n) == [call |-> "next", id |-> n]
AddChild(p, c) == [call |-> "add", parent |-> p, child |-> c]
DelChild(p, c) == [call |-> "del", parent |-> p, child |-> c]
Short(e, id) == [call |-> "short", elem |-> e, id |-> id]
Atomic(ops) == <<[call |-> "tx", ops |-> ops]>>

\* The id of the n-th further node: the counter, or the place in Redis' list.
new_node_id(d, n) == (IF backend = "redis" THEN Cardinality(DOMAIN d.node) ELSE d.next) + n

\* CategoryStorage::new_node of each back end: one step under the lock, two
\* statements, one MULTI, two records of the log.
mem_new_node(id, p, r) == Atomic(<<Node(id, p, r), Counter(id + 1)>>)
sqlite_new_node(id, p, r) == <<Counter(id + 1), Node(id, p, r)>>
redis_new_node(id, p, r) == <<Node(id, p, r)>>
lake_new_node(id, p, r) == <<Node(id, p, r), Counter(id + 1)>>
new_node(id, p, r) ==
  CASE backend = "memory" -> mem_new_node(id, p, r) [] backend = "sqlite" -> sqlite_new_node(id, p, r)
    [] backend = "redis" -> redis_new_node(id, p, r) [] backend = "parquet" -> lake_new_node(id, p, r)

\* CategoryTx::commit: the new nodes, the counter behind the last of them, the
\* other operations.  All at once, but for the lake: one log record for each.
mem_commit(nodes, ops) == Atomic(nodes \o <<Counter(Last(nodes).id + 1)>> \o ops)
sqlite_commit(nodes, ops) == Atomic(nodes \o <<Counter(Last(nodes).id + 1)>> \o ops)
redis_commit(nodes, ops) == Atomic(nodes \o ops)
lake_commit(nodes, ops) == nodes \o <<Counter(Last(nodes).id + 1)>> \o ops
commit(nodes, ops) ==
  CASE backend = "memory" -> mem_commit(nodes, ops) [] backend = "sqlite" -> sqlite_commit(nodes, ops)
    [] backend = "redis" -> redis_commit(nodes, ops) [] backend = "parquet" -> lake_commit(nodes, ops)

-----------------------------------------------------------------------------
(* Radix                                                                   *)

Suffix(s, n) == SubSeq(s, n + 1, Len(s))

\* How many elements of the prefix and of the rest of the key agree.
Common(p, k) ==
  Cardinality({i \in 1..Len(p) : IsPrefix(SubSeq(p, 1, i), k)})

\* The child to go on with: children have different first elements.
Child(d, n, e) ==
  {c \in d.kids[n] : d.node[c].prefix # << >> /\ d.node[c].prefix[1] = e}

extend(d, parent, suffix, r, n) ==
  commit(<<Node(new_node_id(d, n), suffix, r)>>, <<AddChild(parent, new_node_id(d, n))>>)

Moves(d, parent, leg) ==
  FlattenSeq(SetToSeq({<<DelChild(parent, c), AddChild(leg, c)>> : c \in d.kids[parent]}))

\* The transaction that cuts a node in two: the lower half
\* takes its record and its children; the key ends at the cut or in a new node.
split(d, parent, at, suffix, r) ==
  LET old == d.node[parent]
      here == suffix = << >>
      new == new_node_id(d, 0)
      leg == IF here THEN new ELSE new + 1
      top == Node(parent, SubSeq(old.prefix, 1, at), IF here THEN r ELSE EMPTY)
  IN  commit((IF here THEN << >> ELSE <<Node(new, suffix, r)>>)
               \o <<Node(leg, Suffix(old.prefix, at), old.record)>>,
             Moves(d, parent, leg) \o <<AddChild(parent, leg)>>
               \o (IF here THEN << >> ELSE <<AddChild(parent, new)>>) \o <<top>>)

\* What on_split put into pending_split_elems: the elements of the lower half.
pending_split(d, parent, at, leg) ==
  LET old == d.node[parent].prefix
  IN  [i \in 1..(Len(old) - at) |-> Short(old[at + i], leg)]

\* update_shortcuts: the elements of the key from where the node begins.
update_shortcuts(key, tail, id) ==
  [i \in 1..(Len(key) - tail) |-> Short(key[tail + i], id)]

\* A key that goes on below no node: the calls, the node and where it begins.
InsertRoot(d, key, r) ==
  LET id == new_node_id(d, 0)
      root == [call |-> "root", id |-> id]
  IN  IF Len(key) >= 2
      THEN [calls |-> new_node(id, SubSeq(key, 1, 1), EMPTY) \o <<root>>
                      \o extend(d, id, Suffix(key, 1), r, 1) \o <<Short(key[1], id)>>,
            id |-> new_node_id(d, 1), tail |-> 1, pending |-> << >>]
      ELSE [calls |-> new_node(id, key, r) \o <<root>>, id |-> id, tail |-> 0, pending |-> << >>]

InsertSplit(d, key, tail, n, r) ==
  LET at == Common(d.node[n].prefix, Suffix(key, tail))
      suffix == Suffix(key, tail + at)
      leg == new_node_id(d, IF suffix = << >> THEN 0 ELSE 1)
  IN  [calls |-> split(d, n, at, suffix, r),
       id |-> IF suffix = << >> THEN n ELSE new_node_id(d, 0),
       tail |-> tail, pending |-> pending_split(d, n, at, leg)]

\* The walk of Radix::insert from node n, tail elements into the key.
RECURSIVE insert(_, _, _, _, _)
insert(d, key, tail, n, r) ==
  LET nd == d.node[n]
      at == Common(nd.prefix, Suffix(key, tail))
      on == tail + at
      next == Child(d, n, key[on + 1])
  IN  CASE at < Len(nd.prefix) -> InsertSplit(d, key, tail, n, r)
        [] at = Len(nd.prefix) /\ on = Len(key) ->
             [calls |-> IF nd.record = EMPTY THEN <<Node(n, nd.prefix, r)>> ELSE << >>,
              id |-> IF nd.record = EMPTY THEN n ELSE EMPTY,
              tail |-> on, pending |-> << >>]
        [] OTHER ->
             IF next # {} THEN insert(d, key, on, CHOOSE c \in next : TRUE, r)
             ELSE [calls |-> extend(d, n, Suffix(key, on), r, 0),
                   id |-> new_node_id(d, 0), tail |-> on, pending |-> << >>]

\* Search::insert_chain: the tree, then the shortcuts of the lower half, the
\* chain (with its length) and the shortcuts of the new node.  A key that is
\* there already changes nothing (Duplicated).
insert_chain(key, r) ==
  LET i == IF db.root = EMPTY THEN InsertRoot(db, key, r)
           ELSE insert(db, key, 0, db.root, r)
  IN  IF i.id = EMPTY THEN << >>
      ELSE i.calls \o i.pending \o <<[call |-> "chain", record |-> r, key |-> key]>>
           \o update_shortcuts(key, i.tail, i.id)

-----------------------------------------------------------------------------
(* Reading: prefix search, and the substring search with its matcher.      *)

\* Every (path, record) at and below a node.
RECURSIVE collect_all(_, _, _)
collect_all(d, n, path) ==
  (IF d.node[n].record = EMPTY THEN {} ELSE {<<path, d.node[n].record>>})
  \cup UNION {collect_all(d, c, path \o d.node[c].prefix) : c \in d.kids[n]}

RECURSIVE search_prefix(_, _, _, _, _)
search_prefix(d, prefix, tail, n, path) ==
  LET p == d.node[n].prefix
      at == Common(p, Suffix(prefix, tail))
      next == Child(d, n, prefix[tail + at + 1])
  IN  CASE at = Len(prefix) - tail -> collect_all(d, n, path \o p)
        [] at # Len(prefix) - tail /\ at < Len(p) -> {}
        [] OTHER -> UNION {search_prefix(d, prefix, tail + at, c, path \o p) : c \in next}

start_with(d, prefix) ==
  IF d.root = EMPTY THEN {} ELSE search_prefix(d, prefix, 0, d.root, << >>)

\* lps[i]: the longest proper prefix of the pattern that ends at its i-th place.
lps(pat) ==
  [i \in 1..Len(pat) |->
     LET borders == {j \in 0..(i - 1) : SubSeq(pat, 1, j) = SubSeq(pat, i - j + 1, i)}
     IN  CHOOSE j \in borders : \A b \in borders : b <= j]

\* Mutant: the matcher starts again at the same element after a mismatch.
RECURSIVE kmp_match_Stays(_, _, _, _, _, _)
kmp_match_Stays(pat, data, pp, dp, rec, keep) ==
  IF dp >= Len(data) THEN [found |-> FALSE, keep |-> keep, pp |-> pp]
  ELSE LET hit == data[dp + 1] = pat[pp + 1]
           p2 == IF hit THEN pp + 1 ELSE pp
           d2 == IF hit THEN dp + 1 ELSE dp
           k2 == keep \/ hit
       IN  IF p2 = Len(pat) THEN [found |-> TRUE, keep |-> FALSE, pp |-> p2]
           ELSE IF d2 < Len(data) /\ pat[p2 + 1] # data[d2 + 1]
           THEN IF p2 # 0 THEN kmp_match_Stays(pat, data, p2 - 1, d2 + 1, rec, k2)
                ELSE kmp_match_Stays(pat, data, 0, d2 + 1, rec, FALSE)
           ELSE kmp_match_Stays(pat, data, p2, d2, rec, k2)

\* kmp_match over one prefix: pp elements of the pattern are matched, dp of
\* the data are read; without rec a mismatch ends it.
RECURSIVE kmp_match(_, _, _, _, _, _)
kmp_match(pat, data, pp, dp, rec, keep) ==
  IF dp >= Len(data) THEN [found |-> FALSE, keep |-> keep, pp |-> pp]
  ELSE LET hit == data[dp + 1] = pat[pp + 1]
           p2 == IF hit THEN pp + 1 ELSE pp
           d2 == IF hit THEN dp + 1 ELSE dp
           k2 == keep \/ hit
       IN  IF p2 = Len(pat) THEN [found |-> TRUE, keep |-> FALSE, pp |-> p2]
           ELSE IF d2 < Len(data) /\ pat[p2 + 1] # data[d2 + 1]
           THEN IF ~rec THEN [found |-> FALSE, keep |-> FALSE, pp |-> p2]
                ELSE IF p2 # 0 THEN kmp_match(pat, data, lps(pat)[p2], d2, rec, k2)
                ELSE kmp_match(pat, data, 0, d2 + 1, rec, FALSE)
           ELSE kmp_match(pat, data, p2, d2, rec, k2)

\* The places after the first where the pattern may begin in a fresh prefix.
Scans(prefix, pat, pp) ==
  IF pp # 0 THEN << >>
  ELSE LET at == SelectSeq([i \in 1..(Len(prefix) - 1) |-> i],
                           LAMBDA i : prefix[i + 1] = pat[1])
       IN  [j \in 1..Len(at) |->
              LET rec == Len(prefix) - at[j] < Len(pat)
              IN  [rec |-> rec, m |-> kmp_match(pat, prefix, 0, at[j], rec, FALSE)]]

\* kmp_matcher: found, or the places of the pattern to go on with below.
kmp_matcher(prefix, pat, pp) ==
  LET rec == Len(prefix) < Len(pat) - pp
      main == kmp_match(pat, prefix, pp, 0, rec, FALSE)
      scans == Scans(prefix, pat, pp)
      on == SelectSeq(scans \o <<[rec |-> rec, m |-> main]>>,
                      LAMBDA s : s.rec /\ s.m.keep /\ s.m.pp < Len(pat))
  IN  IF main.found \/ \E j \in DOMAIN scans : scans[j].m.found
      THEN [found |-> TRUE, continuations |-> << >>]
      ELSE [found |-> FALSE, continuations |-> [j \in DOMAIN on |-> on[j].m.pp]]

\* search_dfs: the subtree of the first full match, or nothing.  The search
\* ends there; branches it has not tried are not looked at.
RECURSIVE search_dfs(_, _, _, _)
search_dfs(d, n, pat, pp) ==
  LET m == kmp_matcher(d.node[n].prefix, pat, pp)
      under(c, q) == search_dfs(d, c, pat, q)
      tries == FlattenSeq([j \in DOMAIN m.continuations |->
                 IF m.continuations[j] = 0 THEN << >>
                 ELSE SetToSeq({under(c, m.continuations[j]) :
                        c \in Child(d, n, pat[m.continuations[j] + 1])})])
      hits == SelectSeq(tries, LAMBDA h : h.found)
  IN  IF m.found THEN [found |-> TRUE, records |-> collect_all(d, n, << >>)]
      ELSE IF hits # << >> THEN hits[1]
      ELSE [found |-> FALSE, records |-> {}]

\* Search::search and CategoryStation::contains without offset and limit.
search(d, pat) ==
  UNION {{x[2] : x \in search_dfs(d, n, pat, 0).records} : n \in d.short[pat[1]]}

-----------------------------------------------------------------------------
IInit ==
  /\ backend \in {"memory", "sqlite", "redis", "parquet"}
  /\ db = NewDb /\ todo = << >> /\ given = << >>
  /\ torn = FALSE /\ left = {} /\ stops = 0

\* CategoryStation::insert: a fresh id, then the storage calls.
Insert ==
  /\ todo = << >> /\ Len(given) < MaxInserts
  /\ \E k \in Keys : /\ given' = Append(given, k)
                     /\ todo' = insert_chain(k, Len(given) + 1)
  /\ UNCHANGED <<backend, db, torn, left, stops>>

StorageCall ==
  /\ todo # << >>
  /\ db' = Apply(db, Head(todo))
  /\ todo' = Tail(todo)
  /\ UNCHANGED <<backend, given, torn, left, stops>>

\* The process ends and is started again.  Memory starts empty.
InCommit == backend = "parquet" /\ \E i \in DOMAIN todo : todo[i].call \in {"add", "del", "node", "next"}
RestartIndex ==
  /\ stops < MaxStops /\ stops' = stops + 1
  /\ todo' = << >>
  /\ db' = IF backend = "memory" THEN NewDb ELSE db
  /\ torn' = (torn \/ (InCommit /\ backend # "memory"))
  /\ left' = IF todo # << >> THEN left \cup {Len(given)} ELSE left
  /\ UNCHANGED <<backend, given>>

INext == Insert \/ StorageCall \/ RestartIndex
ISpec == IInit /\ [][INext]_ivars

-----------------------------------------------------------------------------
HasSubstring(k, p) == \E i \in 0..(Len(k) - Len(p)) : SubSeq(k, i + 1, i + Len(p)) = p
Idle == todo = << >> /\ ~torn
\* The first insert of a key owns it; a later one is Duplicated.  What memory
\* held before a restart is gone.
Paths(d) == IF d.root = EMPTY THEN {} ELSE collect_all(d, d.root, d.node[d.root].prefix)
Whole(r) == \E i \in DOMAIN db.chain : db.chain[i][1] = r

\* search (search.rs:357) returns only records whose key contains the pattern,
\* whatever inserts were cut short, unless a lake commit was cut in the middle.
SearchSound ==
  Idle => \A p \in Patterns : \A r \in search(db, p) : HasSubstring(given[r], p)

\* Radix::search_prefix returns exactly the keys that begin with the prefix,
\* each under its own record and once, and the tree holds every key whose
\* insert reached its end and no other.
PrefixExact ==
  Idle => /\ \A p \in Patterns : start_with(db, p) = {x \in Paths(db) : IsPrefix(p, x[1])}
          /\ \A x \in Paths(db) : x[1] = given[x[2]]
          /\ \A x, y \in Paths(db) : x[1] = y[1] => x = y
          /\ \A r \in DOMAIN given : Whole(r) => <<given[r], r>> \in Paths(db)

(***************************************************************************)
(* What a reader of a category station gets from its index.                *)
(***************************************************************************)
IndexSound == SearchSound /\ PrefixExact
=============================================================================
