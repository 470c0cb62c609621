------------------------------ MODULE LruArena ------------------------------
(***************************************************************************)
(* The sharded cache of crates/opsense-mlib/src/lru.rs as the default      *)
(* build has it (feature lru-shared-memory): one arena of nodes, a doubly  *)
(* linked list per shard under that shard's mutex, one lock-free free      *)
(* list, and a concurrent map from keys to node indices that no lock ties  *)
(* to the rest.  A critical section of a shard is one step; everything     *)
(* between two sections, two accesses to the map or two accesses to the    *)
(* free list is a step of its own, and threads interleave there.           *)
(***************************************************************************)
EXTENDS Naturals, Sequences, SequencesExt, FiniteSets

CONSTANTS CKeys,      \* the keys
          Shards,     \* S, the number of shards (numbered from 0)
          ShardOf,    \* get_shard_idx: which shard a key hashes to
          ArenaSize,   \* total_capacity
          CThreads,   \* the threads that call the cache
          MaxPuts     \* how many puts a run has

VARIABLES mapping,    \* the concurrent map: key -> index or Null
          node,       \* the arena: index -> [key, val, next, prev]
          shard,      \* per shard the two ends of its list
          free_head,  \* head of the free list
          call,       \* per thread what it is doing
          lru,        \* history: per shard the entries, newest first, that an
                      \* exact cache would hold; Unknown once two calls overlapped
          puts        \* number of puts so far

lvars == <<mapping, node, shard, free_head, call, lru, puts>>

Null == ArenaSize
Slots == 0 .. ArenaSize - 1
ShardIds == 0 .. Shards - 1
NoKey == "no key"
NoVal == [of |-> NoKey, ver |-> 0]
Val(k, n) == [of |-> k, ver |-> n]
NoCall == [op |-> "idle", key |-> NoKey, val |-> NoVal, idx |-> Null, head |-> Null, next |-> Null]

\* An arena all of whose nodes are in the free list, chained upwards.
FreshArena == [i \in Slots |-> [key |-> NoKey, val |-> NoVal, next |-> i + 1, prev |-> Null]]

LruInit ==
    /\ mapping = [k \in CKeys |-> Null]
    /\ node = FreshArena
    /\ shard = [s \in ShardIds |-> [first |-> Null, last |-> Null]]
    /\ free_head = 0
    /\ call = [t \in CThreads |-> NoCall]
    /\ lru = [s \in ShardIds |-> <<>>]
    /\ puts = 0

-----------------------------------------------------------------------------
\* The list operations run inside a section of shard s and return the arena
\* and the ends they leave.

SetNext(a, i, x) == IF i = Null THEN a ELSE [a EXCEPT ![i].next = x]
SetPrev(a, i, x) == IF i = Null THEN a ELSE [a EXCEPT ![i].prev = x]

\* An unlink that trusts the neighbours to be repaired by the next insert.
unlink_inside_lock_KeepsLast(a, ht, i) ==
    LET p == a[i].prev
        n == a[i].next
    IN [arena |-> SetPrev(SetNext([a EXCEPT ![i].prev = Null, ![i].next = Null], p, n), n, p),
        ends  |-> [first |-> IF p = Null THEN n ELSE ht.first, last |-> ht.last]]

unlink_inside_lock(a, ht, i) ==
    LET p == a[i].prev
        n == a[i].next
        b == SetPrev(SetNext(a, p, n), n, p)
    IN [arena |-> [b EXCEPT ![i].prev = Null, ![i].next = Null],
        ends  |-> [first |-> IF p = Null THEN n ELSE ht.first,
                   last  |-> IF n = Null THEN p ELSE ht.last]]

move_to_front_inside_lock(a, ht, i) ==
    IF ht.first \in {i, Null} THEN [arena |-> a, ends |-> ht]
    ELSE LET p == a[i].prev
             n == a[i].next
             b == SetPrev(SetNext(a, p, n), n, p)
             c == [b EXCEPT ![i].next = ht.first, ![i].prev = Null]
         IN [arena |-> SetPrev(c, ht.first, i),
             ends  |-> [first |-> i, last |-> IF i = ht.last THEN p ELSE ht.last]]

\* What put does with the node it was given: an empty list has to be started
\* by hand because move_to_front leaves it alone.
LinkNew(a, ht, i) ==
    IF ht.first = Null
    THEN [arena |-> [a EXCEPT ![i].prev = Null, ![i].next = Null], ends |-> [first |-> i, last |-> i]]
    ELSE move_to_front_inside_lock(a, ht, i)

Install(s, r) == node' = r.arena /\ shard' = [shard EXCEPT ![s] = r.ends]

\* try_lock: it may fail only while another thread is inside the cache.
Busy(t) == \E u \in CThreads \ {t} : call[u].op # "idle"
Touch(t, k, i) ==
    \/ Install(ShardOf[k], move_to_front_inside_lock(node, shard[ShardOf[k]], i))
    \/ Busy(t) /\ UNCHANGED <<node, shard>>

Now(t, c) == call' = [call EXCEPT ![t] = c]
Unknown == <<>>
Start(t, c) == Now(t, c) /\ lru' = IF Busy(t) THEN Unknown ELSE lru
Learn(x) == lru' = IF lru = Unknown THEN Unknown ELSE x
EndCall(t) == Now(t, NoCall)

-----------------------------------------------------------------------------
\* What an exact cache does: every shard is a sequence of entries, newest
\* first, and a full cache drops the oldest entry of the first shard that has one.

Holds(c, k) == \E i \in DOMAIN c[ShardOf[k]] : c[ShardOf[k]][i].key = k
Dropped(c, k) == [c EXCEPT ![ShardOf[k]] = SelectSeq(@, LAMBDA e : e.key # k)]
ToFront(c, k, v) == [Dropped(c, k) EXCEPT ![ShardOf[k]] = <<[key |-> k, val |-> v]>> \o @]
Entries(c) == {<<s, i>> \in ShardIds \X (1 .. ArenaSize) : i <= Len(c[s])}
Drop(c) == LET s == CHOOSE x \in ShardIds : c[x] # <<>> /\ \A y \in ShardIds : c[y] # <<>> => x <= y
           IN [c EXCEPT ![s] = Front(@)]
Exact(c, k, v) ==
    ToFront(IF ~Holds(c, k) /\ Cardinality(Entries(c)) = ArenaSize THEN Drop(c) ELSE c, k, v)
NewestOf(c, k) == LET s == c[ShardOf[k]] IN s[CHOOSE i \in DOMAIN s : s[i].key = k].val

-----------------------------------------------------------------------------
\* get: the map is asked, the node is read without a lock, and the list is
\* touched if the mutex happens to be free.

GetLookup(t, k) ==
    /\ call[t].op = "idle"
    /\ mapping[k] # Null
    /\ Start(t, [NoCall EXCEPT !.op = "read", !.key = k, !.idx = mapping[k]])
    /\ UNCHANGED <<mapping, node, shard, free_head, puts>>

\* The value is gone when an eviction took it in between: get returns None.
GetRead(t) ==
    /\ call[t].op = "read"
    /\ LET c == call[t]
           v == node[c.idx].val
       IN IF v = NoVal
          THEN EndCall(t)
          ELSE Now(t, [c EXCEPT !.op = "touch"])
    /\ UNCHANGED <<mapping, node, shard, free_head, lru, puts>>

GetTouch(t) ==
    /\ call[t].op = "touch"
    /\ Touch(t, call[t].key, call[t].idx)
    /\ Learn(IF Holds(lru, call[t].key) THEN ToFront(lru, call[t].key, NewestOf(lru, call[t].key)) ELSE lru)
    /\ EndCall(t)
    /\ UNCHANGED <<mapping, free_head, puts>>

-----------------------------------------------------------------------------
\* put: a key that is mapped is overwritten in the node the map named.

PutLookup(t, k) ==
    /\ call[t].op = "idle"
    /\ puts < MaxPuts
    /\ puts' = puts + 1
    /\ Start(t, [NoCall EXCEPT !.op = IF mapping[k] = Null THEN "pop" ELSE "update",
                           !.key = k, !.val = Val(k, puts + 1), !.idx = mapping[k]])
    /\ UNCHANGED <<mapping, node, shard, free_head>>

PutUpdate(t) ==
    /\ call[t].op = "update"
    /\ node' = [node EXCEPT ![call[t].idx].val = call[t].val]
    /\ Now(t, [call[t] EXCEPT !.op = "updated"])
    /\ UNCHANGED <<mapping, shard, free_head, lru, puts>>

PutTouch(t) ==
    /\ call[t].op = "updated"
    /\ Touch(t, call[t].key, call[t].idx)
    /\ Learn(Exact(lru, call[t].key, call[t].val))
    /\ EndCall(t)
    /\ UNCHANGED <<mapping, free_head, puts>>

\* free_pop, first half: head and its next pointer are loaded.
free_pop(t) ==
    /\ call[t].op = "pop"
    /\ LET c == call[t]
       IN Now(t, IF free_head = Null THEN [c EXCEPT !.op = "evict"]
                 ELSE [c EXCEPT !.op = "swap", !.head = free_head, !.next = node[free_head].next])
    /\ UNCHANGED <<mapping, node, shard, free_head, lru, puts>>

\* Second half: the swap succeeds when the head is still the one loaded; a
\* failed swap has loaded the new head and reads its pointer again.
FreeSwap(t) ==
    /\ call[t].op = "swap"
    /\ LET c == call[t]
       IN IF free_head = c.head
          THEN /\ free_head' = c.next
               /\ node' = [node EXCEPT ![c.head].next = Null]
               /\ Now(t, [c EXCEPT !.op = "store", !.idx = c.head])
          ELSE Now(t, [c EXCEPT !.op = "pop"]) /\ UNCHANGED <<free_head, node>>
    /\ UNCHANGED <<mapping, shard, lru, puts>>

Occupied == {s \in ShardIds : shard[s].last # Null}

\* acquire_node with nothing free: the last node of the first shard that has
\* one loses its key and its value and leaves its list.  The scan takes one
\* lock at a time, so another thread may move nodes behind it: the victim is
\* the tail of any shard; with a single caller it is the first.
acquire_node(t) ==
    /\ call[t].op = "evict"
    /\ \E s \in Occupied :
         /\ Busy(t) \/ \A y \in Occupied : s <= y
         /\ LET i == shard[s].last
                c == call[t]
            IN /\ Install(s, unlink_inside_lock([node EXCEPT ![i].key = NoKey, ![i].val = IF node[i].key = NoKey THEN @ ELSE NoVal],
                                                shard[s], i))
               /\ Now(t, [c EXCEPT !.op = "unmap", !.idx = i, !.next = node[i].key])
    /\ UNCHANGED <<mapping, free_head, lru, puts>>

\* A scan that met only empty shards gives up, and put returns without a word.
PutGivesUp(t) ==
    /\ call[t].op = "evict"
    /\ Occupied = {}
    /\ EndCall(t)
    /\ UNCHANGED <<mapping, node, shard, free_head, lru, puts>>

\* The lock is gone when the victim's key leaves the map.
Unmap(t) ==
    /\ call[t].op = "unmap"
    /\ mapping' = IF call[t].next \in CKeys THEN [mapping EXCEPT ![call[t].next] = Null] ELSE mapping
    /\ Now(t, [call[t] EXCEPT !.op = "store", !.next = Null])
    /\ UNCHANGED <<node, shard, free_head, lru, puts>>

PutStore(t) ==
    /\ call[t].op = "store"
    /\ LET c == call[t]
           s == ShardOf[c.key]
       IN /\ Install(s, LinkNew([node EXCEPT ![c.idx].key = c.key, ![c.idx].val = c.val], shard[s], c.idx))
          /\ mapping' = [mapping EXCEPT ![c.key] = c.idx]
          /\ Learn(Exact(lru, c.key, c.val))
    /\ EndCall(t)
    /\ UNCHANGED <<free_head, puts>>

-----------------------------------------------------------------------------
\* remove: out of the map, then out of the list, then onto the free list.

RemoveLookup(t, k) ==
    /\ call[t].op = "idle"
    /\ mapping[k] # Null
    /\ mapping' = [mapping EXCEPT ![k] = Null]
    /\ Start(t, [NoCall EXCEPT !.op = "unlink", !.key = k, !.idx = mapping[k]])
    /\ UNCHANGED <<node, shard, free_head, puts>>

RemoveUnlink(t) ==
    /\ call[t].op = "unlink"
    /\ LET c == call[t]
       IN Install(ShardOf[c.key], unlink_inside_lock([node EXCEPT ![c.idx].key = NoKey, ![c.idx].val = NoVal],
                                                     shard[ShardOf[c.key]], c.idx))
    /\ Learn(Dropped(lru, call[t].key))
    /\ Now(t, [call[t] EXCEPT !.op = "push"])
    /\ UNCHANGED <<mapping, free_head, puts>>

\* free_push: the node points at the head that was loaded, then becomes the head.
free_push(t) ==
    /\ call[t].op = "push"
    /\ node' = [node EXCEPT ![call[t].idx].next = free_head]
    /\ Now(t, [call[t] EXCEPT !.op = "pushed", !.head = free_head])
    /\ UNCHANGED <<mapping, shard, free_head, lru, puts>>

PushSwap(t) ==
    /\ call[t].op = "pushed"
    /\ IF free_head = call[t].head
       THEN free_head' = call[t].idx /\ EndCall(t)
       ELSE UNCHANGED free_head /\ Now(t, [call[t] EXCEPT !.op = "push"])
    /\ UNCHANGED <<mapping, node, shard, lru, puts>>

\* clear resets the map, the nodes, the ends and the head, one after another.
clear_map(t) ==
    /\ call[t].op = "idle"
    /\ mapping' = [k \in CKeys |-> Null]
    /\ Start(t, [NoCall EXCEPT !.op = "clear"])
    /\ UNCHANGED <<node, shard, free_head, puts>>

clear_nodes(t) ==
    /\ call[t].op = "clear"
    /\ node' = FreshArena
    /\ Now(t, [NoCall EXCEPT !.op = "cleared"])
    /\ UNCHANGED <<mapping, shard, free_head, lru, puts>>

clear_ends(t) ==
    /\ call[t].op = "cleared"
    /\ shard' = [s \in ShardIds |-> [first |-> Null, last |-> Null]]
    /\ free_head' = 0
    /\ Learn([s \in ShardIds |-> <<>>])
    /\ EndCall(t)
    /\ UNCHANGED <<mapping, node, puts>>

CallStep(t) ==
    \/ GetRead(t) \/ GetTouch(t) \/ PutUpdate(t) \/ PutTouch(t) \/ free_pop(t) \/ FreeSwap(t)
    \/ acquire_node(t) \/ PutGivesUp(t) \/ Unmap(t) \/ PutStore(t)
    \/ RemoveUnlink(t) \/ free_push(t) \/ PushSwap(t) \/ clear_nodes(t) \/ clear_ends(t)

LruNext == \E t \in CThreads :
    \/ CallStep(t)
    \/ clear_map(t)
    \/ \E k \in CKeys : GetLookup(t, k) \/ PutLookup(t, k) \/ RemoveLookup(t, k)

-----------------------------------------------------------------------------
\* The nodes met from index i along a pointer, at most ArenaSize of them.
Walk(i, next) ==
    LET step[n \in 0 .. ArenaSize] ==
          IF n = 0 THEN <<>>
          ELSE LET w == step[n - 1]
                   j == IF w = <<>> THEN i ELSE next[Last(w)]
               IN IF j = Null \/ Len(w) < n - 1 THEN w ELSE Append(w, j)
    IN step[ArenaSize]
Along == [i \in Slots |-> node[i].next]
Back == [i \in Slots |-> node[i].prev]
InShard(s) == Walk(shard[s].first, Along)
Free == Walk(free_head, Along)

\* As long as no two calls have overlapped, and with nobody inside it, the cache is exactly the one it stands for: the list
\* of every shard, read from the front, is the order of use an exact LRU cache
\* would have, the same list read from the back, the map names these nodes
\* and no other, and all remaining nodes are free, so that the capacity is
\* the true total however puts, gets, removes and clears alternate.
ArenaIsLru ==
    lru # Unknown /\ (\A t \in CThreads : call[t].op = "idle") =>
        /\ \A s \in ShardIds :
             /\ [i \in DOMAIN InShard(s) |-> [key |-> node[InShard(s)[i]].key, val |-> node[InShard(s)[i]].val]] = lru[s]
             /\ Walk(shard[s].last, Back) = Reverse(InShard(s))
             /\ \A i \in DOMAIN InShard(s) : mapping[node[InShard(s)[i]].key] = InShard(s)[i]
        /\ Cardinality({k \in CKeys : mapping[k] # Null}) = Cardinality(Entries(lru))
        /\ ToSet(Free) = Slots \ UNION {ToSet(InShard(s)) : s \in ShardIds}
=============================================================================
