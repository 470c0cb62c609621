------------------------- MODULE TimeseriesStation -------------------------
(***************************************************************************)
(* A timeseries station with storage (opsense-core/src/station.rs): blocks *)
(* of observations in an LRU cache (opsense-mlib/src/lru.rs), snapshots of *)
(* blocks appended to a storage by spawned tasks, and a cold read of the   *)
(* newest snapshot on a miss.  Pipeline nodes write under the write half   *)
(* of the station's RwLock; the API and http_origin write, readers read    *)
(* and clear runs under the read half, so these overlap.                   *)
(*                                                                         *)
(* A get or a put of the cache is one step.  A block is the set of its     *)
(* observations (update_range drops exact duplicates).  The storage keeps  *)
(* a snapshot per (block, millisecond); only the newest is ever read, so   *)
(* only it is kept.  The victim of an eviction is the tail of whichever    *)
(* shard is scanned first: any cached block.                               *)
(***************************************************************************)
EXTENDS Naturals, FiniteSets

CONSTANTS
    Writers,
    Obs, BlockOf,       \* observations, and the block of each (get_block_id)
    Capacity,         \* HOT_BLOCKS
    Shared,           \* do callers under the read half run? (API, readers, clear)
    MaxClock,         \* bound: milliseconds that pass
    MaxTasks,         \* bound: appends not yet run
    MaxCalls          \* bound: calls

ASSUME StationAssumption ==
    /\ BlockOf \in [Obs -> Nat]
    /\ Capacity \in Nat \ {0}
    /\ Shared \in BOOLEAN
    /\ {MaxClock, MaxTasks, MaxCalls} \subseteq Nat

\* The blocks from the first observation's to the last one's.
Window(recs) == UNION {UNION {BlockOf[x]..BlockOf[y] : y \in recs} : x \in recs}
Blocks == Window(Obs)

VARIABLES
    cache,   \* cached block -> its observations
    store,   \* block -> its newest snapshot: observations and time, or NoSnapshot
    tasks,   \* spawned appends that have not run: block, observations, time
    clock,   \* clock_value
    run,     \* thread -> the call it is in
    owed,    \* observations whose update_range returned, not cleared since
    gone,    \* observations that were there when clear was called
    hit,     \* blocks to which a known way to lose or revive observations happened
    calls    \* calls made so far

stationvars == <<cache, store, tasks, clock, run, owed, gone, hit, calls>>

NoSnapshot == [items |-> {}, ts |-> 0]
Idle == [op |-> "idle"]
Active == {t \in Writers : run[t] # Idle}

StationInit ==
    /\ cache = [b \in {} |-> {}]
    /\ store = [b \in Blocks |-> NoSnapshot]
    /\ tasks = {}
    /\ clock = 1
    /\ run = [t \in Writers |-> Idle]
    /\ owed = {}
    /\ gone = {}
    /\ hit = {}
    /\ calls = 0

-----------------------------------------------------------------------------
(* The cache.                                                              *)

Pending(b) == {q \in tasks : q.b = b}

\* persist_point: an append of block b is spawned, stamped now.
Snapshot(b, items) == [b |-> b, items |-> items, ts |-> clock]

\* Two snapshots of one block in one millisecond: the last append wins.
Ties(q) == \E p \in tasks \cup {[b |-> q.b, items |-> store[q.b].items, ts |-> store[q.b].ts]} :
               p.b = q.b /\ p.ts = q.ts

\* put of an existing key: replaced, and its new value persisted.
Update(b, items) ==
    /\ cache' = [cache EXCEPT ![b] = items]
    /\ tasks' = tasks \cup {Snapshot(b, items)}

\* Mutant: the victim is dropped without its persist_point.
Insert_DropsVictim(b, items, victims) ==
    /\ cache' = [x \in (DOMAIN cache \ victims) \cup {b} |-> IF x = b THEN items ELSE cache[x]]
    /\ UNCHANGED tasks

\* put of a new key: into a free node, or into the node of a victim, which is
\* persisted.  The new value is not.
Insert(b, items, victims) ==
    /\ cache' = [x \in (DOMAIN cache \ victims) \cup {b} |-> IF x = b THEN items ELSE cache[x]]
    /\ tasks' = tasks \cup {Snapshot(v, cache[v]) : v \in victims}

Victims ==
    IF Cardinality(DOMAIN cache) < Capacity THEN {{}} ELSE {{v} : v \in DOMAIN cache}

\* What a put of b by t may lose: another thread put the block after t read
\* it, or a snapshot it spawned shares its millisecond with another.
HitByPut(t, b) ==
    {x \in {b} : run[t].stale} \cup {q.b : q \in {p \in tasks' \ tasks : Ties(p)}}

\* Other threads between their get and their put of b now hold an old copy.
Overtake(t, b) ==
    [u \in Writers |-> IF u # t /\ run[u].op \in {"put", "load", "fill"} /\ run[u].b = b
                       THEN [run[u] EXCEPT !.stale = TRUE] ELSE run[u]]

put(t, b, items) ==
    /\ IF b \in DOMAIN cache THEN Update(b, items)
       ELSE \E victims \in Victims : Insert(b, items, victims)
    /\ Cardinality(tasks') <= MaxTasks

-----------------------------------------------------------------------------
(* update_range: for each block of the window, read, merge, put.           *)

\* Under the write half nobody else is inside; under the read half nobody is
\* inside who took the write half.
MayEnter(mode) ==
    IF mode = "write" THEN Active = {} ELSE \A t \in Active : run[t].mode = "read"

Enter(t, mode) ==
    /\ run[t] = Idle /\ MayEnter(mode)
    /\ calls < MaxCalls
    /\ calls' = calls + 1

Modes == IF Shared THEN {"read", "write"} ELSE {"write"}

First(S) == CHOOSE b \in S : \A c \in S : b <= c

update_range(t, mode, recs) ==
    /\ Enter(t, mode)
    /\ run' = [run EXCEPT ![t] = [op |-> "get", mode |-> mode, recs |-> recs,
                                  todo |-> Window(recs), cleared |-> FALSE]]
    /\ UNCHANGED <<cache, store, tasks, clock, owed, gone, hit>>

\* The cached block, or an empty one: the storage is not asked.  A block that
\* is neither cached nor given observations is passed over.
GetBlock(t) ==
    /\ run[t].op = "get"
    /\ LET b == First(run[t].todo)
           new == {o \in run[t].recs : BlockOf[o] = b}
           old == IF b \in DOMAIN cache THEN cache[b] ELSE {}
           cold == b \notin DOMAIN cache /\ (store[b] # NoSnapshot \/ Pending(b) # {})
       IN  IF b \notin DOMAIN cache /\ new = {}
           THEN /\ run' = [run EXCEPT ![t].todo = @ \ {b}]
                /\ UNCHANGED hit
           ELSE /\ run' = [run EXCEPT ![t] =
                              [op |-> "put", mode |-> @.mode, recs |-> @.recs, todo |-> @.todo,
                               cleared |-> @.cleared, b |-> b, stale |-> FALSE,
                               items |-> old \cup new]]
                /\ hit' = hit \cup {x \in {b} : cold}
    /\ UNCHANGED <<cache, store, tasks, clock, owed, gone, calls>>

\* The merged block goes into the cache; after the last one the call returns.
PutBlock(t) ==
    /\ run[t].op = "put"
    /\ LET r == run[t]
           rest == r.todo \ {r.b}
           done == IF r.cleared THEN {} ELSE r.recs
       IN  /\ put(t, r.b, r.items)
           /\ hit' = hit \cup HitByPut(t, r.b)
           /\ gone' = gone \ r.items
           /\ IF rest = {}
              THEN run' = [Overtake(t, r.b) EXCEPT ![t] = Idle] /\ owed' = owed \cup done
              ELSE /\ run' = [Overtake(t, r.b) EXCEPT ![t] =
                                 [op |-> "get", mode |-> r.mode, recs |-> r.recs,
                                  todo |-> rest, cleared |-> r.cleared]]
                   /\ UNCHANGED owed
    /\ UNCHANGED <<store, clock, calls>>

-----------------------------------------------------------------------------
(* query_recent: a miss reads the newest snapshot and fills the cache.     *)

\* A hit goes on with the next block.
query_recent(t, b) ==
    /\ Shared /\ Enter(t, "read")
    /\ b \notin DOMAIN cache
    /\ run' = [run EXCEPT ![t] = [op |-> "load", mode |-> "read", b |-> b, stale |-> FALSE]]
    /\ UNCHANGED <<cache, store, tasks, clock, owed, gone, hit>>

\* load_cold_block: an append of this block that has not run yet is missed.
load_cold_block(t) ==
    /\ run[t].op = "load"
    /\ LET b == run[t].b
       IN  /\ run' = [run EXCEPT ![t] =
                         IF store[b] = NoSnapshot THEN Idle
                         ELSE [op |-> "fill", mode |-> "read", b |-> b,
                               stale |-> @.stale, items |-> store[b].items]]
           /\ hit' = hit \cup {q.b : q \in Pending(b)}
    /\ UNCHANGED <<cache, store, tasks, clock, owed, gone, calls>>

FillCache(t) ==
    /\ run[t].op = "fill"
    /\ put(t, run[t].b, run[t].items)
    /\ hit' = hit \cup HitByPut(t, run[t].b)
    /\ run' = [Overtake(t, run[t].b) EXCEPT ![t] = Idle]
    /\ UNCHANGED <<store, clock, owed, gone, calls>>

-----------------------------------------------------------------------------
(* clear: the cache first, then the storage.                               *)

\* Calls and appends under way when a tier is emptied, or calls that filled the
\* cache between the two, may put back what was there, or lose what they put.
Disturbed(t) ==
    IF tasks # {} \/ Active \ {t} # {} \/ DOMAIN cache' # {}
    THEN Blocks ELSE hit

Disturb(t, next) ==
    [u \in Writers |->
        IF u = t THEN next
        ELSE IF run[u].op \in {"get", "put"} THEN [run[u] EXCEPT !.cleared = TRUE]
        ELSE run[u]]

clear(t) ==
    /\ Shared /\ Enter(t, "read")
    /\ gone' = gone \cup (UNION {cache[b] : b \in DOMAIN cache})
                    \cup (UNION {store[b].items : b \in Blocks})
    /\ cache' = [b \in {} |-> {}]
    /\ hit' = Disturbed(t)
    /\ owed' = {}
    /\ run' = Disturb(t, [op |-> "clear", mode |-> "read"])
    /\ UNCHANGED <<store, tasks, clock>>

ClearStorage(t) ==
    /\ run[t].op = "clear"
    /\ UNCHANGED <<cache, tasks, clock, gone, calls>>
    /\ hit' = Disturbed(t)
    /\ store' = [b \in Blocks |-> NoSnapshot]
    /\ owed' = {}
    /\ run' = Disturb(t, Idle)

-----------------------------------------------------------------------------
(* Spawned appends, the clock, and a stop of the process.                  *)

\* append; latest(1) finds the snapshot with the greatest time.
RunTask(q) ==
    /\ q \in tasks
    /\ tasks' = tasks \ {q}
    /\ store' = [store EXCEPT ![q.b] = IF q.ts >= @.ts THEN [items |-> q.items, ts |-> q.ts]
                                       ELSE @]
    /\ UNCHANGED <<cache, clock, run, owed, gone, hit, calls>>

Tick ==
    /\ clock < MaxClock
    /\ clock' = clock + 1
    /\ UNCHANGED <<cache, store, tasks, run, owed, gone, hit, calls>>

\* Cache and spawned appends are lost, with what only they held.  A clear that
\* had not returned promised nothing.
Stop ==
    /\ cache' = [b \in {} |-> {}]
    /\ tasks' = {}
    /\ run' = [t \in Writers |-> Idle]
    /\ owed' = {o \in owed : o \in store[BlockOf[o]].items}
    /\ gone' = IF \E t \in Active : run[t].op = "clear" THEN {} ELSE gone
    /\ UNCHANGED <<store, clock, hit, calls>>

StationNext ==
    \/ \E t \in Writers :
          \/ \E mode \in Modes, recs \in (SUBSET Obs) \ {{}} : update_range(t, mode, recs)
          \/ GetBlock(t) \/ PutBlock(t)
          \/ \E b \in Blocks : query_recent(t, b)
          \/ load_cold_block(t) \/ FillCache(t)
          \/ clear(t) \/ ClearStorage(t)
    \/ \E q \in tasks : RunTask(q)
    \/ Tick \/ Stop

StationSpec == StationInit /\ [][StationNext]_stationvars

-----------------------------------------------------------------------------
(* Properties.                                                             *)

\* The newest version of b outside the cache, appends under way included.
Newest(b) ==
    LET all == Pending(b) \cup {[b |-> b, items |-> store[b].items, ts |-> store[b].ts]}
    IN  (CHOOSE q \in all : \A p \in all : p.ts <= q.ts).items

\* A reader finds o, or will once the appends under way have run.
Kept(o) ==
    LET b == BlockOf[o] IN IF b \in DOMAIN cache THEN o \in cache[b] ELSE o \in Newest(b)

\* The only ways to lose one: its block was written while it was cold, put by
\* two calls that overlapped, read while its append had not run, persisted
\* twice in one millisecond, or cleared while calls or appends were under way.
LossHasCause == \A o \in owed : Kept(o) \/ BlockOf[o] \in hit

\* "The block in memory is the newest version" (station.rs:567): but for those
\* causes, what any snapshot or append under way holds is also in the cache.
MemoryNewest ==
    \A b \in DOMAIN cache :
        b \notin hit => store[b].items \cup UNION {q.items : q \in Pending(b)} \subseteq cache[b]

\* What clear removed does not come back, neither from the storage nor from an
\* append, unless calls or appends were under way (station.rs:493-500).
ClearedStaysGone ==
    (\A t \in Active : run[t].op # "clear") =>
        \A o \in gone : BlockOf[o] \in hit \/ ~Kept(o)

\* What a station promises, with the causes that excuse it.
StationSound == LossHasCause /\ MemoryNewest /\ ClearedStaysGone
=============================================================================
