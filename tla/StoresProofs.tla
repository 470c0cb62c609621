---------------------------- MODULE StoresProofs ----------------------------
(***************************************************************************)
(* Proofs about what a station's observations pass through.                *)
(*                                                                         *)
(* The timeseries station (TimeseriesStation): what it promises holds for  *)
(* every number of callers, observations and blocks, every capacity of the *)
(* cache and any pace of the clock and of the appends.                     *)
(*                                                                         *)
(* The lake under it (Lakehouse): for every number of callers and keys,    *)
(* any block size, any writes, flushes, checkpoints, removals and kills, a *)
(* lake whose log lines are written whole reopens to what it was, and what *)
(* can be found keeps the promise of DurableView.                          *)
(***************************************************************************)
EXTENDS TimeseriesStation, Lakehouse, WellFoundedInduction, TLAPS

(***************************************************************************)
(* Calls as they are while a thread is in one.                             *)
(***************************************************************************)
CallStates ==
  [op : {"idle"}]
  \cup [op : {"get"}, mode : {"read", "write"}, recs : SUBSET Obs, todo : SUBSET Blocks, cleared : BOOLEAN]
  \cup [op : {"put"}, mode : {"read", "write"}, recs : SUBSET Obs, todo : SUBSET Blocks, cleared : BOOLEAN,
        b : Blocks, stale : BOOLEAN, items : SUBSET Obs]
  \cup [op : {"load"}, mode : {"read"}, b : Blocks, stale : BOOLEAN]
  \cup [op : {"fill"}, mode : {"read"}, b : Blocks, stale : BOOLEAN, items : SUBSET Obs]
  \cup [op : {"clear"}, mode : {"read"}]

\* The last block of the window is one of an observation, so blocks are left
\* until the last one is put; they are put in their order.
Ahead(r) ==
  /\ r.op \in {"get", "put"} =>
       r.todo # {} /\ \A c \in r.todo : \E o \in r.recs : BlockOf[o] \in r.todo /\ c <= BlockOf[o]
  /\ r.op = "put" =>
       /\ r.b \in r.todo /\ \A c \in r.todo : r.b <= c
       /\ \A o \in r.recs : BlockOf[o] = r.b => o \in r.items

StationShape ==
  /\ DOMAIN cache \subseteq Blocks /\ cache \in [DOMAIN cache -> SUBSET Obs]
  /\ store \in [Blocks -> [items : SUBSET Obs, ts : Nat]]
  /\ tasks \subseteq [b : Blocks, items : SUBSET Obs, ts : Nat]
  /\ clock \in Nat /\ (\A q \in tasks : q.ts <= clock) /\ (\A b \in Blocks : store[b].ts <= clock)
  /\ run \in [Writers -> CallStates] /\ (\A t \in Writers : Ahead(run[t]))
  /\ owed \subseteq Obs /\ gone \subseteq Obs /\ hit \subseteq Blocks

(***************************************************************************)
(* o is in the cache, in the storage or in an append of block b.           *)
(***************************************************************************)
Has(b, o) ==
  \/ \E q \in tasks : q.b = b /\ o \in q.items
  \/ o \in store[b].items
  \/ b \in DOMAIN cache /\ o \in cache[b]

(***************************************************************************)
(* Of a block to which nothing happened, later versions hold what earlier  *)
(* ones did, two of one time hold the same, and the cache what all do.     *)
(***************************************************************************)
InOrder(b) ==
  /\ \A p, q \in tasks : p.b = b /\ q.b = b /\ p.ts <= q.ts => p.items \subseteq q.items
  /\ \A p \in tasks : p.b = b =>
       /\ p.ts <= store[b].ts => p.items \subseteq store[b].items
       /\ store[b].ts <= p.ts => store[b].items \subseteq p.items

Clean(b) == InOrder(b) /\ (b \in DOMAIN cache => \A o \in Obs : Has(b, o) => o \in cache[b])

NoClear == \A t \in Writers : run[t].op # "clear"

(***************************************************************************)
(* A call: what it has put is there, and a copy it holds that is not stale *)
(* misses nothing and brings nothing back.                                 *)
(***************************************************************************)
CallOk(r) ==
  /\ r.op \in {"get", "put"} => \A o \in r.recs : BlockOf[o] \in r.todo \cup hit \/ Has(BlockOf[o], o)
  /\ r.op \in {"put", "fill"} /\ r.b \notin hit /\ ~r.stale => \A o \in Obs : Has(r.b, o) => o \in r.items
  /\ r.op = "load" /\ r.b \notin hit /\ ~r.stale => r.b \notin DOMAIN cache
  /\ r.op = "fill" /\ r.b \notin hit /\ NoClear => \A o \in r.items \cap gone : BlockOf[o] # r.b

StationInv ==
  /\ StationShape /\ (\A b \in Blocks \ hit : Clean(b)) /\ (\A t \in Writers : CallOk(run[t]))
  /\ \A o \in owed : BlockOf[o] \in hit \/ Has(BlockOf[o], o)
  /\ NoClear => \A o \in gone : BlockOf[o] \in hit \/ ~Has(BlockOf[o], o)

-----------------------------------------------------------------------------
LEMMA LeastNat ==
  ASSUME NEW S \in SUBSET Nat, S # {}
  PROVE  \E x \in S : \A y \in S : x <= y
<1>1. PICK x \in S : \A y \in S : ~ (<<y, x>> \in OpToRel(<, Nat))
  BY NatLessThanWellFounded, WFMin
<1>2. ASSUME NEW y \in S PROVE x <= y
  <2>1. y < x => <<y, x>> \in OpToRel(<, Nat)
    BY DEF OpToRel
  <2>2. x \in Nat /\ y \in Nat /\ ~(y < x)
    BY <1>1, <2>1
  <2>3. QED  BY <2>2
<1>3. QED  BY <1>1, <1>2

LEMMA WindowFacts ==
  ASSUME NEW recs \in SUBSET Obs
  PROVE  /\ Window(recs) \subseteq Blocks /\ Blocks \subseteq Nat
         /\ \A o \in recs : BlockOf[o] \in Window(recs) /\ BlockOf[o] \in Nat
         /\ \A c \in Window(recs) : \E o \in recs : c <= BlockOf[o]
<1>1. \A o \in Obs : BlockOf[o] \in Nat
  BY StationAssumption
<1>2. \A c : c \in Window(recs) <=> \E x, y \in recs : c \in BlockOf[x]..BlockOf[y]
  BY DEF Window
<1>3. \A c : c \in Blocks <=> \E x, y \in Obs : c \in BlockOf[x]..BlockOf[y]
  BY DEF Blocks, Window
<1>4. Window(recs) \subseteq Blocks /\ Blocks \subseteq Nat
  BY <1>1, <1>2, <1>3
<1>5. ASSUME NEW o \in recs PROVE BlockOf[o] \in Window(recs) /\ BlockOf[o] \in Nat
  <2>1. BlockOf[o] \in BlockOf[o]..BlockOf[o]
    BY <1>1
  <2>2. QED  BY <1>1, <1>2, <2>1
<1>6. \A c \in Window(recs) : \E o \in recs : c <= BlockOf[o]
  BY <1>1, <1>2
<1>7. QED  BY <1>4, <1>5, <1>6

LEMMA BlockFacts == Blocks \subseteq Nat /\ \A o \in Obs : BlockOf[o] \in Blocks
<1>1. Window(Obs) = Blocks
  BY DEF Window, Blocks
<1>2. QED  BY <1>1, WindowFacts

LEMMA FirstFacts ==
  ASSUME NEW S \in SUBSET Blocks, S # {}
  PROVE  First(S) \in S /\ \A c \in S : First(S) <= c
<1>1. \E x \in S : \A y \in S : x <= y
  BY LeastNat, BlockFacts
<1>2. QED  BY <1>1 DEF First

\* The newest version of a block outside of the cache is one of them, and of a
\* block to which nothing happened it holds what all of them hold.
LEMMA NewestFacts ==
  ASSUME StationShape, NEW b \in Blocks
  PROVE  /\ \A o \in Newest(b) : Has(b, o)
         /\ InOrder(b) /\ b \notin DOMAIN cache => \A o : Has(b, o) => o \in Newest(b)
<1> DEFINE cold == [b |-> b, items |-> store[b].items, ts |-> store[b].ts]
           all == Pending(b) \cup {cold}
           ages == {clock - q.ts : q \in all}
<1>1. \A q \in all : q.ts \in Nat /\ q.ts <= clock
  <2>1. \A q \in Pending(b) : q.ts \in Nat /\ q.ts <= clock
    BY DEF StationShape, Pending
  <2>2. cold.ts \in Nat /\ cold.ts <= clock
    BY DEF StationShape
  <2>3. QED  BY <2>1, <2>2
<1>2. \E q \in all : \A p \in all : p.ts <= q.ts
  <2>1. clock \in Nat /\ ages \in SUBSET Nat /\ ages # {}
    <3>1. clock \in Nat
      BY DEF StationShape
    <3>2. \A q \in all : clock - q.ts \in Nat
      BY <1>1, <3>1
    <3>3. cold \in all
      OBVIOUS
    <3> HIDE DEF all
    <3>4. QED  BY <3>1, <3>2, <3>3
  <2>2. PICK a \in ages : \A y \in ages : a <= y
    BY <2>1, LeastNat
  <2>3. PICK q \in all : a = clock - q.ts
    BY <2>2
  <2>4. ASSUME NEW p \in all PROVE p.ts <= q.ts
    <3>1. clock - q.ts <= clock - p.ts
      BY <2>2, <2>3
    <3>2. QED  BY <1>1, <2>1, <3>1
  <2>5. QED  BY <2>3, <2>4
<1> DEFINE q == CHOOSE q \in all : \A p \in all : p.ts <= q.ts
<1>3. q \in all /\ \A p \in all : p.ts <= q.ts
  BY <1>2
<1>4. Newest(b) = q.items
  BY DEF Newest
<1> HIDE DEF q
<1>5. \A o \in q.items : Has(b, o)
  BY <1>3 DEF Has, Pending
<1>6. ASSUME InOrder(b), b \notin DOMAIN cache, NEW o, Has(b, o) PROVE o \in q.items
  <2>1. PICK p \in all : o \in p.items
    <3>1. cold \in all /\ cold.items = store[b].items /\ \A p \in tasks : p.b = b => p \in all
      BY DEF Pending
    <3> HIDE DEF all, cold
    <3>2. QED  BY <1>6, <3>1 DEF Has
  <2>2. p.ts <= q.ts
    BY <1>3
  <2>3. CASE q = cold
    BY <1>6, <2>1, <2>2, <2>3 DEF InOrder, Pending
  <2>4. CASE q \in Pending(b) /\ p = cold
    BY <1>6, <2>1, <2>2, <2>4 DEF InOrder, Pending
  <2>5. CASE q \in Pending(b) /\ p \in Pending(b)
    BY <1>6, <2>1, <2>2, <2>5 DEF InOrder, Pending
  <2>6. QED  BY <1>3, <2>3, <2>4, <2>5
<1>7. QED  BY <1>4, <1>5, <1>6

LEMMA StationKeepsPromise == StationInv => StationSound
<1> SUFFICES ASSUME StationInv PROVE StationSound
  OBVIOUS
<1>1. StationShape /\ \A o \in Obs : BlockOf[o] \in Blocks
  BY BlockFacts DEF StationInv
<1>2. ASSUME NEW o \in Obs, BlockOf[o] \notin hit, Has(BlockOf[o], o) PROVE Kept(o)
  <2>1. Clean(BlockOf[o])
    BY <1>1, <1>2 DEF StationInv
  <2>2. QED  BY <1>1, <1>2, <2>1, NewestFacts DEF Kept, Clean
<1>3. ASSUME NEW o \in Obs, Kept(o) PROVE Has(BlockOf[o], o)
  <2>1. CASE BlockOf[o] \in DOMAIN cache
    BY <1>3, <2>1 DEF Kept, Has
  <2>2. CASE BlockOf[o] \notin DOMAIN cache
    BY <1>1, <1>3, <2>2, NewestFacts DEF Kept
  <2>3. QED  BY <2>1, <2>2
<1>4. LossHasCause
  BY <1>1, <1>2 DEF LossHasCause, StationInv, StationShape
<1>5. MemoryNewest
  <2>1. ASSUME NEW b \in DOMAIN cache, b \notin hit,
               NEW o \in store[b].items \cup UNION {q.items : q \in Pending(b)}
        PROVE  o \in cache[b]
    <3>1. b \in Blocks /\ Clean(b)
      BY <1>1, <2>1 DEF StationInv, StationShape
    <3>2. Has(b, o) /\ o \in Obs
      BY <1>1, <2>1, <3>1 DEF Has, Pending, StationShape
    <3>3. QED  BY <2>1, <3>1, <3>2 DEF Clean
  <2>2. QED  BY <2>1 DEF MemoryNewest
<1>6. ClearedStaysGone
  <2>1. (\A t \in Active : run[t].op # "clear") => NoClear
    BY DEF Active, NoClear, Idle
  <2>2. QED  BY <1>1, <1>3, <2>1 DEF ClearedStaysGone, StationInv, StationShape
<1>7. QED  BY <1>4, <1>5, <1>6 DEF StationSound

-----------------------------------------------------------------------------
LEMMA StationStart == StationInit => StationInv
<1> SUFFICES ASSUME StationInit PROVE StationInv
  OBVIOUS
<1>1. Idle \in CallStates /\ Ahead(Idle) /\ CallOk(Idle) /\ Idle.op = "idle"
  BY DEF Idle, CallStates, Ahead, CallOk
<1>2. StationShape
  <2>1. cache \in [{} -> SUBSET Obs] /\ DOMAIN cache = {}
    BY DEF StationInit
  <2>2. store \in [Blocks -> [items : SUBSET Obs, ts : Nat]] /\ \A b \in Blocks : store[b].ts = 0
    BY DEF StationInit, NoSnapshot
  <2>3. QED  BY <1>1, <2>1, <2>2 DEF StationInit, StationShape
<1>3. \A b \in Blocks : Clean(b)
  BY DEF StationInit, Clean, InOrder
<1>4. QED  BY <1>1, <1>2, <1>3 DEF StationInit, StationInv

\* A call goes on as before, if nothing is lost from or added to a block to
\* which nothing happened.
LEMMA CallKept ==
  ASSUME StationInv, NEW t \in Writers, run'[t] = run[t], hit \subseteq hit',
         \A c \in Blocks \ hit', o \in Obs : Has(c, o)' <=> Has(c, o),
         DOMAIN cache' \subseteq DOMAIN cache, gone' \subseteq gone, NoClear' => NoClear
  PROVE  CallOk(run[t])'
<1>1. run[t] \in CallStates /\ CallOk(run[t])
  BY DEF StationInv, StationShape
<1>2. ASSUME run[t].op \in {"get", "put"}, NEW o \in run[t].recs
      PROVE  BlockOf[o] \in run[t].todo \cup hit' \/ Has(BlockOf[o], o)'
  <2>1. o \in Obs /\ BlockOf[o] \in Blocks
    BY <1>1, <1>2, BlockFacts DEF CallStates
  <2>2. BlockOf[o] \in run[t].todo \cup hit \/ Has(BlockOf[o], o)
    BY <1>1, <1>2 DEF CallOk
  <2>3. QED  BY <2>1, <2>2
<1>3. ASSUME run[t].op \in {"put", "fill"}, run[t].b \notin hit', ~run[t].stale, NEW o \in Obs, Has(run[t].b, o)'
      PROVE  o \in run[t].items
  <2>1. run[t].b \in Blocks \ hit'
    BY <1>1, <1>3 DEF CallStates
  <2>2. QED  BY <1>1, <1>3, <2>1 DEF CallOk
<1>4. run[t].op = "load" /\ run[t].b \notin hit' /\ ~run[t].stale => run[t].b \notin DOMAIN cache'
  BY <1>1 DEF CallOk
<1>5. run[t].op = "fill" /\ run[t].b \notin hit' /\ NoClear' => \A o \in run[t].items \cap gone' : BlockOf[o] # run[t].b
  BY <1>1 DEF CallOk
<1>6. QED  BY <1>2, <1>3, <1>4, <1>5 DEF CallOk

\* A step of t that leaves the three tiers alone.
LEMMA CallMoves ==
  ASSUME StationInv, NEW t \in Writers, NEW r \in CallStates, Ahead(r), CallOk(r)', r.op # "clear", run[t].op # "clear",
         run' = [run EXCEPT ![t] = r], UNCHANGED <<cache, store, tasks, clock, owed, gone>>,
         hit \subseteq hit', hit' \subseteq Blocks
  PROVE  StationInv'
<1>1. run'[t] = r /\ run' \in [Writers -> CallStates] /\ \A u \in Writers \ {t} : run'[u] = run[u]
  BY DEF StationInv, StationShape
<1>2. \A b, o : Has(b, o)' <=> Has(b, o)
  BY DEF Has
<1>3. NoClear' => NoClear
  BY <1>1 DEF NoClear
<1>4. \A u \in Writers : Ahead(run[u])'
  BY <1>1 DEF StationInv, StationShape, Ahead
<1>5. StationShape'
  BY <1>1, <1>4 DEF StationInv, StationShape
<1>6. ASSUME NEW u \in Writers PROVE CallOk(run[u])'
  <2>1. CASE u = t
    BY <1>1, <2>1 DEF CallOk
  <2>2. CASE u # t
    BY <1>1, <1>2, <1>3, <2>2, CallKept
  <2>3. QED  BY <2>1, <2>2
<1>7. ASSUME NEW b \in Blocks \ hit' PROVE Clean(b)'
  <2>1. Clean(b)
    BY DEF StationInv
  <2>2. QED  BY <1>2, <2>1 DEF Clean, InOrder
<1>8. \A o \in owed' : BlockOf[o] \in hit' \/ Has(BlockOf[o], o)'
  BY <1>2 DEF StationInv
<1>9. NoClear' => \A o \in gone' : BlockOf[o] \in hit' \/ ~Has(BlockOf[o], o)'
  BY <1>2, <1>3 DEF StationInv
<1>10. QED  BY <1>5, <1>6, <1>7, <1>8, <1>9 DEF StationInv

LEMMA UpdateRangeKeeps ==
  ASSUME StationInv, NEW t \in Writers, NEW mode \in Modes, NEW recs \in (SUBSET Obs) \ {{}}, update_range(t, mode, recs)
  PROVE  StationInv'
<1> DEFINE r == [op |-> "get", mode |-> mode, recs |-> recs, todo |-> Window(recs), cleared |-> FALSE]
<1>1. /\ run[t] = Idle /\ run' = [run EXCEPT ![t] = r]
      /\ UNCHANGED <<cache, store, tasks, clock, owed, gone>> /\ hit' = hit
  BY DEF update_range, Enter
<1>2. r \in CallStates
  BY WindowFacts DEF CallStates, Modes
<1>3. Ahead(r)
  <2>1. PICK o \in recs : TRUE
    OBVIOUS
  <2>2. Window(recs) # {}
    BY <2>1, WindowFacts
  <2>3. QED  BY <2>2, WindowFacts DEF Ahead
<1>4. CallOk(r)'
  BY WindowFacts DEF CallOk
<1>5. r.op # "clear" /\ run[t].op # "clear" /\ hit' \subseteq Blocks
  BY <1>1 DEF Idle, StationInv, StationShape
<1> HIDE DEF r
<1>6. QED  BY <1>1, <1>2, <1>3, <1>4, <1>5, CallMoves

LEMMA GetBlockKeeps ==
  ASSUME StationInv, NEW t \in Writers, GetBlock(t)
  PROVE  StationInv'
<1>0. PICK s \in CallStates : s = run[t]
  BY DEF StationInv, StationShape
<1> DEFINE b == First(s.todo)
           new == {o \in s.recs : BlockOf[o] = b}
           old == IF b \in DOMAIN cache THEN cache[b] ELSE {}
           cold == b \notin DOMAIN cache /\ (store[b] # NoSnapshot \/ Pending(b) # {})
<1>1. /\ s.op = "get" /\ Ahead(s) /\ CallOk(s) /\ StationShape
      /\ s \in [op : {"get"}, mode : {"read", "write"}, recs : SUBSET Obs, todo : SUBSET Blocks, cleared : BOOLEAN]
  BY <1>0 DEF GetBlock, StationInv, StationShape, CallStates
<1>2. s.todo # {} /\ b \in s.todo /\ (\A c \in s.todo : b <= c) /\ b \in Blocks
  BY <1>1, FirstFacts DEF Ahead
<1>3. UNCHANGED <<cache, store, tasks, clock, owed, gone>> /\ \A c, o : Has(c, o)' <=> Has(c, o)
  BY DEF GetBlock, Has
<1>4. CASE b \notin DOMAIN cache /\ new = {}
  <2> DEFINE r == [s EXCEPT !.todo = @ \ {b}]
  <2>1. run' = [run EXCEPT ![t] = r] /\ hit' = hit
    BY <1>0, <1>4 DEF GetBlock
  <2>2. r \in CallStates /\ r.op = "get" /\ r.recs = s.recs /\ r.todo = s.todo \ {b}
    BY <1>1 DEF CallStates
  <2>3. \A o \in s.recs : BlockOf[o] # b
    BY <1>4
  <2>4. Ahead(r)
    <3>1. \A c \in s.todo : \E o \in s.recs : BlockOf[o] \in s.todo \ {b} /\ c <= BlockOf[o]
      BY <1>1, <2>3 DEF Ahead
    <3>2. QED  BY <1>2, <2>2, <3>1 DEF Ahead
  <2>5. CallOk(r)'
    <3>1. \A o \in s.recs : BlockOf[o] \in s.todo \cup hit \/ Has(BlockOf[o], o)
      BY <1>1 DEF CallOk
    <3>2. \A o \in s.recs : BlockOf[o] \in (s.todo \ {b}) \cup hit' \/ Has(BlockOf[o], o)'
      BY <1>3, <2>1, <2>3, <3>1
    <3> HIDE DEF r, b
    <3>3. QED  BY <2>2, <3>2 DEF CallOk
  <2>6. hit' \subseteq Blocks /\ hit \subseteq hit' /\ run[t].op # "clear" /\ r.op # "clear"
    BY <1>0, <1>1, <2>1, <2>2 DEF StationShape
  <2> HIDE DEF r
  <2>7. QED  BY <1>3, <2>1, <2>2, <2>4, <2>5, <2>6, CallMoves
<1>5. CASE ~(b \notin DOMAIN cache /\ new = {})
  <2> DEFINE next == [op |-> "put", mode |-> s.mode, recs |-> s.recs, todo |-> s.todo, cleared |-> s.cleared,
                      b |-> b, stale |-> FALSE, items |-> old \cup new]
  <2>1. run' = [run EXCEPT ![t] = next] /\ hit' = hit \cup {x \in {b} : cold}
    BY <1>0, <1>5 DEF GetBlock
  <2>2. old \in SUBSET Obs /\ new \in SUBSET Obs
    BY <1>1 DEF StationShape
  <2>3. PICK r \in CallStates : r = next
    BY <1>1, <1>2, <2>2 DEF CallStates
  <2>4. /\ r.op = "put" /\ r.recs = s.recs /\ r.todo = s.todo /\ r.b = b /\ ~r.stale /\ r.items = old \cup new
        /\ run' = [run EXCEPT ![t] = r]
    BY <2>1, <2>3
  <2>5. Ahead(r)
    BY <1>1, <1>2, <2>4 DEF Ahead
  <2>6. ASSUME b \notin hit', NEW o \in Obs, Has(b, o)' PROVE o \in r.items
    <3>1. Has(b, o) /\ ~cold /\ b \notin hit
      BY <1>3, <2>1, <2>6
    <3>2. CASE b \in DOMAIN cache
      <4>1. Clean(b)
        BY <1>2, <3>1 DEF StationInv
      <4>2. QED  BY <2>4, <3>1, <3>2, <4>1 DEF Clean
    <3>3. CASE b \notin DOMAIN cache
      BY <3>1, <3>3 DEF Has, NoSnapshot, Pending
    <3>4. QED  BY <3>2, <3>3
  <2>7. \A o \in s.recs : BlockOf[o] \in s.todo \cup hit' \/ Has(BlockOf[o], o)'
    <3>1. \A o \in s.recs : BlockOf[o] \in s.todo \cup hit \/ Has(BlockOf[o], o)
      BY <1>1 DEF CallOk
    <3>2. QED  BY <1>3, <2>1, <3>1
  <2>8. hit' \subseteq Blocks /\ hit \subseteq hit' /\ run[t].op # "clear"
    BY <1>0, <1>1, <1>2, <2>1 DEF StationShape
  <2> HIDE DEF b
  <2>9. CallOk(r)'
    BY <2>4, <2>6, <2>7 DEF CallOk
  <2>10. QED  BY <1>3, <2>4, <2>5, <2>8, <2>9, CallMoves
<1>6. QED  BY <1>4, <1>5

LEMMA ColdReadKeeps ==
  ASSUME StationInv, NEW t \in Writers
  PROVE  /\ \A b \in Blocks : query_recent(t, b) => StationInv'
         /\ load_cold_block(t) => StationInv'
<1>1. ASSUME NEW b \in Blocks, query_recent(t, b) PROVE StationInv'
  <2> DEFINE r == [op |-> "load", mode |-> "read", b |-> b, stale |-> FALSE]
  <2>1. /\ run[t] = Idle /\ run' = [run EXCEPT ![t] = r] /\ b \notin DOMAIN cache
        /\ UNCHANGED <<cache, store, tasks, clock, owed, gone>> /\ hit' = hit
    BY <1>1 DEF query_recent, Enter
  <2>2. r \in CallStates /\ Ahead(r) /\ r.op # "clear"
    BY DEF CallStates, Ahead
  <2>3. CallOk(r)'
    BY <2>1 DEF CallOk
  <2>4. run[t].op # "clear" /\ hit' \subseteq Blocks
    BY <2>1 DEF Idle, StationInv, StationShape
  <2> HIDE DEF r
  <2>5. QED  BY <2>1, <2>2, <2>3, <2>4, CallMoves
<1>2. ASSUME load_cold_block(t) PROVE StationInv'
  <2>0. PICK s \in CallStates : s = run[t]
    BY DEF StationInv, StationShape
  <2> DEFINE b == s.b
             fill == [op |-> "fill", mode |-> "read", b |-> b, stale |-> s.stale, items |-> store[b].items]
  <2>1. /\ s.op = "load" /\ CallOk(s) /\ StationShape
        /\ s \in [op : {"load"}, mode : {"read"}, b : Blocks, stale : BOOLEAN]
    BY <1>2, <2>0 DEF load_cold_block, StationInv, StationShape, CallStates
  <2>2. /\ run' = [run EXCEPT ![t] = IF store[b] = NoSnapshot THEN Idle ELSE fill]
        /\ hit' = hit \cup {q.b : q \in Pending(b)} /\ UNCHANGED <<cache, store, tasks, clock, owed, gone>>
    BY <1>2, <2>0 DEF load_cold_block
  <2>3. b \in Blocks /\ store[b].items \in SUBSET Obs /\ \A c, o : Has(c, o)' <=> Has(c, o)
    BY <2>1, <2>2 DEF StationShape, Has
  <2>4. hit \subseteq hit' /\ hit' \subseteq Blocks /\ run[t].op # "clear"
    BY <2>0, <2>1, <2>2, <2>3 DEF StationShape, Pending
  <2>5. CASE store[b] = NoSnapshot
    <3>1. Idle \in CallStates /\ Ahead(Idle) /\ CallOk(Idle)' /\ Idle.op # "clear"
      BY DEF CallStates, Idle, Ahead, CallOk
    <3>2. run' = [run EXCEPT ![t] = Idle]
      BY <2>2, <2>5
    <3>3. QED  BY <2>2, <2>4, <3>1, <3>2, CallMoves
  <2>6. CASE store[b] # NoSnapshot
    <3>1. PICK r \in CallStates : r = fill
      BY <2>1, <2>3 DEF CallStates
    <3>2. /\ r.op = "fill" /\ r.b = b /\ r.stale = s.stale /\ r.items = store[b].items
          /\ run' = [run EXCEPT ![t] = r] /\ Ahead(r)
      BY <2>2, <2>6, <3>1 DEF Ahead
    <3>3. ASSUME b \notin hit', ~s.stale, NEW o \in Obs, Has(b, o)' PROVE o \in r.items
      <4>1. b \notin hit /\ b \notin DOMAIN cache
        BY <2>1, <2>4, <3>3 DEF CallOk
      <4>2. \A q \in tasks : q.b # b
        BY <2>2, <3>3 DEF Pending
      <4>3. Has(b, o)
        BY <2>3, <3>3
      <4>4. QED  BY <3>2, <4>1, <4>2, <4>3 DEF Has
    <3>4. ASSUME b \notin hit', NoClear', NEW o \in r.items, o \in gone' PROVE BlockOf[o] # b
      <4>1. NoClear
        <5>1. \A u \in Writers : u # t => run'[u] = run[u]
          BY <2>1, <2>2 DEF StationShape
        <5>2. QED  BY <2>4, <3>4, <5>1 DEF NoClear
      <4>2. Has(b, o) /\ (BlockOf[o] \in hit \/ ~Has(BlockOf[o], o))
        BY <2>2, <3>2, <3>4, <4>1 DEF Has, StationInv
      <4>3. QED  BY <2>4, <3>4, <4>2
    <3> HIDE DEF b
    <3>5. CallOk(r)'
      BY <3>2, <3>3, <3>4 DEF CallOk
    <3>6. QED  BY <2>2, <2>4, <3>2, <3>5, CallMoves
  <2>7. QED  BY <2>5, <2>6
<1>3. QED  BY <1>1, <1>2

-----------------------------------------------------------------------------
(***************************************************************************)
(* What a put of b does to a block c to which nothing happened: the block  *)
(* that was put holds the items, its victim moves from the cache to an     *)
(* append, and nothing else changes.                                       *)
(***************************************************************************)
LEMMA SnapshotKeepsOrder ==
  ASSUME StationShape, NEW b \in Blocks, NEW items \in SUBSET Obs, InOrder(b), \A o \in Obs : Has(b, o) => o \in items,
         NEW p, p = Snapshot(b, items), \A q \in tasks' : q.b = b => q \in tasks \/ q = p,
         store' = store, p \in tasks \/ ~Ties(p)
  PROVE  InOrder(b)'
<1>1. p.b = b /\ p.items = items /\ p.ts = clock /\ clock \in Nat
  BY DEF Snapshot, StationShape
<1>2. CASE p \in tasks
  BY <1>2 DEF InOrder
<1>3. CASE ~Ties(p)
  <2>1. \A q \in tasks : q.b = b => q.ts \in Nat /\ q.ts < clock /\ q.items \subseteq items
    <3>1. ASSUME NEW q \in tasks, q.b = b PROVE q.ts \in Nat /\ q.ts < clock
      <4>1. q.ts \in Nat /\ q.ts <= clock
        BY DEF StationShape
      <4>2. q.ts # clock
        BY <1>1, <1>3, <3>1 DEF Ties
      <4>3. QED  BY <1>1, <4>1, <4>2
    <3>2. ASSUME NEW q \in tasks, q.b = b PROVE q.items \subseteq items
      <4>1. q.items \subseteq Obs
        BY DEF StationShape
      <4>2. QED  BY <3>2, <4>1 DEF Has
    <3>3. QED  BY <3>1, <3>2
  <2>2. store[b].ts \in Nat /\ store[b].ts < clock /\ store[b].items \subseteq items
    <3>1. store[b].ts \in Nat /\ store[b].ts <= clock /\ store[b].items \subseteq Obs
      BY DEF StationShape
    <3>2. store[b].ts # clock
      <4> DEFINE cold == [b |-> p.b, items |-> store[p.b].items, ts |-> store[p.b].ts]
      <4>1. ~(cold.b = p.b /\ cold.ts = p.ts)
        BY <1>3 DEF Ties
      <4>2. QED  BY <1>1, <4>1
    <3>3. store[b].items \subseteq items
      BY <3>1 DEF Has
    <3>4. QED  BY <1>1, <3>1, <3>2, <3>3
  <2>3. ASSUME NEW x \in tasks', NEW y \in tasks', x.b = b, y.b = b, x.ts <= y.ts PROVE x.items \subseteq y.items
    <3>1. CASE x \in tasks /\ y \in tasks
      BY <2>3, <3>1 DEF InOrder
    <3>2. CASE y = p
      BY <1>1, <2>1, <2>3, <3>2
    <3>3. CASE x = p /\ y \in tasks
      BY <1>1, <2>1, <2>3, <3>3
    <3>4. QED  BY <2>3, <3>1, <3>2, <3>3
  <2>4. ASSUME NEW x \in tasks', x.b = b
        PROVE  /\ x.ts <= store'[b].ts => x.items \subseteq store'[b].items
               /\ store'[b].ts <= x.ts => store'[b].items \subseteq x.items
    <3>1. CASE x \in tasks
      BY <2>4, <3>1 DEF InOrder
    <3>2. CASE x = p
      BY <1>1, <2>2, <3>2
    <3>3. QED  BY <2>4, <3>1, <3>2
  <2>5. QED  BY <2>3, <2>4 DEF InOrder
<1>4. QED  BY <1>2, <1>3

LEMMA PutFacts ==
  ASSUME StationInv, NEW t \in Writers, NEW b \in Blocks, NEW items \in SUBSET Obs,
         b \notin hit /\ ~run[t].stale => \A o \in Obs : Has(b, o) => o \in items,
         put(t, b, items), hit' = hit \cup HitByPut(t, b), UNCHANGED <<store, clock>>
  PROVE  /\ DOMAIN cache' \subseteq Blocks /\ cache' \in [DOMAIN cache' -> SUBSET Obs]
         /\ DOMAIN cache' \subseteq DOMAIN cache \cup {b}
         /\ tasks' \subseteq [b : Blocks, items : SUBSET Obs, ts : Nat] /\ (\A q \in tasks' : q.ts <= clock)
         /\ hit \subseteq hit' /\ hit' \subseteq Blocks
         /\ \A c \in Blocks \ hit' :
              /\ Clean(c)'
              /\ c # b => \A o \in Obs : Has(c, o)' <=> Has(c, o)
              /\ c = b => \A o \in Obs : (Has(b, o)' <=> o \in items) /\ (Has(b, o) => o \in items)
<1>1. StationShape /\ clock \in Nat /\ \A c \in Blocks \ hit : Clean(c)
  BY DEF StationInv, StationShape
<1>2. \A c \in Blocks : \A its \in SUBSET Obs :
        /\ Snapshot(c, its) \in [b : Blocks, items : SUBSET Obs, ts : Nat] /\ Snapshot(c, its).ts <= clock
        /\ Snapshot(c, its).b = c /\ Snapshot(c, its).items = its
  BY <1>1 DEF Snapshot
<1>3. ASSUME NEW q \in tasks', q \notin tasks, Ties(q) PROVE q.b \in hit'
  BY <1>3 DEF HitByPut
<1>4. hit \subseteq hit' /\ (b \notin hit' => ~run[t].stale)
  BY DEF HitByPut
<1>5. CASE b \in DOMAIN cache
  <2> DEFINE p == Snapshot(b, items)
  <2>1. cache' = [cache EXCEPT ![b] = items] /\ tasks' = tasks \cup {p}
    BY <1>5 DEF put, Update
  <2>2. /\ DOMAIN cache' = DOMAIN cache /\ cache'[b] = items /\ \A c \in DOMAIN cache : c # b => cache'[c] = cache[c]
        /\ cache' \in [DOMAIN cache' -> SUBSET Obs]
    BY <1>1, <1>5, <2>1 DEF StationShape
  <2>3. p.b = b /\ p.items = items /\ p \in [b : Blocks, items : SUBSET Obs, ts : Nat] /\ p.ts <= clock
    BY <1>2
  <2>4. /\ tasks' \subseteq [b : Blocks, items : SUBSET Obs, ts : Nat] /\ (\A q \in tasks' : q.ts <= clock)
        /\ \A q \in tasks' : q \in tasks \/ q = p
    BY <1>1, <2>1, <2>3 DEF StationShape
  <2>5. hit' \subseteq Blocks
    BY <1>1, <2>4 DEF HitByPut, StationShape
  <2>6. ASSUME NEW c \in Blocks \ hit', c # b PROVE Clean(c)' /\ \A o \in Obs : Has(c, o)' <=> Has(c, o)
    <3>1. Clean(c) /\ (\A q \in tasks' : q.b = c => q \in tasks) /\ tasks \subseteq tasks'
      BY <1>1, <1>4, <2>1, <2>3, <2>4, <2>6
    <3>2. \A o \in Obs : Has(c, o)' <=> Has(c, o)
      BY <2>2, <2>6, <3>1 DEF Has
    <3>3. InOrder(c)'
      BY <3>1 DEF Clean, InOrder
    <3>4. QED  BY <2>2, <2>6, <3>1, <3>2, <3>3 DEF Clean
  <2>7. ASSUME b \notin hit'
        PROVE  Clean(b)' /\ \A o \in Obs : (Has(b, o)' <=> o \in items) /\ (Has(b, o) => o \in items)
    <3>1. Clean(b) /\ \A o \in Obs : Has(b, o) => o \in items
      BY <1>1, <1>4, <2>7
    <3>2. p \in tasks \/ ~Ties(p)
      BY <1>3, <2>1, <2>3, <2>7
    <3>3. InOrder(b)'
      BY <1>1, <2>4, <3>1, <3>2, SnapshotKeepsOrder DEF Clean
    <3>4. \A o \in Obs : Has(b, o)' => o \in items
      <4>1. ASSUME NEW o \in Obs, Has(b, o)', ~Has(b, o) PROVE o \in items
        BY <1>5, <2>2, <2>3, <2>4, <4>1 DEF Has
      <4>2. QED  BY <3>1, <4>1
    <3>5. \A o \in items : Has(b, o)'
      BY <1>5, <2>2 DEF Has
    <3>6. QED  BY <2>2, <3>1, <3>3, <3>4, <3>5 DEF Clean
  <2>8. QED  BY <1>1, <1>4, <2>2, <2>4, <2>5, <2>6, <2>7 DEF StationShape
<1>6. CASE b \notin DOMAIN cache
  <2>1. PICK V \in Victims : Insert(b, items, V)
    BY <1>6 DEF put
  <2>2. V \subseteq DOMAIN cache /\ b \notin V /\ V \subseteq Blocks
    BY <1>1, <1>6 DEF Victims, StationShape
  <2>3. /\ DOMAIN cache' = (DOMAIN cache \ V) \cup {b} /\ cache'[b] = items
        /\ \A c \in DOMAIN cache \ V : cache'[c] = cache[c]
        /\ tasks' = tasks \cup {Snapshot(v, cache[v]) : v \in V}
    BY <1>6, <2>1, <2>2 DEF Insert
  <2>4. cache' \in [DOMAIN cache' -> SUBSET Obs] /\ DOMAIN cache' \subseteq Blocks
    <3>1. \A c \in DOMAIN cache' : cache'[c] \in SUBSET Obs
      BY <1>1, <2>3 DEF StationShape
    <3>2. cache' = [x \in DOMAIN cache' |-> cache'[x]]
      BY <2>1, <2>3 DEF Insert
    <3>3. QED  BY <1>1, <2>3, <3>1, <3>2 DEF StationShape
  <2>5. \A v \in V : cache[v] \in SUBSET Obs /\ v \in Blocks
    BY <1>1, <2>2 DEF StationShape
  <2>6. /\ tasks' \subseteq [b : Blocks, items : SUBSET Obs, ts : Nat] /\ (\A q \in tasks' : q.ts <= clock)
        /\ \A q \in tasks' : q \in tasks \/ (q.b \in V /\ q = Snapshot(q.b, cache[q.b]))
    <3>1. \A q \in tasks' : q \in tasks \/ \E v \in V : q = Snapshot(v, cache[v])
      BY <2>3
    <3>2. \A v \in V : /\ Snapshot(v, cache[v]) \in [b : Blocks, items : SUBSET Obs, ts : Nat]
                       /\ Snapshot(v, cache[v]).ts <= clock /\ Snapshot(v, cache[v]).b = v
      BY <1>2, <2>5
    <3>3. QED  BY <1>1, <3>1, <3>2 DEF StationShape
  <2>7. hit' \subseteq Blocks
    BY <1>1, <2>6 DEF HitByPut, StationShape
  <2>8. ASSUME NEW c \in Blocks \ hit', c \notin V, c # b PROVE Clean(c)' /\ \A o \in Obs : Has(c, o)' <=> Has(c, o)
    <3>1. Clean(c) /\ (\A q \in tasks' : q.b = c => q \in tasks) /\ tasks \subseteq tasks'
      BY <1>1, <1>4, <2>3, <2>6, <2>8
    <3>2. (c \in DOMAIN cache' <=> c \in DOMAIN cache) /\ (c \in DOMAIN cache => cache'[c] = cache[c])
      BY <2>3, <2>8
    <3>3. \A o \in Obs : Has(c, o)' <=> Has(c, o)
      BY <3>1, <3>2 DEF Has
    <3>4. InOrder(c)'
      BY <3>1 DEF Clean, InOrder
    <3>5. QED  BY <3>1, <3>2, <3>3, <3>4 DEF Clean
  <2>9. ASSUME NEW c \in Blocks \ hit', c \in V PROVE Clean(c)' /\ \A o \in Obs : Has(c, o)' <=> Has(c, o)
    <3>1. PICK own \in SUBSET Obs : own = cache[c]
      BY <2>5, <2>9
    <3>2. PICK p : p = Snapshot(c, own) /\ p \in tasks' /\ p.b = c /\ p.items = own
      BY <1>2, <2>3, <2>9, <3>1
    <3>3. Clean(c) /\ c \in DOMAIN cache /\ c \notin DOMAIN cache'
      BY <1>1, <1>4, <2>2, <2>3, <2>9
    <3>4. \A o \in Obs : Has(c, o) <=> o \in own
      BY <3>1, <3>3 DEF Clean, Has
    <3>5. \A q \in tasks' : q.b = c => q \in tasks \/ q = p
      BY <2>6, <3>1, <3>2
    <3>6. p \in tasks \/ ~Ties(p)
      BY <1>3, <2>9, <3>2
    <3>7. InOrder(c)'
      BY <1>1, <3>2, <3>3, <3>4, <3>5, <3>6, SnapshotKeepsOrder DEF Clean
    <3>8. \A o \in Obs : Has(c, o)' => Has(c, o)
      BY <3>2, <3>3, <3>4, <3>5 DEF Has
    <3>9. \A o \in Obs : Has(c, o) => Has(c, o)'
      BY <3>2, <3>4 DEF Has
    <3>10. QED  BY <3>3, <3>7, <3>8, <3>9 DEF Clean
  <2>10. ASSUME b \notin hit'
         PROVE  Clean(b)' /\ \A o \in Obs : (Has(b, o)' <=> o \in items) /\ (Has(b, o) => o \in items)
    <3>1. Clean(b) /\ (\A o \in Obs : Has(b, o) => o \in items) /\ (\A q \in tasks' : q.b = b => q \in tasks) /\ tasks \subseteq tasks'
      BY <1>1, <1>4, <2>2, <2>3, <2>6, <2>10
    <3>2. InOrder(b)'
      BY <3>1 DEF Clean, InOrder
    <3>3. b \in DOMAIN cache' /\ \A o \in Obs : Has(b, o)' <=> o \in items
      BY <1>6, <2>3, <3>1 DEF Has
    <3>4. QED  BY <2>3, <3>1, <3>2, <3>3 DEF Clean
  <2>11. QED  BY <1>4, <2>3, <2>4, <2>6, <2>7, <2>8, <2>9, <2>10
<1>7. QED  BY <1>5, <1>6

\* A put takes no observation away from where nothing happened, and the other
\* calls go on, some with a copy that is stale now.
LEMMA PutSpares ==
  ASSUME StationInv, NEW t \in Writers, NEW b \in Blocks, NEW items \in SUBSET Obs,
         b \notin hit /\ ~run[t].stale => \A o \in Obs : Has(b, o) => o \in items,
         put(t, b, items), hit' = hit \cup HitByPut(t, b), UNCHANGED <<store, clock>>,
         NEW last \in CallStates, run' = [Overtake(t, b) EXCEPT ![t] = last],
         run[t].op # "clear", last.op # "clear", gone' \subseteq gone
  PROVE  /\ NoClear' => NoClear
         /\ \A o \in Obs : BlockOf[o] \in hit \/ Has(BlockOf[o], o) => BlockOf[o] \in hit' \/ Has(BlockOf[o], o)'
         /\ run' \in [Writers -> CallStates] /\ run'[t] = last
         /\ \A u \in Writers \ {t} : Ahead(run[u])' /\ CallOk(run[u])'
<1>1. run'[t] = last /\ \A u \in Writers \ {t} : run'[u] = Overtake(t, b)[u]
  BY DEF Overtake
<1>2. \A o \in Obs : BlockOf[o] \in hit \/ Has(BlockOf[o], o) => BlockOf[o] \in hit' \/ Has(BlockOf[o], o)'
  BY PutFacts, BlockFacts
<1>3. ASSUME NEW u \in Writers \ {t}
      PROVE  /\ run'[u] \in CallStates /\ run'[u].op = run[u].op /\ Ahead(run[u])'
             /\ (NoClear' => NoClear) => CallOk(run[u])'
  <2>1. PICK s \in CallStates : s = run[u] /\ Ahead(s) /\ CallOk(s)
    BY DEF StationInv, StationShape
  <2>2. hit \subseteq hit' /\ DOMAIN cache' \subseteq DOMAIN cache \cup {b}
    BY PutFacts
  <2>3. ASSUME s.op \in {"get", "put"}, NEW o \in s.recs
        PROVE  BlockOf[o] \in s.todo \cup hit' \/ Has(BlockOf[o], o)'
    <3>1. o \in Obs
      BY <2>3 DEF CallStates
    <3>2. QED  BY <1>2, <2>1, <2>3, <3>1 DEF CallOk
  <2>4. ASSUME NoClear' => NoClear, NoClear', s.op = "fill", s.b \notin hit', NEW o \in s.items \cap gone' PROVE BlockOf[o] # s.b
    BY <2>1, <2>2, <2>4 DEF CallOk
  <2>5. CASE s.op \in {"put", "load", "fill"} /\ s.b = b
    <3>1. PICK r : r = [s EXCEPT !.stale = TRUE]
      OBVIOUS
    <3>2. run'[u] = r
      BY <1>1, <2>1, <2>5, <3>1 DEF Overtake
    <3>3. /\ r \in CallStates /\ r.op = s.op /\ r.stale
          /\ s.op = "put" => r.b = s.b /\ r.recs = s.recs /\ r.todo = s.todo /\ r.items = s.items
          /\ s.op = "fill" => r.b = s.b /\ r.items = s.items
      BY <2>5, <3>1 DEF CallStates
    <3>4. Ahead(r)
      BY <2>1, <2>5, <3>3 DEF Ahead
    <3>5. ASSUME NoClear' => NoClear PROVE CallOk(r)'
      BY <2>3, <2>4, <2>5, <3>3, <3>5 DEF CallOk
    <3>6. QED  BY <2>1, <3>2, <3>3, <3>4, <3>5 DEF Ahead, CallOk
  <2>6. CASE ~(s.op \in {"put", "load", "fill"} /\ s.b = b)
    <3>1. run'[u] = s
      BY <1>1, <2>1, <2>6 DEF Overtake
    <3>2. ASSUME s.op \in {"put", "fill"}, s.b \notin hit', ~s.stale, NEW o \in Obs, Has(s.b, o)' PROVE o \in s.items
      <4>1. s.b \in Blocks \ hit' /\ s.b # b
        BY <2>6, <3>2 DEF CallStates
      <4>2. Has(s.b, o)
        BY <3>2, <4>1, PutFacts
      <4>3. QED  BY <2>1, <2>2, <3>2, <4>2 DEF CallOk
    <3>3. s.op = "load" /\ s.b \notin hit' /\ ~s.stale => s.b \notin DOMAIN cache'
      BY <2>1, <2>2, <2>6 DEF CallOk
    <3>4. ASSUME NoClear' => NoClear PROVE CallOk(s)'
      BY <2>3, <2>4, <3>2, <3>3, <3>4 DEF CallOk
    <3>5. QED  BY <2>1, <3>1, <3>4 DEF Ahead, CallOk
  <2>7. QED  BY <2>5, <2>6
<1>4. NoClear' => NoClear
  BY <1>1, <1>3 DEF NoClear
<1>5. run' \in [Writers -> CallStates]
  <2>1. \A u \in Writers : run'[u] \in CallStates
    BY <1>1, <1>3
  <2>2. DOMAIN run' = Writers /\ run' = [u \in Writers |-> run'[u]]
    BY DEF Overtake
  <2>3. QED  BY <2>1, <2>2
<1>6. QED  BY <1>1, <1>2, <1>3, <1>4, <1>5

LEMMA PutBlockKeeps ==
  ASSUME StationInv, NEW t \in Writers, PutBlock(t)
  PROVE  StationInv'
<1>1. PICK r \in CallStates : r = run[t] /\ Ahead(r) /\ CallOk(r) /\ r.op = "put"
  BY DEF PutBlock, StationInv, StationShape
<1>2. r \in [op : {"put"}, mode : {"read", "write"}, recs : SUBSET Obs, todo : SUBSET Blocks, cleared : BOOLEAN,
             b : Blocks, stale : BOOLEAN, items : SUBSET Obs]
  BY <1>1 DEF CallStates
<1> DEFINE rest == r.todo \ {r.b}
           done == IF r.cleared THEN {} ELSE r.recs
           more == [op |-> "get", mode |-> r.mode, recs |-> r.recs, todo |-> rest, cleared |-> r.cleared]
           last == IF rest = {} THEN Idle ELSE more
<1>3. /\ put(t, r.b, r.items) /\ hit' = hit \cup HitByPut(t, r.b) /\ UNCHANGED <<store, clock>>
      /\ gone' = gone \ r.items /\ run' = [Overtake(t, r.b) EXCEPT ![t] = last]
      /\ owed' = IF rest = {} THEN owed \cup done ELSE owed
  BY <1>1 DEF PutBlock
<1>4. r.b \in Blocks /\ r.items \in SUBSET Obs /\ (r.b \notin hit /\ ~run[t].stale => \A o \in Obs : Has(r.b, o) => o \in r.items)
  BY <1>1, <1>2 DEF CallOk
<1>5. last \in CallStates /\ last.op # "clear"
  BY <1>2 DEF Idle, CallStates
<1>6. Ahead(last)
  <2>1. ASSUME rest # {}, NEW c \in rest PROVE \E o \in r.recs : BlockOf[o] \in rest /\ c <= BlockOf[o]
    <3>1. PICK o \in r.recs : BlockOf[o] \in r.todo /\ c <= BlockOf[o]
      BY <1>1, <2>1 DEF Ahead
    <3>2. r.b <= c /\ c # r.b /\ c \in Nat /\ r.b \in Nat /\ BlockOf[o] \in Nat
      BY <1>1, <1>2, <2>1, <3>1, BlockFacts DEF Ahead
    <3>3. QED  BY <3>1, <3>2
  <2>2. QED  BY <2>1 DEF Ahead, Idle
<1> HIDE DEF last
<1>7. /\ NoClear' => NoClear
      /\ \A o \in Obs : BlockOf[o] \in hit \/ Has(BlockOf[o], o) => BlockOf[o] \in hit' \/ Has(BlockOf[o], o)'
      /\ run' \in [Writers -> CallStates] /\ run'[t] = last
      /\ \A u \in Writers \ {t} : Ahead(run[u])' /\ CallOk(run[u])'
  <2>1. run[t].op # "clear" /\ gone' \subseteq gone
    BY <1>1, <1>3
  <2>2. QED  BY <1>3, <1>4, <1>5, <2>1, PutSpares
<1>8. ASSUME NEW o \in r.recs PROVE BlockOf[o] \in rest \cup hit' \/ Has(BlockOf[o], o)'
  <2>1. o \in Obs
    BY <1>2
  <2>2. CASE BlockOf[o] = r.b
    <3>1. o \in r.items
      BY <1>1, <2>2 DEF Ahead
    <3>2. QED  BY <1>3, <1>4, <2>1, <2>2, <3>1, PutFacts
  <2>3. CASE BlockOf[o] # r.b
    BY <1>1, <1>7, <2>1, <2>3 DEF CallOk
  <2>4. QED  BY <2>2, <2>3
<1>9. CallOk(last)'
  <2>1. CASE rest = {}
    BY <2>1 DEF last, Idle, CallOk
  <2>2. CASE rest # {}
    <3>1. last.op = "get" /\ last.recs = r.recs /\ last.todo = rest
      BY <2>2 DEF last
    <3>2. QED  BY <1>8, <3>1 DEF CallOk
  <2>3. QED  BY <2>1, <2>2
<1>10. \A u \in Writers : Ahead(run[u])' /\ CallOk(run[u])'
  BY <1>6, <1>7, <1>9 DEF Ahead, CallOk
<1>11. /\ DOMAIN cache' \subseteq Blocks /\ cache' \in [DOMAIN cache' -> SUBSET Obs]
       /\ tasks' \subseteq [b : Blocks, items : SUBSET Obs, ts : Nat] /\ (\A q \in tasks' : q.ts <= clock)
       /\ hit' \subseteq Blocks
       /\ \A c \in Blocks \ hit' :
            /\ Clean(c)'
            /\ c # r.b => \A o \in Obs : Has(c, o)' <=> Has(c, o)
            /\ c = r.b => \A o \in Obs : Has(r.b, o)' <=> o \in r.items
  BY <1>3, <1>4, PutFacts
<1>12. owed' \subseteq Obs /\ \A o \in owed' : BlockOf[o] \in hit' \/ Has(BlockOf[o], o)'
  <2>1. owed \subseteq Obs /\ \A o \in owed : BlockOf[o] \in hit' \/ Has(BlockOf[o], o)'
    BY <1>7 DEF StationInv, StationShape
  <2>2. CASE rest # {}
    BY <1>3, <2>1, <2>2
  <2>3. CASE rest = {}
    BY <1>2, <1>3, <1>8, <2>1, <2>3
  <2>4. QED  BY <2>2, <2>3
<1>13. ASSUME NoClear', NEW o \in gone' PROVE BlockOf[o] \in hit' \/ ~Has(BlockOf[o], o)'
  <2>1. o \in gone /\ o \notin r.items /\ o \in Obs /\ BlockOf[o] \in Blocks
    BY <1>3, <1>13, BlockFacts DEF StationInv, StationShape
  <2>2. BlockOf[o] \in hit \/ ~Has(BlockOf[o], o)
    BY <1>7, <1>13, <2>1 DEF StationInv
  <2>3. hit \subseteq hit'
    BY <1>3
  <2>4. QED  BY <1>11, <2>1, <2>2, <2>3
<1>14. StationShape'
  BY <1>3, <1>7, <1>10, <1>11, <1>12 DEF StationInv, StationShape
<1>15. QED  BY <1>10, <1>11, <1>12, <1>13, <1>14 DEF StationInv

LEMMA FillCacheKeeps ==
  ASSUME StationInv, NEW t \in Writers, FillCache(t)
  PROVE  StationInv'
<1>1. PICK r \in CallStates : r = run[t] /\ CallOk(r) /\ r.op = "fill"
  BY DEF FillCache, StationInv, StationShape
<1>2. r.b \in Blocks /\ r.items \in SUBSET Obs
  BY <1>1 DEF CallStates
<1>3. /\ put(t, r.b, r.items) /\ hit' = hit \cup HitByPut(t, r.b) /\ UNCHANGED <<store, clock, owed, gone>>
      /\ run' = [Overtake(t, r.b) EXCEPT ![t] = Idle]
  BY <1>1 DEF FillCache
<1>4. r.b \notin hit /\ ~run[t].stale => \A o \in Obs : Has(r.b, o) => o \in r.items
  BY <1>1 DEF CallOk
<1>5. Idle \in CallStates /\ Idle.op # "clear" /\ Ahead(Idle) /\ CallOk(Idle)' /\ run[t].op # "clear"
  BY <1>1 DEF Idle, CallStates, Ahead, CallOk
<1>6. /\ NoClear' => NoClear
      /\ \A o \in Obs : BlockOf[o] \in hit \/ Has(BlockOf[o], o) => BlockOf[o] \in hit' \/ Has(BlockOf[o], o)'
      /\ run' \in [Writers -> CallStates] /\ run'[t] = Idle
      /\ \A u \in Writers \ {t} : Ahead(run[u])' /\ CallOk(run[u])'
  BY <1>2, <1>3, <1>4, <1>5, PutSpares
<1>7. \A u \in Writers : Ahead(run[u])' /\ CallOk(run[u])'
  BY <1>5, <1>6 DEF Ahead, CallOk
<1>8. /\ DOMAIN cache' \subseteq Blocks /\ cache' \in [DOMAIN cache' -> SUBSET Obs]
      /\ tasks' \subseteq [b : Blocks, items : SUBSET Obs, ts : Nat] /\ (\A q \in tasks' : q.ts <= clock)
      /\ hit' \subseteq Blocks
      /\ \A c \in Blocks \ hit' :
           /\ Clean(c)'
           /\ c # r.b => \A o \in Obs : Has(c, o)' <=> Has(c, o)
           /\ c = r.b => \A o \in Obs : Has(r.b, o)' <=> o \in r.items
  BY <1>2, <1>3, <1>4, PutFacts
<1>9. \A o \in owed' : BlockOf[o] \in hit' \/ Has(BlockOf[o], o)'
  BY <1>3, <1>6 DEF StationInv, StationShape
<1>10. ASSUME NoClear', NEW o \in gone' PROVE BlockOf[o] \in hit' \/ ~Has(BlockOf[o], o)'
  <2>1. o \in gone /\ o \in Obs /\ BlockOf[o] \in Blocks /\ NoClear
    BY <1>3, <1>6, <1>10, BlockFacts DEF StationInv, StationShape
  <2>2. BlockOf[o] \in hit \/ ~Has(BlockOf[o], o)
    BY <2>1 DEF StationInv
  <2>3. hit \subseteq hit' /\ (r.b \notin hit /\ o \in r.items => BlockOf[o] # r.b)
    BY <1>1, <1>3, <2>1 DEF CallOk
  <2>4. QED  BY <1>8, <2>1, <2>2, <2>3
<1>11. StationShape'
  BY <1>3, <1>6, <1>7, <1>8 DEF StationInv, StationShape
<1>12. QED  BY <1>7, <1>8, <1>9, <1>10, <1>11 DEF StationInv

-----------------------------------------------------------------------------
\* An append that runs replaces a version by one that holds it.
LEMMA RunTaskKeeps ==
  ASSUME StationInv, NEW q \in tasks, RunTask(q)
  PROVE  StationInv'
<1>1. /\ tasks' = tasks \ {q} /\ UNCHANGED <<cache, clock, run, owed, gone, hit>>
      /\ store' = [store EXCEPT ![q.b] = IF q.ts >= @.ts THEN [items |-> q.items, ts |-> q.ts] ELSE @]
  BY DEF RunTask
<1>2. StationShape /\ q \in [b : Blocks, items : SUBSET Obs, ts : Nat] /\ q.ts <= clock
  BY DEF StationInv, StationShape
<1>3. /\ store' \in [Blocks -> [items : SUBSET Obs, ts : Nat]]
      /\ \A c \in Blocks : c # q.b => store'[c] = store[c]
      /\ q.ts >= store[q.b].ts => store'[q.b].items = q.items /\ store'[q.b].ts = q.ts
      /\ ~(q.ts >= store[q.b].ts) => store'[q.b] = store[q.b]
  BY <1>1, <1>2 DEF StationShape
<1>4. \A c \in Blocks : store'[c].ts <= clock
  BY <1>2, <1>3 DEF StationShape
<1>5. StationShape'
  <2>1. \A u \in Writers : Ahead(run[u])'
    BY <1>1, <1>2 DEF StationShape, Ahead
  <2>2. QED  BY <1>1, <1>2, <1>3, <1>4, <2>1 DEF StationShape
<1>6. ASSUME NEW c \in Blocks \ hit' PROVE Clean(c)' /\ \A o \in Obs : Has(c, o)' <=> Has(c, o)
  <2>1. Clean(c) /\ store[c].ts \in Nat /\ \A p \in tasks : p.ts \in Nat
    BY <1>1, <1>2 DEF StationInv, StationShape
  <2>2. CASE c # q.b
    <3>1. \A o \in Obs : Has(c, o)' <=> Has(c, o)
      BY <1>1, <1>3, <2>2 DEF Has
    <3>2. InOrder(c)'
      BY <1>1, <1>3, <2>1, <2>2 DEF Clean, InOrder
    <3>3. QED  BY <1>1, <2>1, <3>1, <3>2 DEF Clean
  <2>3. CASE c = q.b /\ q.ts >= store[c].ts
    <3>1. store[c].items \subseteq q.items
      BY <1>2, <2>1, <2>3 DEF Clean, InOrder
    <3>2. \A o \in Obs : Has(c, o)' <=> Has(c, o)
      BY <1>1, <1>3, <2>3, <3>1 DEF Has
    <3>3. InOrder(c)'
      BY <1>1, <1>3, <2>1, <2>3 DEF Clean, InOrder
    <3>4. QED  BY <1>1, <2>1, <3>2, <3>3 DEF Clean
  <2>4. CASE c = q.b /\ ~(q.ts >= store[c].ts)
    <3>1. q.items \subseteq store[c].items
      BY <1>2, <2>1, <2>4 DEF Clean, InOrder
    <3>2. \A o \in Obs : Has(c, o)' <=> Has(c, o)
      BY <1>1, <1>3, <2>4, <3>1 DEF Has
    <3>3. InOrder(c)'
      BY <1>1, <1>3, <2>1, <2>4 DEF Clean, InOrder
    <3>4. QED  BY <1>1, <2>1, <3>2, <3>3 DEF Clean
  <2>5. QED  BY <2>2, <2>3, <2>4
<1>7. NoClear' => NoClear
  BY <1>1 DEF NoClear
<1>8. \A u \in Writers : CallOk(run[u])'
  BY <1>1, <1>6, <1>7, CallKept
<1>9. \A o \in Obs : BlockOf[o] \in hit' \/ (Has(BlockOf[o], o)' <=> Has(BlockOf[o], o))
  BY <1>6, BlockFacts
<1>10. \A o \in owed' : BlockOf[o] \in hit' \/ Has(BlockOf[o], o)'
  BY <1>1, <1>2, <1>9 DEF StationInv, StationShape
<1>11. NoClear' => \A o \in gone' : BlockOf[o] \in hit' \/ ~Has(BlockOf[o], o)'
  BY <1>1, <1>2, <1>7, <1>9 DEF StationInv, StationShape
<1>12. QED  BY <1>5, <1>6, <1>8, <1>10, <1>11 DEF StationInv

LEMMA TickKeeps ==
  ASSUME StationInv, Tick
  PROVE  StationInv'
<1>1. clock' = clock + 1 /\ UNCHANGED <<cache, store, tasks, run, owed, gone, hit>>
  BY DEF Tick
<1>2. StationShape /\ \A b, o : Has(b, o)' <=> Has(b, o)
  BY <1>1 DEF StationInv, Has
<1>3. StationShape'
  <2>1. clock \in Nat /\ (\A q \in tasks : q.ts \in Nat) /\ (\A b \in Blocks : store[b].ts \in Nat)
    BY <1>2 DEF StationShape
  <2>2. (\A q \in tasks : q.ts <= clock') /\ (\A b \in Blocks : store[b].ts <= clock') /\ clock' \in Nat
    BY <1>1, <1>2, <2>1 DEF StationShape
  <2>3. \A u \in Writers : Ahead(run[u])'
    BY <1>1, <1>2 DEF StationShape, Ahead
  <2>4. QED  BY <1>1, <1>2, <2>2, <2>3 DEF StationShape
<1>4. \A b \in Blocks \ hit' : Clean(b)'
  BY <1>1, <1>2 DEF StationInv, Clean, InOrder
<1>5. NoClear' => NoClear
  BY <1>1 DEF NoClear
<1>6. \A u \in Writers : CallOk(run[u])'
  BY <1>1, <1>2, <1>5, CallKept
<1>7. QED  BY <1>1, <1>2, <1>3, <1>4, <1>5, <1>6 DEF StationInv

\* Once every block is excused, a step that keeps the shape keeps the rest.
LEMMA AllExcused ==
  ASSUME StationShape', hit' = Blocks
  PROVE  StationInv'
<1>1. \A o \in Obs : BlockOf[o] \in hit'
  BY BlockFacts
<1>2. ASSUME NEW u \in Writers PROVE CallOk(run[u])'
  <2>1. PICK r \in CallStates : r = run'[u]
    BY DEF StationShape
  <2>2. CallOk(r)'
    BY <1>1 DEF CallOk, CallStates
  <2>3. QED  BY <2>1, <2>2 DEF CallOk
<1>3. QED  BY <1>1, <1>2 DEF StationInv, StationShape

\* Nobody is in a call and the cache and the appends are empty.
LEMMA AllQuiet ==
  ASSUME StationShape', DOMAIN cache' = {}, tasks' = {}, \A u \in Writers : run'[u].op \in {"idle", "clear"},
         \A o \in owed' : o \in store'[BlockOf[o]].items,
         NoClear' => \A o \in gone' : BlockOf[o] \in hit' \/ o \notin store'[BlockOf[o]].items
  PROVE  StationInv'
<1>1. \A b, o : Has(b, o)' <=> o \in store'[b].items
  BY DEF Has
<1>2. \A b \in Blocks : Clean(b)'
  BY DEF Clean, InOrder
<1>3. \A u \in Writers : CallOk(run[u])'
  BY DEF CallOk
<1>4. QED  BY <1>1, <1>2, <1>3 DEF StationInv

LEMMA StopKeeps ==
  ASSUME StationInv, Stop
  PROVE  StationInv'
<1>1. /\ DOMAIN cache' = {} /\ tasks' = {} /\ run' = [t \in Writers |-> Idle] /\ UNCHANGED <<store, clock, hit>>
      /\ owed' = {o \in owed : o \in store[BlockOf[o]].items}
      /\ gone' = IF \E t \in Active : run[t].op = "clear" THEN {} ELSE gone
      /\ cache' \in [DOMAIN cache' -> SUBSET Obs]
  BY DEF Stop
<1>2. Idle \in CallStates /\ Ahead(Idle) /\ Idle.op = "idle"
  BY DEF Idle, CallStates, Ahead
<1>3. run' \in [Writers -> CallStates] /\ \A u \in Writers : run'[u] = Idle
  BY <1>1, <1>2
<1>4. \A u \in Writers : Ahead(run[u])'
  BY <1>2, <1>3 DEF Ahead
<1>5. StationShape'
  BY <1>1, <1>3, <1>4 DEF StationInv, StationShape
<1>6. ASSUME NEW o \in gone' PROVE BlockOf[o] \in hit' \/ o \notin store'[BlockOf[o]].items
  <2>1. o \in gone /\ NoClear
    BY <1>1, <1>6 DEF NoClear, Active, Idle
  <2>2. BlockOf[o] \in hit \/ ~Has(BlockOf[o], o)
    BY <2>1 DEF StationInv
  <2>3. QED  BY <1>1, <2>2 DEF Has
<1>7. QED  BY <1>1, <1>2, <1>3, <1>5, <1>6, AllQuiet

\* Emptying a tier: either nobody and nothing else is under way, or every block
\* is excused.
LEMMA ClearKeeps ==
  ASSUME StationInv, NEW t \in Writers
  PROVE  /\ clear(t) => StationInv'
         /\ ClearStorage(t) => StationInv'
<1>1. StationShape /\ Idle \in CallStates /\ Ahead(Idle) /\ Idle.op = "idle"
  BY DEF StationInv, Idle, CallStates, Ahead
<1>2. ASSUME NEW next \in CallStates, Ahead(next), run' = Disturb(t, next)
      PROVE  run' \in [Writers -> CallStates] /\ run'[t] = next /\ \A u \in Writers : Ahead(run[u])'
  <2>1. ASSUME NEW u \in Writers PROVE run'[u] \in CallStates /\ Ahead(run[u])'
    <3>1. PICK s \in CallStates : s = run[u] /\ Ahead(s)
      BY <1>1 DEF StationShape
    <3>2. CASE u = t
      BY <1>2, <3>2 DEF Disturb, Ahead
    <3>3. CASE u # t /\ s.op \in {"get", "put"}
      <4>1. PICK r : r = [s EXCEPT !.cleared = TRUE]
        OBVIOUS
      <4>2. run'[u] = r
        BY <1>2, <3>1, <3>3, <4>1 DEF Disturb
      <4>3. /\ r \in CallStates /\ r.op = s.op /\ r.recs = s.recs /\ r.todo = s.todo
            /\ s.op = "put" => r.b = s.b /\ r.items = s.items
        BY <3>3, <4>1 DEF CallStates
      <4>4. Ahead(r)
        BY <3>1, <3>3, <4>3 DEF Ahead
      <4>5. QED  BY <4>2, <4>3, <4>4 DEF Ahead
    <3>4. CASE u # t /\ s.op \notin {"get", "put"}
      <4>1. run'[u] = s
        BY <1>2, <3>1, <3>4 DEF Disturb
      <4>2. QED  BY <3>1, <4>1 DEF Ahead
    <3>5. QED  BY <3>2, <3>3, <3>4
  <2>2. run' = [u \in Writers |-> run'[u]] /\ run'[t] = next
    BY <1>2 DEF Disturb
  <2>3. QED  BY <2>1, <2>2
<1>3. ASSUME Active \ {t} = {}, NEW next, run' = Disturb(t, next)
      PROVE  \A u \in Writers \ {t} : run'[u] = Idle
  BY <1>1, <1>3 DEF Active, Disturb
<1>4. ASSUME clear(t) PROVE StationInv'
  <2> DEFINE next == [op |-> "clear", mode |-> "read"]
  <2>1. next \in CallStates /\ Ahead(next) /\ next.op = "clear"
    BY DEF CallStates, Ahead
  <2>2. /\ DOMAIN cache' = {} /\ cache' \in [DOMAIN cache' -> SUBSET Obs] /\ UNCHANGED <<store, tasks, clock>>
        /\ hit' = Disturbed(t) /\ owed' = {} /\ run' = Disturb(t, next)
        /\ gone' = gone \cup (UNION {cache[b] : b \in DOMAIN cache}) \cup (UNION {store[b].items : b \in Blocks})
    BY <1>4 DEF clear
  <2>3. gone' \subseteq Obs
    <3>1. gone \subseteq Obs /\ (\A b \in DOMAIN cache : cache[b] \subseteq Obs) /\ \A b \in Blocks : store[b].items \subseteq Obs
      BY <1>1 DEF StationShape
    <3>2. UNION {cache[b] : b \in DOMAIN cache} \subseteq Obs
      BY <3>1
    <3>3. UNION {store[b].items : b \in Blocks} \subseteq Obs
      BY <3>1
    <3>4. QED  BY <2>2, <3>1, <3>2, <3>3
  <2>4. run' \in [Writers -> CallStates] /\ run'[t] = next /\ \A u \in Writers : Ahead(run[u])'
    BY <1>2, <2>1, <2>2
  <2>5. StationShape'
    BY <1>1, <2>2, <2>3, <2>4 DEF StationShape, Disturbed
  <2>6. CASE hit' = Blocks
    BY <2>5, <2>6, AllExcused
  <2>7. CASE hit' # Blocks
    <3>1. tasks = {} /\ Active \ {t} = {}
      BY <2>2, <2>7 DEF Disturbed
    <3>2. \A u \in Writers : run'[u].op \in {"idle", "clear"}
      BY <1>1, <1>3, <2>1, <2>2, <2>4, <3>1
    <3>3. ~NoClear'
      BY <2>1, <2>4 DEF NoClear
    <3>4. QED  BY <2>2, <2>5, <3>1, <3>2, <3>3, AllQuiet
  <2>8. QED  BY <2>6, <2>7
<1>5. ASSUME ClearStorage(t) PROVE StationInv'
  <2>1. /\ UNCHANGED <<cache, tasks, clock, gone>> /\ hit' = Disturbed(t) /\ owed' = {} /\ run' = Disturb(t, Idle)
        /\ store' = [b \in Blocks |-> NoSnapshot]
    BY <1>5 DEF ClearStorage
  <2>2. store' \in [Blocks -> [items : SUBSET Obs, ts : Nat]] /\ \A b \in Blocks : store'[b].ts = 0 /\ store'[b].items = {}
    BY <2>1 DEF NoSnapshot
  <2>3. run' \in [Writers -> CallStates] /\ run'[t] = Idle /\ \A u \in Writers : Ahead(run[u])'
    BY <1>1, <1>2, <2>1
  <2>4. StationShape'
    BY <1>1, <2>1, <2>2, <2>3 DEF StationShape, Disturbed
  <2>5. CASE hit' = Blocks
    BY <2>4, <2>5, AllExcused
  <2>6. CASE hit' # Blocks
    <3>1. tasks = {} /\ Active \ {t} = {} /\ DOMAIN cache' = {}
      BY <2>1, <2>6 DEF Disturbed
    <3>2. \A u \in Writers : run'[u].op \in {"idle", "clear"}
      BY <1>1, <1>3, <2>1, <2>3, <3>1
    <3>3. \A o \in gone' : o \notin store'[BlockOf[o]].items
      BY <1>1, <2>1, <2>2, BlockFacts DEF StationShape
    <3>4. QED  BY <2>1, <2>4, <3>1, <3>2, <3>3, AllQuiet
  <2>7. QED  BY <2>5, <2>6
<1>6. QED  BY <1>4, <1>5

LEMMA StationStep == StationInv /\ [StationNext]_stationvars => StationInv'
<1> SUFFICES ASSUME StationInv, [StationNext]_stationvars PROVE StationInv'
  OBVIOUS
<1>1. CASE UNCHANGED stationvars
  BY <1>1 DEF stationvars, StationInv, StationShape, Ahead, Clean, InOrder, Has, CallOk, NoClear
<1>2. CASE StationNext
  BY <1>2, UpdateRangeKeeps, GetBlockKeeps, PutBlockKeeps, ColdReadKeeps, FillCacheKeeps, ClearKeeps,
     RunTaskKeeps, TickKeeps, StopKeeps DEF StationNext
<1>3. QED  BY <1>1, <1>2

\* For every number of callers and observations, every capacity and any order
\* in which spawned appends run (station.rs, lru.rs): an observation whose write
\* returned is found, the block in memory is its newest version, and what clear
\* removed stays away, but for the causes that the model names.
THEOREM StationAlwaysSound == StationSpec => []StationSound
  BY StationStart, StationStep, StationKeepsPromise, PTL DEF StationSpec

-----------------------------------------------------------------------------
(***************************************************************************)
(* What the lake's memory, its log and its files are made of.  A state has *)
(* a point id that is above those of its buffer.                           *)
(***************************************************************************)
Ids == Nat \ {0}
Cells == [id : Nat, v : Nat]
Buffers == {b \in [TsKeys -> Cells] : \E n \in Nat : \A k \in TsKeys : b[k].id <= n}
Files == Nat \X Nat
LakeStates ==
  {s \in [buf : Buffers, next_id : Ids, row : Nat, gen : Nat, manifest : Seq(Files)] :
      \A k \in TsKeys : s.buf[k].id < s.next_id}

Points == [type : {"TsPoint"}, k : TsKeys, id : Ids, v : Nat]
Records ==
  Points \cup [type : {"TsFlush"}, id : Nat] \cup [type : {"TsClearAll"}]
  \cup [type : {"SetRow"}, k : {Row}, v : Nat] \cup [type : {"ClearTable"}]
Logs == Seq({<<r>> : r \in Records \cup [type : {"seq"}, gen : Nat]})

Checkpoints == {"table_rt", "table_ts", "current", "truncate", "header", "sweep"}
Jobs ==
  [op : {"none"}]
  \cup [op : {"line", "newline"}, by : Threads, rec : Records, then : {"append", "idle", "checkpoint"}]
  \cup [op : {"files"}, by : Threads, then : {"idle", "checkpoint"}, written : Seq(Files),
        todo : SUBSET Nat, stamp : Nat]
  \cup [op : Checkpoints, by : Threads]
  \cup [op : {"remove", "clear"}, by : Threads, keys : SUBSET TsKeys, todo : SUBSET Nat, kept : Seq(Files)]

LakeTypes ==
  /\ up \in BOOLEAN /\ mem \in LakeStates /\ job \in Jobs
  /\ pc \in [Threads -> {"idle", "flush", "checkpoint"}]
  /\ writes \in Nat /\ flushes \in Nat /\ crashes \in Nat
  /\ latest \in [Keys -> Nat] /\ (\A k \in Keys : latest[k] <= writes)

DiskTypes(d) ==
  /\ d = [wal |-> d.wal, ended |-> d.ended, current |-> d.current, rt |-> d.rt, ts |-> d.ts,
          manifest |-> d.manifest, files |-> d.files]
  /\ d.wal \in Logs /\ d.ended \in BOOLEAN /\ d.current \in Nat
  /\ DOMAIN d.rt \subseteq Nat /\ d.rt \in [DOMAIN d.rt -> Nat]
  /\ DOMAIN d.ts \subseteq Nat /\ d.ts \in [DOMAIN d.ts -> Buffers]
  /\ d.manifest \in Seq(Files)

(***************************************************************************)
(* Memory and what a reopening would give are one, except while a mark is  *)
(* about to be logged for a buffer that is already empty.                  *)
(***************************************************************************)
Marking(j) == j.op = "line" /\ j.rec.type \in {"TsFlush", "TsClearAll"}

MemMatches(r, m, j) ==
  /\ r.row = m.row /\ r.manifest = m.manifest
  /\ IF Marking(j)
     THEN m.buf = NoPoints /\ (j.rec.type = "TsFlush" => \A k \in TsKeys : r.buf[k].id <= j.rec.id)
     ELSE r.buf = m.buf

LogInv(m, d, n, j) ==
  /\ j.op # "newline" => d.ended
  /\ j.op = "line" /\ j.rec.type \in {"TsPoint", "SetRow"} => j.rec.v = n + 1
  /\ j.op = "line" /\ j.rec.type = "TsClearAll" => m.manifest = <<>>
  /\ j.op = "files" => Buffered(m) # {}
  /\ j.op = "clear" => j.kept = <<>>

(***************************************************************************)
(* A checkpoint under way is newer than the current one until it is made   *)
(* current; from then on its files hold what the memory holds.             *)
(***************************************************************************)
CheckpointInv(m, d, j) ==
  /\ d.current # 0 => d.current \in DOMAIN d.rt \cap DOMAIN d.ts
  /\ \A i \in 1..Len(d.wal) : d.wal[i][1].type = "seq" => d.wal[i][1].gen <= d.current
  /\ d.current <= m.gen
  /\ j.op \in {"table_rt", "table_ts", "current"} => d.current < m.gen
  /\ j.op \in {"table_ts", "current", "truncate", "header", "sweep"} =>
       m.gen \in DOMAIN d.rt /\ d.rt[m.gen] = m.row
  /\ j.op \in {"current", "truncate", "header", "sweep"} =>
       m.gen \in DOMAIN d.ts /\ d.ts[m.gen] = m.buf
  /\ j.op \in {"truncate", "header", "sweep"} => d.current = m.gen /\ d.current # 0
  /\ j.op = "header" => d.wal = <<>>

LakeInv ==
  /\ LakeTypes /\ DiskTypes(disk)
  /\ ~up => job = NoJob
  /\ LogInv(mem, disk, writes, job)
  /\ IF up THEN MemMatches(open(disk), mem, job) /\ CheckpointInv(mem, disk, job)
     ELSE CheckpointInv(open(disk), disk, job)

(***************************************************************************)
(* The files.                                                              *)
(***************************************************************************)
InFlushOrder(m) ==
  \A i, j \in DOMAIN m : i < j => m[i][2] <= m[j][2] /\ (m[i][1] = m[j][1] => m[i][2] < m[j][2])

\* File f holds v under k.
Holds(files, f, k, v) == f \in DOMAIN files /\ k \in DOMAIN files[f] /\ files[f][k] = v

Listed(m) == {m[i] : i \in DOMAIN m}

FilesOk(files) ==
  /\ DOMAIN files \subseteq Files
  /\ \A f \in DOMAIN files : \A k \in DOMAIN files[f] : k \in TsKeys /\ Block[k] = f[1] /\ files[f][k] \in Nat

FilesInv(d, n) ==
  /\ FilesOk(d.files)
  /\ InFlushOrder(d.manifest)
  /\ \A i \in DOMAIN d.manifest : d.manifest[i][2] <= n

WritingInv(m, files, n, j) ==
  j.op = "files" =>
    /\ j.stamp = n
    /\ \A i \in DOMAIN m.manifest : m.manifest[i][2] < n
    /\ InFlushOrder(j.written)
    /\ \A f \in Listed(j.written) : f[2] = n /\ (\A b \in j.todo : f[1] < b)
         /\ f \in DOMAIN files /\ \A k \in DOMAIN files[f] : m.buf[k].id > 0
    /\ \A k \in TsKeys : m.buf[k].id > 0 =>
         Block[k] \in j.todo \/ (<<Block[k], n>> \in Listed(j.written) /\ Holds(files, <<Block[k], n>>, k, m.buf[k].v))

FlushedInv(r, files, n, j) ==
  j.op = "line" /\ j.rec.type = "TsFlush" =>
    \A k \in TsKeys : r.buf[k].id > 0 =>
      <<Block[k], n>> \in Listed(r.manifest) /\ Holds(files, <<Block[k], n>>, k, r.buf[k].v)

RemovalInv(m, files, j) ==
  j.op \in {"remove", "clear"} =>
    /\ j.todo \subseteq DOMAIN m /\ InFlushOrder(j.kept) /\ Listed(j.kept) \subseteq Listed(m)
    /\ \A i \in DOMAIN m : m[i] \in DOMAIN files => i \in j.todo \/ m[i] \in Listed(j.kept)
    /\ \A i \in j.todo, f \in Listed(j.kept) : f[1] # m[i][1]
    /\ \A i \in j.todo, k \in TsKeys : Block[k] = m[i][1] => k \in j.keys

FileInv ==
  /\ FilesInv(disk, flushes)
  /\ WritingInv(mem, disk.files, flushes, job)
  /\ FlushedInv(open(disk), disk.files, flushes, job)
  /\ RemovalInv(mem.manifest, disk.files, job)
  /\ found = ViewOf(open(disk), disk.files)

-----------------------------------------------------------------------------
\* A bounded set of naturals has a greatest element.
LEMMA GreatestNat ==
  ASSUME NEW S \in SUBSET Nat, S # {}, NEW n \in Nat, \A x \in S : x <= n
  PROVE  \E x \in S : \A y \in S : y <= x
<1> DEFINE Above == {m \in Nat : \A x \in S : x <= m}
<1>1. Above \in SUBSET Nat /\ Above # {}
  <2>1. n \in Above
    OBVIOUS
  <2>2. QED  BY <2>1
<1>2. PICK m \in Above : \A y \in Above : m <= y
  BY <1>1, LeastNat
<1>3. m \in Nat /\ \A x \in S : x <= m
  BY <1>2
<1>4. CASE m \in S
  BY <1>3, <1>4
<1>5. CASE m \notin S
  <2>1. PICK x \in S : TRUE
    OBVIOUS
  <2>2. m - 1 \in Nat /\ \A y \in S : y <= m - 1
    BY <1>3, <1>5, <2>1
  <2>3. m - 1 \in Above
    BY <2>2
  <2>4. QED  BY <1>2, <1>3, <2>3
<1>6. QED  BY <1>4, <1>5

LEMMA MinIs ==
  ASSUME NEW S \in SUBSET Nat, S # {}
  PROVE  MinOf(S) \in S /\ \A y \in S : MinOf(S) <= y
  BY LeastNat DEF MinOf

LEMMA MaxIs ==
  ASSUME NEW S \in SUBSET Nat, S # {}, NEW n \in Nat, \A x \in S : x <= n
  PROVE  MaxOf(S) \in S /\ \A y \in S : y <= MaxOf(S)
<1>1. \E x \in S : \A y \in S : y <= x
  BY GreatestNat
<1>2. QED  BY <1>1 DEF MaxOf

-----------------------------------------------------------------------------
(***************************************************************************)
(* One log record.                                                         *)
(***************************************************************************)
LogRecords == Records \cup [type : {"seq"}, gen : Nat]

LEMMA RecordTypes ==
  ASSUME NEW rec \in LogRecords
  PROVE  \/ rec.type = "TsPoint" /\ rec.k \in TsKeys /\ rec.id \in Ids /\ rec.v \in Nat
         \/ rec.type = "TsFlush" /\ rec.id \in Nat
         \/ rec.type = "TsClearAll"
         \/ rec.type = "SetRow" /\ rec.k = Row /\ rec.v \in Nat
         \/ rec.type = "ClearTable"
         \/ rec.type = "seq" /\ rec.gen \in Nat
  BY DEF LogRecords, Records, Points

\* What a record makes of the buffer and of the row.
BufAfter(buf, rec) ==
  CASE rec.type = "TsPoint" -> [buf EXCEPT ![rec.k] = [id |-> rec.id, v |-> rec.v]]
    [] rec.type = "TsFlush" -> [k \in TsKeys |-> IF buf[k].id > rec.id THEN buf[k] ELSE Empty]
    [] rec.type = "TsClearAll" -> NoPoints
    [] OTHER -> buf

RowAfter(row, rec) ==
  CASE rec.type = "SetRow" -> rec.v
    [] rec.type = "ClearTable" -> 0
    [] OTHER -> row

LEMMA StateParts ==
  ASSUME NEW s \in LakeStates
  PROVE  /\ s = [buf |-> s.buf, next_id |-> s.next_id, row |-> s.row, gen |-> s.gen, manifest |-> s.manifest]
         /\ s.buf \in Buffers /\ s.buf \in [TsKeys -> Cells] /\ s.next_id \in Ids /\ s.row \in Nat /\ s.gen \in Nat
         /\ s.manifest \in Seq(Files)
         /\ \A k \in TsKeys : s.buf[k].id \in Nat /\ s.buf[k].v \in Nat /\ s.buf[k].id < s.next_id
  BY DEF LakeStates, Buffers, Cells, Ids

LEMMA BufferBelow ==
  ASSUME NEW b \in [TsKeys -> Cells], NEW n \in Nat, \A k \in TsKeys : b[k].id < n
  PROVE  b \in Buffers
<1>1. \A k \in TsKeys : b[k].id \in Nat /\ b[k].id <= n
  BY DEF Cells
<1>2. QED  BY <1>1 DEF Buffers

LEMMA ApplyIs ==
  ASSUME NEW s \in LakeStates, NEW rec \in LogRecords
  PROVE  /\ apply_wal_op(s, rec) \in LakeStates
         /\ apply_wal_op(s, rec).buf = BufAfter(s.buf, rec) /\ apply_wal_op(s, rec).row = RowAfter(s.row, rec)
         /\ apply_wal_op(s, rec).gen = (IF rec.type = "seq" THEN Larger(s.gen, rec.gen) ELSE s.gen)
         /\ apply_wal_op(s, rec).manifest = s.manifest
<1> DEFINE r == apply_wal_op(s, rec)
<1>0. /\ s = [buf |-> s.buf, next_id |-> s.next_id, row |-> s.row, gen |-> s.gen, manifest |-> s.manifest]
      /\ s.buf \in Buffers /\ s.buf \in [TsKeys -> Cells] /\ s.next_id \in Ids /\ s.row \in Nat /\ s.gen \in Nat
      /\ s.manifest \in Seq(Files)
      /\ \A k \in TsKeys : s.buf[k].id \in Nat /\ s.buf[k].v \in Nat /\ s.buf[k].id < s.next_id
  BY StateParts
<1>1. CASE rec.type = "TsPoint"
  <2>1. rec.k \in TsKeys /\ rec.id \in Ids /\ rec.v \in Nat
    BY <1>1, RecordTypes
  <2> DEFINE b == [s.buf EXCEPT ![rec.k] = [id |-> rec.id, v |-> rec.v]]
             n == Larger(s.next_id, rec.id + 1)
  <2>2. n \in Ids /\ s.next_id <= n /\ rec.id < n
    BY <1>0, <2>1 DEF Larger, Ids
  <2>3. b \in [TsKeys -> Cells] /\ \A k \in TsKeys : b[k].id < n /\ b[k].id \in Nat
    <3>1. [id |-> rec.id, v |-> rec.v] \in Cells
      BY <2>1 DEF Cells, Ids
    <3>2. ASSUME NEW k \in TsKeys PROVE b[k].id < n /\ b[k].id \in Nat
      BY <1>0, <2>1, <2>2 DEF Ids
    <3>3. QED  BY <1>0, <3>1, <3>2
  <2>4. b \in Buffers
    BY <2>2, <2>3, BufferBelow DEF Ids
  <2>5. r = [s EXCEPT !.buf = b, !.next_id = n]
    BY <1>0, <1>1 DEF apply_wal_op
  <2>6. b = BufAfter(s.buf, rec) /\ s.row = RowAfter(s.row, rec)
    BY <1>1 DEF BufAfter, RowAfter
  <2> HIDE DEF b, n, r
  <2>7. r = [buf |-> b, next_id |-> n, row |-> s.row, gen |-> s.gen, manifest |-> s.manifest]
    BY <1>0, <2>5
  <2>8. r \in LakeStates
    BY <1>0, <2>2, <2>3, <2>4, <2>7 DEF LakeStates
  <2>9. rec.type # "seq" /\ r = apply_wal_op(s, rec)
    BY <1>1 DEF r
  <2>10. QED  BY <2>6, <2>7, <2>8, <2>9
<1>2. CASE rec.type = "TsFlush"
  <2>1. rec.id \in Nat
    BY <1>2, RecordTypes
  <2> DEFINE b == [k \in TsKeys |-> IF s.buf[k].id > rec.id THEN s.buf[k] ELSE Empty]
  <2>2. b \in [TsKeys -> Cells] /\ \A k \in TsKeys : b[k].id < s.next_id /\ b[k].id \in Nat
    <3>1. ASSUME NEW k \in TsKeys PROVE b[k] \in Cells /\ b[k].id < s.next_id /\ b[k].id \in Nat
      BY <1>0, <2>1 DEF Empty, Cells, Ids
    <3>2. QED  BY <3>1
  <2>3. b \in Buffers
    BY <1>0, <2>2, BufferBelow DEF Ids
  <2>4. r = [s EXCEPT !.buf = b]
    BY <1>0, <1>2 DEF apply_wal_op
  <2>5. b = BufAfter(s.buf, rec) /\ s.row = RowAfter(s.row, rec)
    BY <1>2 DEF BufAfter, RowAfter
  <2> HIDE DEF b, r
  <2>6. r = [buf |-> b, next_id |-> s.next_id, row |-> s.row, gen |-> s.gen, manifest |-> s.manifest]
    BY <1>0, <2>4
  <2>7. r \in LakeStates
    BY <1>0, <2>2, <2>3, <2>6 DEF LakeStates
  <2>8. rec.type # "seq" /\ r = apply_wal_op(s, rec)
    BY <1>2 DEF r
  <2>9. QED  BY <2>5, <2>6, <2>7, <2>8
<1>3. CASE rec.type = "TsClearAll"
  <2>1. NoPoints \in [TsKeys -> Cells] /\ \A k \in TsKeys : NoPoints[k].id < s.next_id /\ NoPoints[k].id \in Nat
    BY <1>0 DEF NoPoints, Empty, Cells, Ids
  <2>2. NoPoints \in Buffers
    BY <1>0, <2>1, BufferBelow DEF Ids
  <2>3. r = [s EXCEPT !.buf = NoPoints]
    BY <1>0, <1>3 DEF apply_wal_op
  <2>4. NoPoints = BufAfter(s.buf, rec) /\ s.row = RowAfter(s.row, rec)
    BY <1>3 DEF BufAfter, RowAfter
  <2> HIDE DEF r
  <2>5. r = [buf |-> NoPoints, next_id |-> s.next_id, row |-> s.row, gen |-> s.gen, manifest |-> s.manifest]
    BY <1>0, <2>3
  <2>6. r \in LakeStates
    BY <1>0, <2>1, <2>2, <2>5 DEF LakeStates
  <2>7. rec.type # "seq" /\ r = apply_wal_op(s, rec)
    BY <1>3 DEF r
  <2>8. QED  BY <2>4, <2>5, <2>6, <2>7
<1>4. CASE rec.type \in {"SetRow", "ClearTable"}
  <2> DEFINE w == RowAfter(s.row, rec)
  <2>1. w \in Nat
    BY <1>4, RecordTypes DEF RowAfter
  <2>2. r = [s EXCEPT !.row = w]
    BY <1>0, <1>4 DEF apply_wal_op, RowAfter
  <2>3. s.buf = BufAfter(s.buf, rec)
    BY <1>4 DEF BufAfter
  <2> HIDE DEF r, w
  <2>4. r = [buf |-> s.buf, next_id |-> s.next_id, row |-> w, gen |-> s.gen, manifest |-> s.manifest]
    BY <1>0, <2>2
  <2>5. r \in LakeStates
    BY <1>0, <2>1, <2>4 DEF LakeStates
  <2>6. rec.type # "seq" /\ r = apply_wal_op(s, rec) /\ w = RowAfter(s.row, rec)
    BY <1>4 DEF r, w
  <2>7. QED  BY <2>3, <2>4, <2>5, <2>6
<1>5. CASE rec.type = "seq"
  <2> DEFINE g == Larger(s.gen, rec.gen)
  <2>1. g \in Nat
    BY <1>0, <1>5, RecordTypes DEF Larger
  <2>2. r = [s EXCEPT !.gen = g]
    BY <1>0, <1>5 DEF apply_wal_op
  <2>3. s.buf = BufAfter(s.buf, rec) /\ s.row = RowAfter(s.row, rec)
    BY <1>5 DEF BufAfter, RowAfter
  <2> HIDE DEF r, g
  <2>4. r = [buf |-> s.buf, next_id |-> s.next_id, row |-> s.row, gen |-> g, manifest |-> s.manifest]
    BY <1>0, <2>2
  <2>5. r \in LakeStates
    BY <1>0, <2>1, <2>4 DEF LakeStates
  <2>6. r = apply_wal_op(s, rec) /\ g = Larger(s.gen, rec.gen)
    BY DEF r, g
  <2>7. QED  BY <1>5, <2>3, <2>4, <2>5, <2>6
<1>6. QED  BY <1>1, <1>2, <1>3, <1>4, <1>5, RecordTypes

-----------------------------------------------------------------------------
(***************************************************************************)
(* Recursion along a sequence: such a function exists, and what is so at 0 *)
(* and goes over from one place to the next is so everywhere.              *)
(***************************************************************************)
LEMMA AlongIs ==
  ASSUME NEW n \in Nat, NEW Good \in SUBSET Nat, 0 \in Good,
         \A i \in 1..n : i - 1 \in Good => i \in Good
  PROVE  \A i \in 0..n : i \in Good
<1> DEFINE Bad == (0..n) \ Good
<1>1. CASE Bad = {}
  BY <1>1
<1>2. CASE Bad # {}
  <2>1. Bad \in SUBSET Nat
    OBVIOUS
  <2>2. PICK m \in Bad : \A k \in Bad : m <= k
    BY <1>2, <2>1, LeastNat
  <2>3. m \in 1..n /\ m - 1 \notin Bad /\ m - 1 \in 0..n
    BY <2>2
  <2>4. QED  BY <2>2, <2>3
<1>3. QED  BY <1>1, <1>2

Stepwise(n, V, start, G) ==
  \E f \in [0..n -> V] : f[0] = start /\ \A i \in 1..n : f[i] = G[<<f[i - 1], i>>]

\* A function over 0..n whose value at i is a step from the one at i - 1.
LEMMA StepwiseExists ==
  ASSUME NEW n \in Nat, NEW V, NEW start \in V, NEW G, \A x \in V, i \in 1..n : G[<<x, i>>] \in V
  PROVE  Stepwise(n, V, start, G)
<1> DEFINE Built(m) == \E f \in [0..m -> V] : f[0] = start /\ \A i \in 1..m : f[i] = G[<<f[i - 1], i>>]
           Missing == {m \in 0..n : ~Built(m)}
<1>1. Built(0)
  <2> DEFINE f == [i \in 0..0 |-> start]
  <2>1. f \in [0..0 -> V] /\ f[0] = start /\ \A i \in 1..0 : f[i] = G[<<f[i - 1], i>>]
    OBVIOUS
  <2>2. QED  BY <2>1
<1>2. ASSUME NEW m \in 1..n, Built(m - 1) PROVE Built(m)
  <2>1. PICK f \in [0..(m - 1) -> V] : f[0] = start /\ \A i \in 1..(m - 1) : f[i] = G[<<f[i - 1], i>>]
    BY <1>2
  <2> DEFINE g == [i \in 0..m |-> IF i = m THEN G[<<f[m - 1], m>>] ELSE f[i]]
  <2>2. f[m - 1] \in V /\ G[<<f[m - 1], m>>] \in V
    BY <2>1
  <2>3. g \in [0..m -> V]
    BY <2>1, <2>2
  <2>4. g[0] = start
    BY <2>1
  <2>5. ASSUME NEW i \in 1..m PROVE g[i] = G[<<g[i - 1], i>>]
    <3>1. i - 1 \in 0..m /\ i - 1 # m /\ i \in 0..m
      OBVIOUS
    <3>2. g[i - 1] = f[i - 1]
      BY <3>1
    <3>3. QED  BY <2>1, <3>1, <3>2
  <2> HIDE DEF g
  <2>6. QED  BY <2>3, <2>4, <2>5
<1>3. CASE Missing = {}
  <2>1. n \in 0..n /\ n \notin Missing
    BY <1>3
  <2>2. Built(n)
    BY <2>1
  <2>3. QED  BY <2>2 DEF Stepwise
<1>4. CASE Missing # {}
  <2>1. Missing \in SUBSET Nat
    OBVIOUS
  <2>2. PICK m \in Missing : \A k \in Missing : m <= k
    BY <1>4, <2>1, LeastNat
  <2>3. m \in 0..n /\ ~Built(m) /\ m # 0
    BY <1>1, <2>2
  <2>4. m \in 1..n /\ m - 1 \in 0..n /\ m - 1 \notin Missing
    <3>1. m \in 1..n /\ m - 1 \in 0..n /\ ~(m <= m - 1)
      BY <2>3
    <3> HIDE DEF Missing
    <3>2. QED  BY <2>2, <3>1
  <2>5. Built(m - 1)
    BY <2>4
  <2>6. QED  BY <1>2, <2>3, <2>4, <2>5
<1>5. QED  BY <1>3, <1>4

-----------------------------------------------------------------------------
(***************************************************************************)
(* The replay of a log.                                                    *)
(***************************************************************************)
LEMMA LogLine ==
  ASSUME NEW wal \in Logs
  PROVE  Len(wal) \in Nat /\ \A i \in 1..Len(wal) : wal[i][1] \in LogRecords /\ wal[i] = <<wal[i][1]>>
  BY DEF Logs, LogRecords

LEMMA ReplayIs ==
  ASSUME NEW wal \in Logs, NEW start \in LakeStates
  PROVE  /\ replay(wal, start) \in [0..Len(wal) -> LakeStates]
         /\ replay(wal, start)[0] = start
         /\ \A i \in 1..Len(wal) : replay(wal, start)[i] = apply_wal_op(replay(wal, start)[i - 1], wal[i][1])
<1>1. Len(wal) \in Nat /\ \A i \in 1..Len(wal) : wal[i][1] \in LogRecords
  BY LogLine
<1> DEFINE G == [x \in LakeStates \X (1..Len(wal)) |-> apply_wal_op(x[1], wal[x[2]][1])]
<1>2. \A x \in LakeStates, i \in 1..Len(wal) : G[<<x, i>>] = apply_wal_op(x, wal[i][1]) /\ G[<<x, i>>] \in LakeStates
  BY <1>1, ApplyIs
<1> HIDE DEF G
<1>3. PICK f \in [0..Len(wal) -> LakeStates] : f[0] = start /\ \A i \in 1..Len(wal) : f[i] = G[<<f[i - 1], i>>]
  <2>1. \A x \in LakeStates, i \in 1..Len(wal) : G[<<x, i>>] \in LakeStates
    BY <1>2
  <2>2. Stepwise(Len(wal), LakeStates, start, G)
    BY ONLY <1>1, start \in LakeStates, <2>1, StepwiseExists
  <2>3. QED  BY <2>2 DEF Stepwise
<1>4. ASSUME NEW i \in 1..Len(wal) PROVE f[i] = apply_wal_op(f[i - 1], wal[i][1])
  <2>1. f[i - 1] \in LakeStates
    BY <1>1, <1>3
  <2>2. QED  BY <1>2, <1>3, <2>1
<1> DEFINE Step(g) == [i \in 0..Len(wal) |-> IF i = 0 THEN start ELSE apply_wal_op(g[i - 1], wal[i][1])]
<1>5. f = Step(f)
  <2>1. ASSUME NEW i \in 0..Len(wal) PROVE f[i] = Step(f)[i]
    BY <1>1, <1>3, <1>4
  <2>2. DOMAIN Step(f) = 0..Len(wal) /\ DOMAIN f = 0..Len(wal) /\ f = [i \in 0..Len(wal) |-> f[i]]
    BY <1>3
  <2>3. QED  BY <2>1, <2>2
<1>6. replay(wal, start) = CHOOSE g : g = Step(g)
  BY DEF replay
<1>7. replay(wal, start) = Step(replay(wal, start))
  BY <1>5, <1>6
<1> DEFINE h == replay(wal, start)
<1>8. h[0] = start /\ \A i \in 1..Len(wal) : h[i] = apply_wal_op(h[i - 1], wal[i][1])
  BY <1>1, <1>7
<1>9. h = [i \in 0..Len(wal) |-> h[i]]
  BY <1>7
<1> HIDE DEF Step, h
<1>10. h \in [0..Len(wal) -> LakeStates]
  <2> DEFINE Good == {i \in 0..Len(wal) : h[i] \in LakeStates}
  <2>1. 0 \in Good
    BY <1>1, <1>8
  <2>2. ASSUME NEW i \in 1..Len(wal), i - 1 \in Good PROVE i \in Good
    BY <1>1, <1>8, <2>2, ApplyIs
  <2>3. Good \in SUBSET Nat
    OBVIOUS
  <2> HIDE DEF Good
  <2>4. \A i \in 0..Len(wal) : i \in Good
    BY ONLY <1>1, <2>1, <2>2, <2>3, AlongIs
  <2>5. QED  BY <1>9, <2>4 DEF Good
<1>11. QED  BY <1>8, <1>10 DEF h

\* The state at the end of a replay.
Replayed(wal, start) == replay(wal, start)[Len(wal)]

LEMMA ReplayedType ==
  ASSUME NEW wal \in Logs, NEW start \in LakeStates
  PROVE  Replayed(wal, start) \in LakeStates
<1>1. Len(wal) \in Nat
  BY LogLine
<1>2. QED  BY <1>1, ReplayIs DEF Replayed

LEMMA ReplayEmpty ==
  ASSUME NEW start \in LakeStates
  PROVE  <<>> \in Logs /\ Replayed(<<>>, start) = start
<1>1. <<>> \in Logs /\ Len(<<>>) = 0
  BY DEF Logs
<1>2. QED  BY <1>1, ReplayIs DEF Replayed

LEMMA ReplayAppend ==
  ASSUME NEW wal \in Logs, NEW start \in LakeStates, NEW rec \in LogRecords
  PROVE  /\ Append(wal, <<rec>>) \in Logs
         /\ Replayed(Append(wal, <<rec>>), start) = apply_wal_op(Replayed(wal, start), rec)
<1> DEFINE long == Append(wal, <<rec>>)
           a == replay(wal, start)
           b == replay(long, start)
<1>1. PICK n \in Nat : n = Len(wal)
  BY LogLine
<1>2. long \in Logs /\ Len(long) = n + 1 /\ long[n + 1] = <<rec>> /\ \A i \in 1..n : long[i] = wal[i]
  BY <1>1 DEF Logs, LogRecords
<1>3. a[0] = start /\ \A i \in 1..n : a[i] = apply_wal_op(a[i - 1], wal[i][1])
  BY <1>1, ReplayIs
<1> HIDE DEF long
<1>4. b[0] = start /\ \A i \in 1..(n + 1) : b[i] = apply_wal_op(b[i - 1], long[i][1])
  BY <1>2, ReplayIs
<1> HIDE DEF a, b
<1>5. a[n] = b[n]
  <2> DEFINE Good == {i \in 0..n : a[i] = b[i]}
  <2>1. 0 \in Good
    BY <1>3, <1>4
  <2>2. ASSUME NEW i \in 1..n, i - 1 \in Good PROVE i \in Good
    <3>1. i \in 1..(n + 1) /\ i \in 0..n /\ long[i] = wal[i]
      BY <1>2
    <3>2. QED  BY <1>3, <1>4, <2>2, <3>1
  <2>3. Good \in SUBSET Nat /\ n \in 0..n
    OBVIOUS
  <2> HIDE DEF Good
  <2>4. \A i \in 0..n : i \in Good
    BY ONLY n \in Nat, <2>1, <2>2, <2>3, AlongIs
  <2>5. QED  BY <2>3, <2>4 DEF Good
<1>6. b[n + 1] = apply_wal_op(b[n], rec)
  <2>1. n + 1 \in 1..(n + 1) /\ (n + 1) - 1 = n /\ long[n + 1][1] = rec
    BY <1>2
  <2>2. QED  BY <1>4, <2>1
<1>7. QED  BY <1>1, <1>2, <1>5, <1>6 DEF Replayed, long, a, b

\* A replay never takes the generation back.
LEMMA ReplayGen ==
  ASSUME NEW wal \in Logs, NEW start \in LakeStates
  PROVE  start.gen <= Replayed(wal, start).gen
<1> DEFINE a == replay(wal, start)
<1>1. PICK n \in Nat : n = Len(wal)
  BY LogLine
<1>2. a \in [0..n -> LakeStates] /\ a[0] = start /\ \A i \in 1..n : a[i] = apply_wal_op(a[i - 1], wal[i][1])
  BY <1>1, ReplayIs
<1> HIDE DEF a
<1> DEFINE Good == {i \in 0..n : start.gen <= a[i].gen}
<1>3. 0 \in Good
  BY <1>2, StateParts
<1>4. ASSUME NEW i \in 1..n, i - 1 \in Good PROVE i \in Good
  <2>1. a[i - 1] \in LakeStates /\ wal[i][1] \in LogRecords /\ a[i] = apply_wal_op(a[i - 1], wal[i][1])
        /\ start.gen <= a[i - 1].gen
    BY <1>1, <1>2, <1>4, LogLine
  <2>2. a[i].gen = IF wal[i][1].type = "seq" THEN Larger(a[i - 1].gen, wal[i][1].gen) ELSE a[i - 1].gen
    BY <2>1, ApplyIs
  <2>3. a[i - 1].gen \in Nat /\ start.gen \in Nat /\ (wal[i][1].type = "seq" => wal[i][1].gen \in Nat)
    BY <2>1, StateParts, RecordTypes
  <2>4. start.gen <= a[i].gen
    BY <2>1, <2>2, <2>3 DEF Larger
  <2>5. QED  BY <2>4
<1>5. Good \in SUBSET Nat /\ n \in 0..n
  OBVIOUS
<1> HIDE DEF Good
<1>6. \A i \in 0..n : i \in Good
  BY ONLY n \in Nat, <1>3, <1>4, <1>5, AlongIs
<1>7. n \in Good
  BY <1>5, <1>6
<1>8. QED  BY <1>1, <1>7 DEF Good, Replayed, a

LEMMA AfterFacts ==
  ASSUME NEW b \in [TsKeys -> Cells], NEW rec \in LogRecords, NEW k \in TsKeys
  PROVE  /\ rec.type = "TsPoint" => BufAfter(b, rec)[k] = IF rec.k = k THEN [id |-> rec.id, v |-> rec.v] ELSE b[k]
         /\ rec.type = "TsFlush" => BufAfter(b, rec)[k] = IF b[k].id > rec.id THEN b[k] ELSE Empty
         /\ rec.type = "TsClearAll" => BufAfter(b, rec)[k] = Empty
         /\ rec.type \notin {"TsPoint", "TsFlush", "TsClearAll"} => BufAfter(b, rec)[k] = b[k]
  BY DEF BufAfter, NoPoints

\* Replaying a log over what it made changes nothing: under each key it either
\* sets a value of its own, or only drops what is there.
LEMMA ReplayAgain ==
  ASSUME NEW wal \in Logs, NEW s \in LakeStates, NEW t \in LakeStates,
         t.buf = Replayed(wal, s).buf, t.row = Replayed(wal, s).row
  PROVE  Replayed(wal, t).buf = t.buf /\ Replayed(wal, t).row = t.row
<1> DEFINE a == replay(wal, s)
           b == replay(wal, t)
<1>1. PICK n \in Nat : n = Len(wal)
  BY LogLine
<1>2. /\ a \in [0..n -> LakeStates] /\ a[0] = s /\ \A i \in 1..n : a[i] = apply_wal_op(a[i - 1], wal[i][1])
      /\ b \in [0..n -> LakeStates] /\ b[0] = t /\ \A i \in 1..n : b[i] = apply_wal_op(b[i - 1], wal[i][1])
  BY <1>1, ReplayIs
<1>3. t.buf = a[n].buf /\ t.row = a[n].row
  BY <1>1 DEF Replayed
<1>4. Replayed(wal, t) = b[n]
  BY <1>1 DEF Replayed
<1> HIDE DEF a, b
<1>5. ASSUME NEW i \in 1..n
      PROVE  /\ i \in 0..n /\ i - 1 \in 0..n /\ wal[i][1] \in LogRecords
             /\ a[i - 1].buf \in [TsKeys -> Cells] /\ b[i - 1].buf \in [TsKeys -> Cells]
             /\ a[i].buf = BufAfter(a[i - 1].buf, wal[i][1]) /\ b[i].buf = BufAfter(b[i - 1].buf, wal[i][1])
             /\ a[i].row = RowAfter(a[i - 1].row, wal[i][1]) /\ b[i].row = RowAfter(b[i - 1].row, wal[i][1])
  <2>1. a[i - 1] \in LakeStates /\ b[i - 1] \in LakeStates /\ wal[i][1] \in LogRecords
        /\ a[i] = apply_wal_op(a[i - 1], wal[i][1]) /\ b[i] = apply_wal_op(b[i - 1], wal[i][1])
    BY <1>1, <1>2, LogLine
  <2>2. a[i - 1].buf \in [TsKeys -> Cells] /\ b[i - 1].buf \in [TsKeys -> Cells]
    BY <2>1, StateParts
  <2>3. a[i].buf = BufAfter(a[i - 1].buf, wal[i][1]) /\ a[i].row = RowAfter(a[i - 1].row, wal[i][1])
    BY <2>1, ApplyIs
  <2>4. b[i].buf = BufAfter(b[i - 1].buf, wal[i][1]) /\ b[i].row = RowAfter(b[i - 1].row, wal[i][1])
    BY <2>1, ApplyIs
  <2>5. QED  BY <2>1, <2>2, <2>3, <2>4
<1>6. b[n].row = t.row
  <2> DEFINE Good == {i \in 0..n : a[i].row = b[i].row \/ (a[i].row = s.row /\ b[i].row = t.row)}
  <2>1. 0 \in Good
    BY <1>2
  <2>2. ASSUME NEW i \in 1..n, i - 1 \in Good PROVE i \in Good
    BY <1>5, <2>2 DEF RowAfter
  <2>3. Good \in SUBSET Nat /\ n \in 0..n
    OBVIOUS
  <2> HIDE DEF Good
  <2>4. \A i \in 0..n : i \in Good
    BY ONLY n \in Nat, <2>1, <2>2, <2>3, AlongIs
  <2>5. QED  BY <1>3, <2>3, <2>4 DEF Good
<1>7. ASSUME NEW k \in TsKeys PROVE b[n].buf[k] = t.buf[k]
  <2> DEFINE Good == {i \in 0..n : /\ s.buf[k] = t.buf[k] => a[i].buf[k] = b[i].buf[k]
                                   /\ \/ a[i].buf[k] = b[i].buf[k]
                                      \/ a[i].buf[k] \in {s.buf[k], Empty} /\ b[i].buf[k] \in {t.buf[k], Empty}}
  <2>1. 0 \in Good
    BY <1>2
  <2>2. ASSUME NEW i \in 1..n, i - 1 \in Good PROVE i \in Good
    <3> DEFINE rec == wal[i][1]
               x == a[i - 1].buf[k]
               y == b[i - 1].buf[k]
    <3>1. /\ s.buf[k] = t.buf[k] => x = y
          /\ x = y \/ (x \in {s.buf[k], Empty} /\ y \in {t.buf[k], Empty})
      BY <2>2
    <3>2. i \in 0..n /\ rec \in LogRecords
      BY <1>5
    <3>3. /\ a[i].buf[k] = BufAfter(a[i - 1].buf, rec)[k] /\ b[i].buf[k] = BufAfter(b[i - 1].buf, rec)[k]
          /\ a[i - 1].buf \in [TsKeys -> Cells] /\ b[i - 1].buf \in [TsKeys -> Cells]
      BY <1>5
    <3>4. CASE rec.type = "TsPoint"
      <4>1. a[i].buf[k] = (IF rec.k = k THEN [id |-> rec.id, v |-> rec.v] ELSE x)
            /\ b[i].buf[k] = (IF rec.k = k THEN [id |-> rec.id, v |-> rec.v] ELSE y)
        BY <3>2, <3>3, <3>4, AfterFacts
      <4> HIDE DEF x, y
      <4>2. QED  BY <3>1, <3>2, <4>1
    <3>5. CASE rec.type = "TsFlush"
      <4>1. a[i].buf[k] = (IF x.id > rec.id THEN x ELSE Empty) /\ b[i].buf[k] = (IF y.id > rec.id THEN y ELSE Empty)
        BY <3>2, <3>3, <3>5, AfterFacts
      <4> HIDE DEF x, y
      <4>2. QED  BY <3>1, <3>2, <4>1
    <3>6. CASE rec.type = "TsClearAll"
      <4>1. a[i].buf[k] = Empty /\ b[i].buf[k] = Empty
        BY <3>2, <3>3, <3>6, AfterFacts
      <4> HIDE DEF x, y
      <4>2. QED  BY <3>1, <3>2, <4>1
    <3>7. CASE rec.type \notin {"TsPoint", "TsFlush", "TsClearAll"}
      <4>1. a[i].buf[k] = x /\ b[i].buf[k] = y
        BY <3>2, <3>3, <3>7, AfterFacts
      <4> HIDE DEF x, y
      <4>2. QED  BY <3>1, <3>2, <4>1
    <3>8. QED  BY <3>4, <3>5, <3>6, <3>7
  <2>3. Good \in SUBSET Nat /\ n \in 0..n
    OBVIOUS
  <2> HIDE DEF Good
  <2>4. \A i \in 0..n : i \in Good
    BY ONLY n \in Nat, <2>1, <2>2, <2>3, AlongIs
  <2>5. /\ s.buf[k] = t.buf[k] => a[n].buf[k] = b[n].buf[k]
        /\ \/ a[n].buf[k] = b[n].buf[k]
           \/ a[n].buf[k] \in {s.buf[k], Empty} /\ b[n].buf[k] \in {t.buf[k], Empty}
    BY <2>3, <2>4 DEF Good
  <2>6. a[n].buf[k] = t.buf[k]
    BY <1>3
  <2>7. QED  BY <2>5, <2>6
<1>8. b[n].buf = t.buf
  <2>1. b[n] \in LakeStates
    BY <1>2
  <2>2. b[n].buf \in [TsKeys -> Cells] /\ t.buf \in [TsKeys -> Cells]
    BY <2>1, StateParts
  <2>3. QED  BY <1>7, <2>2
<1>9. QED  BY <1>4, <1>6, <1>8

-----------------------------------------------------------------------------
(***************************************************************************)
(* What a reopening gives, and what the steps on the disk do to it.        *)
(***************************************************************************)
WholeCheckpoint(d) == d.current # 0 => d.current \in DOMAIN d.rt \cap DOMAIN d.ts

LEMMA FreshIs == Fresh \in LakeStates /\ NoPoints \in Buffers
<1>1. NoPoints \in [TsKeys -> Cells] /\ \A k \in TsKeys : NoPoints[k].id < 1 /\ NoPoints[k].id \in Nat
  BY DEF NoPoints, Empty, Cells
<1>2. NoPoints \in Buffers
  BY <1>1, BufferBelow
<1>3. <<>> \in Seq(Files)
  OBVIOUS
<1>4. QED  BY <1>1, <1>2, <1>3 DEF Fresh, LakeStates, Ids

LEMMA TablesGive ==
  ASSUME NEW d, DiskTypes(d), WholeCheckpoint(d)
  PROVE  /\ load_tables(d) \in LakeStates
         /\ load_tables(d).gen = d.current
         /\ d.current # 0 => load_tables(d).row = d.rt[d.current] /\ load_tables(d).buf = d.ts[d.current]
<1>1. CASE d.current = 0
  <2>1. load_tables(d) = Fresh
    BY <1>1 DEF load_tables
  <2>2. Fresh.gen = 0
    BY DEF Fresh
  <2>3. QED  BY <1>1, <2>1, <2>2, FreshIs
<1>2. CASE d.current # 0
  <2> DEFINE g == d.current
             row == d.rt[g]
             buf == d.ts[g]
             ids == {0} \cup {buf[k].id : k \in TsKeys}
             n == 1 + MaxOf(ids)
             t == load_tables(d)
  <2>1. g \in Nat /\ g \in DOMAIN d.rt /\ g \in DOMAIN d.ts /\ row \in Nat /\ buf \in Buffers
    BY <1>2 DEF WholeCheckpoint, DiskTypes
  <2>2. t = apply_table_rows([Fresh EXCEPT !.gen = g], row, buf)
    BY <1>2, <2>1 DEF load_tables
  <2>3. [Fresh EXCEPT !.gen = g] = [buf |-> NoPoints, next_id |-> 1, row |-> 0, gen |-> g, manifest |-> <<>>]
    BY DEF Fresh
  <2> HIDE DEF row, buf, g, t
  <2>4. PICK m \in Nat : \A k \in TsKeys : buf[k].id <= m
    BY <2>1 DEF Buffers
  <2>5. buf \in [TsKeys -> Cells] /\ \A k \in TsKeys : buf[k].id \in Nat
    BY <2>1 DEF Buffers, Cells
  <2>6. ids \in SUBSET Nat /\ ids # {} /\ \A x \in ids : x <= m
    BY <2>4, <2>5
  <2>7. MaxOf(ids) \in Nat /\ \A x \in ids : x <= MaxOf(ids)
    <3> HIDE DEF ids
    <3>1. QED  BY <2>6, MaxIs
  <2>8. n \in Ids /\ \A k \in TsKeys : buf[k].id < n
    <3>1. \A k \in TsKeys : buf[k].id \in ids
      OBVIOUS
    <3> HIDE DEF ids
    <3>2. QED  BY <2>5, <2>7, <3>1 DEF Ids
  <2>9. t = [buf |-> buf, next_id |-> n, row |-> row, gen |-> g, manifest |-> <<>>]
    BY <2>2, <2>3 DEF apply_table_rows
  <2> HIDE DEF n
  <2>10. <<>> \in Seq(Files)
    OBVIOUS
  <2>11. t \in LakeStates
    BY <2>1, <2>8, <2>9, <2>10 DEF LakeStates
  <2>12. QED  BY <2>9, <2>11 DEF t, g, row, buf
<1>3. QED  BY <1>1, <1>2

LEMMA OpenGives ==
  ASSUME NEW d, DiskTypes(d), WholeCheckpoint(d)
  PROVE  LET r == Replayed(d.wal, load_tables(d))
         IN  /\ r \in LakeStates /\ open(d) \in LakeStates
             /\ open(d).buf = r.buf /\ open(d).row = r.row /\ open(d).gen = r.gen
             /\ open(d).manifest = d.manifest /\ d.current <= open(d).gen
<1> DEFINE r == Replayed(d.wal, load_tables(d))
<1>1. d.wal \in Logs /\ d.manifest \in Seq(Files) /\ load_tables(d) \in LakeStates /\ load_tables(d).gen = d.current
  BY TablesGive DEF DiskTypes
<1>2. r \in LakeStates /\ d.current <= r.gen
  BY <1>1, ReplayedType, ReplayGen
<1>3. open(d) = [r EXCEPT !.manifest = d.manifest]
  BY DEF open, Replayed
<1> HIDE DEF r
<1>4. /\ r = [buf |-> r.buf, next_id |-> r.next_id, row |-> r.row, gen |-> r.gen, manifest |-> r.manifest]
      /\ r.buf \in Buffers /\ r.next_id \in Ids /\ r.row \in Nat /\ r.gen \in Nat /\ \A k \in TsKeys : r.buf[k].id < r.next_id
  BY <1>2, StateParts
<1>5. open(d) = [buf |-> r.buf, next_id |-> r.next_id, row |-> r.row, gen |-> r.gen, manifest |-> d.manifest]
  BY <1>3, <1>4
<1>6. open(d) \in LakeStates
  BY <1>1, <1>4, <1>5 DEF LakeStates
<1>7. QED  BY <1>2, <1>5, <1>6 DEF r

LEMMA TablesSame ==
  ASSUME NEW d, NEW e, DiskTypes(d), DiskTypes(e), e.current = d.current,
         d.current # 0 => /\ d.current \in DOMAIN d.rt \cap DOMAIN d.ts /\ d.current \in DOMAIN e.rt \cap DOMAIN e.ts
                          /\ e.rt[d.current] = d.rt[d.current] /\ e.ts[d.current] = d.ts[d.current]
  PROVE  load_tables(e) = load_tables(d)
<1>1. CASE d.current = 0
  BY <1>1 DEF load_tables
<1>2. CASE d.current # 0
  BY <1>2 DEF load_tables
<1>3. QED  BY <1>1, <1>2

\* The same log on the same tables.
LEMMA OpenSame ==
  ASSUME NEW d, NEW e, DiskTypes(d), DiskTypes(e), WholeCheckpoint(d), WholeCheckpoint(e),
         e.wal = d.wal, load_tables(e) = load_tables(d)
  PROVE  open(e).buf = open(d).buf /\ open(e).row = open(d).row /\ open(e).manifest = e.manifest
  BY OpenGives

\* One more record.
LEMMA OpenLine ==
  ASSUME NEW d, NEW e, DiskTypes(d), DiskTypes(e), WholeCheckpoint(d), WholeCheckpoint(e), NEW rec \in LogRecords,
         e.wal = Append(d.wal, <<rec>>), load_tables(e) = load_tables(d)
  PROVE  /\ open(e).buf = BufAfter(open(d).buf, rec) /\ open(e).row = RowAfter(open(d).row, rec)
         /\ open(e).manifest = e.manifest
<1> DEFINE r == Replayed(d.wal, load_tables(d))
<1>1. d.wal \in Logs /\ load_tables(d) \in LakeStates
  BY TablesGive DEF DiskTypes
<1>2. Replayed(e.wal, load_tables(e)) = apply_wal_op(r, rec) /\ r \in LakeStates
  BY <1>1, ReplayAppend, ReplayedType
<1> HIDE DEF r
<1>3. apply_wal_op(r, rec).buf = BufAfter(r.buf, rec) /\ apply_wal_op(r, rec).row = RowAfter(r.row, rec)
  BY <1>2, ApplyIs
<1>4. open(d).buf = r.buf /\ open(d).row = r.row
  BY OpenGives DEF r
<1>5. /\ open(e).buf = Replayed(e.wal, load_tables(e)).buf /\ open(e).row = Replayed(e.wal, load_tables(e)).row
      /\ open(e).manifest = e.manifest
  BY OpenGives
<1>6. QED  BY <1>2, <1>3, <1>4, <1>5

\* The same log on tables that hold what it had made.
LEMMA OpenOver ==
  ASSUME NEW d, NEW e, DiskTypes(d), DiskTypes(e), WholeCheckpoint(d), WholeCheckpoint(e), e.current # 0,
         e.wal = d.wal, e.rt[e.current] = open(d).row, e.ts[e.current] = open(d).buf
  PROVE  open(e).buf = open(d).buf /\ open(e).row = open(d).row /\ open(e).manifest = e.manifest
<1> DEFINE s == load_tables(d)
           t == load_tables(e)
<1>1. d.wal \in Logs /\ s \in LakeStates /\ t \in LakeStates
  BY TablesGive DEF DiskTypes
<1>2. t.row = open(d).row /\ t.buf = open(d).buf
  BY TablesGive
<1>3. open(d).buf = Replayed(d.wal, s).buf /\ open(d).row = Replayed(d.wal, s).row
  BY OpenGives
<1>4. /\ open(e).buf = Replayed(d.wal, t).buf /\ open(e).row = Replayed(d.wal, t).row
      /\ open(e).manifest = e.manifest
  BY OpenGives
<1> HIDE DEF s, t
<1>5. Replayed(d.wal, t).buf = t.buf /\ Replayed(d.wal, t).row = t.row
  BY <1>1, <1>2, <1>3, ReplayAgain
<1>6. QED  BY <1>2, <1>4, <1>5

\* No log, or no more than its header: the tables as they are.
LEMMA OpenCut ==
  ASSUME NEW d, DiskTypes(d), WholeCheckpoint(d), d.current # 0,
         d.wal = <<>> \/ \E g \in Nat : d.wal = <<<<[type |-> "seq", gen |-> g]>>>>
  PROVE  open(d).row = d.rt[d.current] /\ open(d).buf = d.ts[d.current] /\ open(d).manifest = d.manifest
<1> DEFINE t == load_tables(d)
<1>1. t \in LakeStates /\ t.row = d.rt[d.current] /\ t.buf = d.ts[d.current]
  BY TablesGive
<1>2. /\ open(d).buf = Replayed(d.wal, t).buf /\ open(d).row = Replayed(d.wal, t).row
      /\ open(d).manifest = d.manifest
  BY OpenGives
<1> HIDE DEF t
<1>3. Replayed(<<>>, t) = t /\ <<>> \in Logs
  BY <1>1, ReplayEmpty
<1>4. CASE d.wal = <<>>
  BY <1>1, <1>2, <1>3, <1>4
<1>5. ASSUME NEW g \in Nat, d.wal = <<<<[type |-> "seq", gen |-> g]>>>> PROVE Replayed(d.wal, t).buf = t.buf /\ Replayed(d.wal, t).row = t.row
  <2> DEFINE rec == [type |-> "seq", gen |-> g]
  <2>1. rec \in LogRecords /\ rec.type = "seq"
    BY DEF LogRecords
  <2>2. d.wal = Append(<<>>, <<rec>>)
    BY <1>5
  <2> HIDE DEF rec
  <2>3. Replayed(d.wal, t) = apply_wal_op(t, rec)
    BY <1>1, <1>3, <2>1, <2>2, ReplayAppend
  <2>4. BufAfter(t.buf, rec) = t.buf /\ RowAfter(t.row, rec) = t.row
    BY <2>1 DEF BufAfter, RowAfter
  <2>5. QED  BY <1>1, <2>1, <2>3, <2>4, ApplyIs
<1>6. QED  BY <1>1, <1>2, <1>4, <1>5

-----------------------------------------------------------------------------
(***************************************************************************)
(* The files that a retention keeps.                                       *)
(***************************************************************************)
LEMMA ListedAppend ==
  ASSUME NEW m \in Seq(Files), NEW f \in Files
  PROVE  Listed(Append(m, f)) = Listed(m) \cup {f}
<1> DEFINE y == Append(m, f)
<1>1. PICK p \in Nat : p = Len(m)
  OBVIOUS
<1>2. DOMAIN y = 1..(p + 1) /\ DOMAIN m = 1..p /\ y[p + 1] = f /\ \A j \in 1..p : y[j] = m[j]
  BY <1>1
<1> HIDE DEF y
<1>3. ASSUME NEW g \in Listed(y) PROVE g \in Listed(m) \cup {f}
  <2>1. PICK j \in 1..(p + 1) : g = y[j]
    BY <1>2 DEF Listed
  <2>2. CASE j = p + 1
    BY <1>2, <2>1, <2>2
  <2>3. CASE j # p + 1
    <3>1. j \in 1..p /\ g = m[j]
      BY <1>2, <2>1, <2>3
    <3>2. QED  BY <1>2, <3>1 DEF Listed
  <2>4. QED  BY <2>2, <2>3
<1>4. ASSUME NEW g \in Listed(m) PROVE g \in Listed(y)
  <2>1. PICK j \in 1..p : g = m[j]
    BY <1>2 DEF Listed
  <2>2. j \in 1..(p + 1) /\ g = y[j]
    BY <1>2, <2>1
  <2>3. QED  BY <1>2, <2>2 DEF Listed
<1>5. f \in Listed(y)
  <2>1. p + 1 \in 1..(p + 1)
    OBVIOUS
  <2>2. QED  BY <1>2, <2>1 DEF Listed
<1>6. QED  BY <1>3, <1>4, <1>5 DEF y

LEMMA KeptSteps ==
  ASSUME NEW m \in Seq(Files), NEW keep \in Nat
  PROVE  \E h \in [0..Len(m) -> Seq(Files)] :
            /\ h[0] = <<>> /\ KeptFiles(m, keep) = h[Len(m)]
            /\ \A i \in 1..Len(m) : h[i] = IF m[i][1] >= keep THEN Append(h[i - 1], m[i]) ELSE h[i - 1]
<1> DEFINE Longer(x, i) == IF m[i][1] >= keep THEN Append(x, m[i]) ELSE x
           G == [x \in Seq(Files) \X (1..Len(m)) |-> Longer(x[1], x[2])]
           none == <<>>
<1>1. Len(m) \in Nat /\ none \in Seq(Files)
  OBVIOUS
<1>2. ASSUME NEW x \in Seq(Files), NEW i \in 1..Len(m)
      PROVE  G[<<x, i>>] = Longer(x, i) /\ G[<<x, i>>] \in Seq(Files)
  <2>1. m[i] \in Files
    OBVIOUS
  <2>2. Longer(x, i) \in Seq(Files)
    BY <2>1
  <2>3. QED  BY <2>2
<1> HIDE DEF G, Longer, none
<1>3. PICK f \in [0..Len(m) -> Seq(Files)] : f[0] = none /\ \A i \in 1..Len(m) : f[i] = G[<<f[i - 1], i>>]
  <2>1. \A x \in Seq(Files), i \in 1..Len(m) : G[<<x, i>>] \in Seq(Files)
    BY <1>2
  <2>2. Stepwise(Len(m), Seq(Files), none, G)
    BY ONLY <1>1, <2>1, StepwiseExists
  <2>3. QED  BY <2>2 DEF Stepwise
<1>4. ASSUME NEW i \in 1..Len(m) PROVE f[i] = Longer(f[i - 1], i)
  <2>1. f[i - 1] \in Seq(Files)
    BY <1>1, <1>3
  <2>2. QED  BY <1>2, <1>3, <2>1
<1> DEFINE Step(g) == [i \in 0..Len(m) |-> IF i = 0 THEN none ELSE Longer(g[i - 1], i)]
<1>5. f = Step(f)
  <2>1. ASSUME NEW i \in 0..Len(m) PROVE f[i] = Step(f)[i]
    BY <1>1, <1>3, <1>4
  <2>2. DOMAIN Step(f) = 0..Len(m) /\ DOMAIN f = 0..Len(m) /\ f = [i \in 0..Len(m) |-> f[i]]
    BY <1>3
  <2>3. QED  BY <2>1, <2>2
<1> DEFINE h == CHOOSE g : g = Step(g)
<1>6. h = Step(h)
  BY <1>5
<1>7. KeptFiles(m, keep) = h[Len(m)]
  BY DEF KeptFiles, Longer, none
<1> HIDE DEF h
<1>8. h[0] = none /\ \A i \in 1..Len(m) : h[i] = Longer(h[i - 1], i)
  BY <1>1, <1>6
<1>9. h = [i \in 0..Len(m) |-> h[i]]
  BY <1>6
<1> HIDE DEF Step
<1>10. h \in [0..Len(m) -> Seq(Files)]
  <2> DEFINE Good == {i \in 0..Len(m) : h[i] \in Seq(Files)}
  <2>1. 0 \in Good
    BY <1>1, <1>8
  <2>2. ASSUME NEW i \in 1..Len(m), i - 1 \in Good PROVE i \in Good
    <3>1. i \in 0..Len(m) /\ h[i - 1] \in Seq(Files) /\ h[i] = Longer(h[i - 1], i)
      BY <1>1, <1>8, <2>2
    <3>2. Longer(h[i - 1], i) \in Seq(Files)
      BY <1>2, <3>1
    <3>3. QED  BY <3>1, <3>2
  <2>3. Good \in SUBSET Nat
    OBVIOUS
  <2> HIDE DEF Good
  <2>4. \A i \in 0..Len(m) : i \in Good
    BY ONLY <1>1, <2>1, <2>2, <2>3, AlongIs
  <2>5. QED  BY <1>9, <2>4 DEF Good
<1>11. QED  BY <1>7, <1>8, <1>10 DEF Longer, none

\* They are those of the blocks from `keep` on, in flush order.
LEMMA KeptIs ==
  ASSUME NEW m \in Seq(Files), NEW keep \in Nat
  PROVE  /\ KeptFiles(m, keep) \in Seq(Files)
         /\ Listed(KeptFiles(m, keep)) = {f \in Listed(m) : f[1] >= keep}
         /\ InFlushOrder(m) => InFlushOrder(KeptFiles(m, keep))
<1>1. PICK h \in [0..Len(m) -> Seq(Files)] :
            /\ h[0] = <<>> /\ KeptFiles(m, keep) = h[Len(m)]
            /\ \A i \in 1..Len(m) : h[i] = IF m[i][1] >= keep THEN Append(h[i - 1], m[i]) ELSE h[i - 1]
  BY KeptSteps
<1>2. PICK n \in Nat : n = Len(m)
  OBVIOUS
<1> DEFINE Good == {i \in 0..n : /\ Listed(h[i]) = {m[j] : j \in {q \in 1..i : m[q][1] >= keep}}
                                 /\ InFlushOrder(m) => InFlushOrder(h[i])}
<1>3. 0 \in Good
  <2>1. Listed(h[0]) = {} /\ InFlushOrder(h[0])
    BY <1>1 DEF Listed, InFlushOrder
  <2>2. QED  BY <2>1
<1>4. ASSUME NEW i \in 1..n, i - 1 \in Good PROVE i \in Good
  <2> DEFINE x == h[i - 1]
  <2>1. /\ Listed(x) = {m[j] : j \in {q \in 1..(i - 1) : m[q][1] >= keep}}
        /\ InFlushOrder(m) => InFlushOrder(x)
    BY <1>4
  <2>2. x \in Seq(Files) /\ i \in 0..n /\ i \in 1..Len(m) /\ m[i] \in Files
    BY <1>1, <1>2
  <2>3. h[i] = IF m[i][1] >= keep THEN Append(x, m[i]) ELSE x
    BY <1>1, <2>2
  <2> HIDE DEF x
  <2>4. CASE ~(m[i][1] >= keep)
    <3>1. {q \in 1..i : m[q][1] >= keep} = {q \in 1..(i - 1) : m[q][1] >= keep}
      BY <2>4
    <3>2. QED  BY <2>1, <2>2, <2>3, <2>4, <3>1
  <2>5. CASE m[i][1] >= keep
    <3>1. PICK p \in Nat : p = Len(x)
      BY <2>2
    <3> DEFINE y == Append(x, m[i])
    <3>2. h[i] = y /\ DOMAIN y = 1..(p + 1) /\ DOMAIN x = 1..p /\ y[p + 1] = m[i] /\ \A j \in 1..p : y[j] = x[j]
      BY <2>2, <2>3, <2>5, <3>1
    <3> HIDE DEF y
    <3>3. Listed(y) = Listed(x) \cup {m[i]}
      BY <2>2, <2>3, <2>5, <3>2, ListedAppend
    <3>4. {m[j] : j \in {q \in 1..i : m[q][1] >= keep}} = Listed(x) \cup {m[i]}
      <4>1. {q \in 1..i : m[q][1] >= keep} = {q \in 1..(i - 1) : m[q][1] >= keep} \cup {i}
        BY <2>5
      <4>2. QED  BY <2>1, <4>1
    <3>5. ASSUME InFlushOrder(m) PROVE InFlushOrder(y)
      <4>1. ASSUME NEW j \in 1..p
            PROVE  y[j][2] <= m[i][2] /\ (y[j][1] = m[i][1] => y[j][2] < m[i][2])
        <5>1. y[j] \in Listed(x)
          BY <3>2 DEF Listed
        <5>2. PICK q \in 1..(i - 1) : y[j] = m[q]
          BY <2>1, <5>1
        <5>3. q \in DOMAIN m /\ i \in DOMAIN m /\ q < i
          BY <2>2
        <5>4. QED  BY <3>5, <5>2, <5>3 DEF InFlushOrder
      <4>2. ASSUME NEW j \in 1..(p + 1), NEW k \in 1..(p + 1), j < k
            PROVE  y[j][2] <= y[k][2] /\ (y[j][1] = y[k][1] => y[j][2] < y[k][2])
        <5>1. CASE k = p + 1
          <6>1. j \in 1..p
            BY <4>2, <5>1
          <6>2. QED  BY <3>2, <4>1, <5>1, <6>1
        <5>2. CASE k # p + 1
          <6>1. j \in 1..p /\ k \in 1..p /\ InFlushOrder(x)
            BY <2>1, <3>5, <4>2, <5>2
          <6>2. QED  BY <3>2, <4>2, <6>1 DEF InFlushOrder
        <5>3. QED  BY <5>1, <5>2
      <4>3. QED  BY <3>2, <4>2 DEF InFlushOrder
    <3>6. QED  BY <2>2, <3>2, <3>3, <3>4, <3>5
  <2>6. QED  BY <2>4, <2>5
<1>5. Good \in SUBSET Nat /\ n \in 0..n
  OBVIOUS
<1> HIDE DEF Good
<1>6. \A i \in 0..n : i \in Good
  BY ONLY n \in Nat, <1>3, <1>4, <1>5, AlongIs
<1>7. /\ Listed(h[n]) = {m[j] : j \in {q \in 1..n : m[q][1] >= keep}}
      /\ InFlushOrder(m) => InFlushOrder(h[n])
  BY <1>5, <1>6 DEF Good
<1>8. Listed(h[n]) = {f \in Listed(m) : f[1] >= keep}
  BY <1>2, <1>7 DEF Listed
<1>9. QED  BY <1>1, <1>2, <1>7, <1>8

-----------------------------------------------------------------------------
(***************************************************************************)
(* The steps: the calls.                                                   *)
(***************************************************************************)
LEMMA JobIs ==
  ASSUME NEW j \in Jobs
  PROVE  /\ j.op = "none" => j = NoJob
         /\ j.op \in {"line", "newline"} =>
              /\ j = [op |-> j.op, by |-> j.by, rec |-> j.rec, then |-> j.then]
              /\ j.by \in Threads /\ j.rec \in Records /\ j.then \in {"append", "idle", "checkpoint"}
         /\ j.op = "files" =>
              /\ j = [op |-> "files", by |-> j.by, then |-> j.then, written |-> j.written, todo |-> j.todo, stamp |-> j.stamp]
              /\ j.by \in Threads /\ j.then \in {"idle", "checkpoint"} /\ j.written \in Seq(Files)
              /\ j.todo \subseteq Nat /\ j.stamp \in Nat
         /\ j.op \in Checkpoints => j = [op |-> j.op, by |-> j.by] /\ j.by \in Threads
         /\ j.op \in {"remove", "clear"} =>
              /\ j = [op |-> j.op, by |-> j.by, keys |-> j.keys, todo |-> j.todo, kept |-> j.kept]
              /\ j.by \in Threads /\ j.keys \subseteq TsKeys /\ j.todo \subseteq Nat /\ j.kept \in Seq(Files)
         /\ j.op \in {"none", "line", "newline", "files", "remove", "clear"} \cup Checkpoints
<1>1. CASE j \in [op : {"none"}]
  BY <1>1 DEF NoJob, Checkpoints
<1>2. CASE j \in [op : {"line", "newline"}, by : Threads, rec : Records, then : {"append", "idle", "checkpoint"}]
  BY <1>2 DEF Checkpoints
<1>3. CASE j \in [op : {"files"}, by : Threads, then : {"idle", "checkpoint"}, written : Seq(Files), todo : SUBSET Nat, stamp : Nat]
  BY <1>3 DEF Checkpoints
<1>4. CASE j \in [op : Checkpoints, by : Threads]
  BY <1>4 DEF Checkpoints
<1>5. CASE j \in [op : {"remove", "clear"}, by : Threads, keys : SUBSET TsKeys, todo : SUBSET Nat, kept : Seq(Files)]
  BY <1>5 DEF Checkpoints
<1>6. QED  BY <1>1, <1>2, <1>3, <1>4, <1>5 DEF Jobs

\* Whoever has the mutex works for a process that runs.
LEMMA Running == ASSUME LakeInv, job.op # "none" PROVE up = TRUE
  BY DEF LakeInv, LakeTypes, NoJob

LEMMA WholeNow == ASSUME LakeInv PROVE DiskTypes(disk) /\ WholeCheckpoint(disk)
  BY DEF LakeInv, CheckpointInv, WholeCheckpoint

LEMMA NoJobIs == NoJob \in Jobs /\ NoJob.op = "none" /\ ~Marking(NoJob)
  BY DEF NoJob, Jobs, Marking

\* While the mutex is free, the disk is as good as the memory.
LEMMA FreeIs ==
  ASSUME LakeInv, Unlocked
  PROVE  /\ job.op = "none" /\ up = TRUE /\ mem \in LakeStates
         /\ open(disk).buf = mem.buf /\ open(disk).row = mem.row /\ open(disk).manifest = mem.manifest
         /\ disk.ended /\ disk.current <= mem.gen
         /\ disk.current # 0 => disk.current \in DOMAIN disk.rt \cap DOMAIN disk.ts
         /\ \A i \in 1..Len(disk.wal) : disk.wal[i][1].type = "seq" => disk.wal[i][1].gen <= disk.current
<1>1. job.op = "none" /\ up = TRUE /\ ~Marking(job)
  BY NoJobIs DEF Unlocked, LakeInv, LakeTypes
<1>2. MemMatches(open(disk), mem, job) /\ CheckpointInv(mem, disk, job) /\ LogInv(mem, disk, writes, job) /\ mem \in LakeStates
  BY <1>1 DEF LakeInv, LakeTypes
<1>3. QED  BY <1>1, <1>2 DEF MemMatches, CheckpointInv, LogInv

\* A call that only takes the mutex, for work that needs nothing yet.
LEMMA Taken ==
  ASSUME LakeInv, Unlocked, job' \in Jobs, UNCHANGED <<up, mem, disk, writes, latest, flushes, crashes>>,
         pc' \in [Threads -> {"idle", "flush", "checkpoint"}],
         ~Marking(job'), job'.op \notin {"newline"} \cup Checkpoints, LogInv(mem, disk, writes, job')
  PROVE  LakeInv'
<1>1. /\ job.op = "none" /\ up = TRUE /\ mem \in LakeStates
      /\ open(disk).buf = mem.buf /\ open(disk).row = mem.row /\ open(disk).manifest = mem.manifest
      /\ disk.ended /\ disk.current <= mem.gen
      /\ disk.current # 0 => disk.current \in DOMAIN disk.rt \cap DOMAIN disk.ts
      /\ \A i \in 1..Len(disk.wal) : disk.wal[i][1].type = "seq" => disk.wal[i][1].gen <= disk.current
  BY FreeIs
<1>2. MemMatches(open(disk), mem, job')
  BY <1>1 DEF MemMatches
<1>3. CheckpointInv(mem, disk, job')
  BY <1>1 DEF CheckpointInv, Checkpoints
<1>4. LakeTypes'
  BY DEF LakeInv, LakeTypes
<1>5. DiskTypes(disk)
  BY DEF LakeInv
<1>6. up' = TRUE /\ mem' = mem /\ disk' = disk /\ writes' = writes
  BY <1>1
<1>7. QED  BY <1>2, <1>3, <1>4, <1>5, <1>6 DEF LakeInv

LEMMA WriteKeeps ==
  ASSUME LakeInv, NEW t \in Threads, NEW rec \in Records, NEW then \in {"append", "idle"}, Write(t, rec, then),
         rec.type \in {"TsPoint", "SetRow"} => rec.v = writes + 1, rec.type \notin {"TsFlush", "TsClearAll"}
  PROVE  LakeInv'
<1>1. job' = [op |-> "line", by |-> t, rec |-> rec, then |-> then] /\ Unlocked
      /\ UNCHANGED <<up, mem, disk, pc, writes, latest, flushes, crashes>>
  BY DEF Write, Logging
<1>2. job' \in Jobs /\ job'.op = "line" /\ job'.rec = rec
  BY <1>1 DEF Jobs
<1>3. ~Marking(job') /\ LogInv(mem, disk, writes, job')
  BY <1>1, <1>2, FreeIs DEF Marking, LogInv
<1>4. pc' \in [Threads -> {"idle", "flush", "checkpoint"}]
  BY <1>1 DEF LakeInv, LakeTypes
<1>5. job'.op \notin {"newline"} \cup Checkpoints
  BY <1>2 DEF Checkpoints
<1>6. QED  BY <1>1, <1>2, <1>3, <1>4, <1>5, Taken

LEMMA SettersKeep ==
  ASSUME LakeInv, NEW t \in Threads, (\E k \in TsKeys : append(t, k)) \/ SetRow(t) \/ ClearTable(t)
  PROVE  LakeInv'
<1>1. writes \in Nat /\ mem.next_id \in Ids
  BY StateParts DEF LakeInv, LakeTypes
<1>2. ASSUME NEW k \in TsKeys, append(t, k) PROVE LakeInv'
  <2> DEFINE rec == [type |-> "TsPoint", k |-> k, id |-> mem.next_id, v |-> writes + 1]
  <2>1. rec \in Records /\ rec.type = "TsPoint" /\ rec.v = writes + 1
    BY <1>1 DEF Records, Points
  <2>2. Write(t, rec, "append")
    BY <1>2 DEF append
  <2> HIDE DEF rec
  <2>3. QED  BY <2>1, <2>2, WriteKeeps
<1>3. CASE SetRow(t)
  <2> DEFINE rec == [type |-> "SetRow", k |-> Row, v |-> writes + 1]
  <2>1. rec \in Records /\ rec.type = "SetRow" /\ rec.v = writes + 1
    BY <1>1 DEF Records
  <2>2. Write(t, rec, "idle")
    BY <1>3 DEF SetRow
  <2> HIDE DEF rec
  <2>3. QED  BY <2>1, <2>2, WriteKeeps
<1>4. CASE ClearTable(t)
  <2> DEFINE rec == [type |-> "ClearTable"]
  <2>1. rec \in Records /\ rec.type = "ClearTable"
    BY DEF Records
  <2>2. Write(t, rec, "idle")
    BY <1>4 DEF ClearTable
  <2> HIDE DEF rec
  <2>3. QED  BY <2>1, <2>2, WriteKeeps
<1>5. QED  BY <1>2, <1>3, <1>4

LEMMA FlushStarts ==
  ASSUME LakeInv, NEW t \in Threads, NEW then \in {"idle", "checkpoint"}, flush_timeseries(t, then)
  PROVE  LakeInv'
<1>0. /\ Unlocked /\ UNCHANGED <<up, mem, disk, writes, latest, crashes>>
      /\ mem \in LakeStates /\ pc \in [Threads -> {"idle", "flush", "checkpoint"}] /\ flushes \in Nat
  BY DEF flush_timeseries, LakeInv, LakeTypes
<1>1. CASE Buffered(mem) = {}
  <2>1. job' = job /\ flushes' = flushes /\ pc' = [pc EXCEPT ![t] = then]
    BY <1>1 DEF flush_timeseries
  <2>2. pc' \in [Threads -> {"idle", "flush", "checkpoint"}]
    BY <1>0, <2>1
  <2>3. job' \in Jobs /\ ~Marking(job') /\ job'.op = "none" /\ job'.op \notin {"newline"} \cup Checkpoints
    BY <1>0, <2>1, NoJobIs DEF Unlocked, Checkpoints
  <2>4. LogInv(mem, disk, writes, job')
    BY <2>3, <1>0, FreeIs DEF LogInv
  <2>5. QED  BY <1>0, <2>1, <2>2, <2>3, <2>4, Taken
<1>2. CASE Buffered(mem) # {}
  <2>1. /\ job' = [op |-> "files", by |-> t, then |-> then, written |-> <<>>,
                   todo |-> {Block[k] : k \in Buffered(mem)}, stamp |-> flushes + 1]
        /\ flushes' = flushes + 1 /\ pc' = pc
    BY <1>2 DEF flush_timeseries
  <2>2. {Block[k] : k \in Buffered(mem)} \subseteq Nat /\ <<>> \in Seq(Files)
    BY LakeAssumption DEF Buffered
  <2>3. job' \in Jobs /\ job'.op = "files"
    BY <1>0, <2>1, <2>2 DEF Jobs
  <2>4. ~Marking(job') /\ LogInv(mem, disk, writes, job') /\ job'.op \notin {"newline"} \cup Checkpoints
    BY <1>0, <1>2, <2>3, FreeIs DEF Marking, LogInv, Checkpoints
  <2>5. flushes' \in Nat
    BY <1>0, <2>1
  <2>6. /\ open(disk).buf = mem.buf /\ open(disk).row = mem.row /\ open(disk).manifest = mem.manifest
        /\ disk.ended /\ disk.current <= mem.gen /\ up = TRUE
        /\ disk.current # 0 => disk.current \in DOMAIN disk.rt \cap DOMAIN disk.ts
        /\ \A i \in 1..Len(disk.wal) : disk.wal[i][1].type = "seq" => disk.wal[i][1].gen <= disk.current
    BY <1>0, FreeIs
  <2>7. MemMatches(open(disk), mem, job') /\ CheckpointInv(mem, disk, job')
    BY <2>3, <2>4, <2>6 DEF MemMatches, CheckpointInv, Checkpoints
  <2>8. LakeTypes' /\ DiskTypes(disk)
    BY <1>0, <2>1, <2>3, <2>5 DEF LakeInv, LakeTypes
  <2>9. up' = TRUE /\ mem' = mem /\ disk' = disk /\ writes' = writes
    BY <1>0, <2>6
  <2>10. QED  BY <2>4, <2>7, <2>8, <2>9 DEF LakeInv
<1>3. QED  BY <1>1, <1>2

LEMMA StateMade ==
  ASSUME NEW m \in LakeStates, NEW g \in Nat, NEW x \in Seq(Files)
  PROVE  /\ [m EXCEPT !.gen = g] \in LakeStates
         /\ [m EXCEPT !.gen = g] = [buf |-> m.buf, next_id |-> m.next_id, row |-> m.row, gen |-> g, manifest |-> m.manifest]
         /\ [m EXCEPT !.manifest = x] \in LakeStates
         /\ [m EXCEPT !.manifest = x] = [buf |-> m.buf, next_id |-> m.next_id, row |-> m.row, gen |-> m.gen, manifest |-> x]
         /\ [m EXCEPT !.manifest = x, !.buf = NoPoints] \in LakeStates
         /\ [m EXCEPT !.manifest = x, !.buf = NoPoints] =
              [buf |-> NoPoints, next_id |-> m.next_id, row |-> m.row, gen |-> m.gen, manifest |-> x]
         /\ [m EXCEPT !.manifest = x, !.buf = NoPoints, !.next_id = 1] \in LakeStates
         /\ [m EXCEPT !.manifest = x, !.buf = NoPoints, !.next_id = 1] =
              [buf |-> NoPoints, next_id |-> 1, row |-> m.row, gen |-> m.gen, manifest |-> x]
<1>1. /\ m = [buf |-> m.buf, next_id |-> m.next_id, row |-> m.row, gen |-> m.gen, manifest |-> m.manifest]
      /\ m.buf \in Buffers /\ m.next_id \in Ids /\ m.row \in Nat /\ m.gen \in Nat /\ m.manifest \in Seq(Files)
      /\ \A k \in TsKeys : m.buf[k].id < m.next_id
  BY StateParts
<1>2. NoPoints \in Buffers /\ 1 \in Ids /\ (\A k \in TsKeys : NoPoints[k].id < 1 /\ NoPoints[k].id < m.next_id)
  BY <1>1, FreshIs DEF NoPoints, Empty, Ids
<1> HIDE DEF LakeStates, NoPoints
<1>3. [m EXCEPT !.gen = g] = [buf |-> m.buf, next_id |-> m.next_id, row |-> m.row, gen |-> g, manifest |-> m.manifest]
  BY <1>1
<1>4. [m EXCEPT !.manifest = x] = [buf |-> m.buf, next_id |-> m.next_id, row |-> m.row, gen |-> m.gen, manifest |-> x]
  BY <1>1
<1>5. [m EXCEPT !.manifest = x, !.buf = NoPoints] =
        [buf |-> NoPoints, next_id |-> m.next_id, row |-> m.row, gen |-> m.gen, manifest |-> x]
  <2> DEFINE a == [m EXCEPT !.manifest = x]
  <2>1. [m EXCEPT !.manifest = x, !.buf = NoPoints] = [a EXCEPT !.buf = NoPoints]
    OBVIOUS
  <2>2. a = [buf |-> m.buf, next_id |-> m.next_id, row |-> m.row, gen |-> m.gen, manifest |-> x]
    BY <1>4
  <2> HIDE DEF a
  <2>3. QED  BY <2>1, <2>2
<1>6. [m EXCEPT !.manifest = x, !.buf = NoPoints, !.next_id = 1] =
        [buf |-> NoPoints, next_id |-> 1, row |-> m.row, gen |-> m.gen, manifest |-> x]
  <2> DEFINE a == [m EXCEPT !.manifest = x, !.buf = NoPoints]
  <2>1. [m EXCEPT !.manifest = x, !.buf = NoPoints, !.next_id = 1] = [a EXCEPT !.next_id = 1]
    OBVIOUS
  <2>2. a = [buf |-> NoPoints, next_id |-> m.next_id, row |-> m.row, gen |-> m.gen, manifest |-> x]
    BY <1>5
  <2> HIDE DEF a
  <2>3. QED  BY <2>1, <2>2
<1>7. [m EXCEPT !.gen = g] \in LakeStates
  BY <1>1, <1>3 DEF LakeStates
<1>8. [m EXCEPT !.manifest = x] \in LakeStates
  BY <1>1, <1>4 DEF LakeStates
<1>9. [m EXCEPT !.manifest = x, !.buf = NoPoints] \in LakeStates
  BY <1>1, <1>2, <1>5 DEF LakeStates
<1>10. [m EXCEPT !.manifest = x, !.buf = NoPoints, !.next_id = 1] \in LakeStates
  BY <1>1, <1>2, <1>6 DEF LakeStates
<1>11. QED  BY <1>3, <1>4, <1>5, <1>6, <1>7, <1>8, <1>9, <1>10

LEMMA CheckpointStarts ==
  ASSUME LakeInv, NEW t \in Threads, checkpoint(t)
  PROVE  LakeInv'
<1>1. Unlocked /\ mem' = [mem EXCEPT !.gen = mem.gen + 1] /\ job' = [op |-> "table_rt", by |-> t]
      /\ UNCHANGED <<up, disk, pc, writes, latest, flushes, crashes, found>>
  BY DEF checkpoint
<1>2. /\ open(disk).buf = mem.buf /\ open(disk).row = mem.row /\ open(disk).manifest = mem.manifest
      /\ disk.ended /\ disk.current <= mem.gen /\ up = TRUE /\ mem \in LakeStates
      /\ disk.current # 0 => disk.current \in DOMAIN disk.rt \cap DOMAIN disk.ts
      /\ \A i \in 1..Len(disk.wal) : disk.wal[i][1].type = "seq" => disk.wal[i][1].gen <= disk.current
  BY <1>1, FreeIs
<1>3. mem.gen \in Nat /\ mem.gen + 1 \in Nat /\ disk.current \in Nat
  BY <1>2, StateParts DEF LakeInv, DiskTypes
<1>4. mem' \in LakeStates /\ mem'.buf = mem.buf /\ mem'.row = mem.row /\ mem'.manifest = mem.manifest /\ mem'.gen = mem.gen + 1
  <2> DEFINE g == mem.gen + 1
             none == <<>>
  <2>1. g \in Nat /\ none \in Seq(Files)
    BY <1>3
  <2>2. mem' = [mem EXCEPT !.gen = g]
    BY <1>1
  <2>3. g = mem.gen + 1
    OBVIOUS
  <2> HIDE DEF g, none
  <2>4. /\ [mem EXCEPT !.gen = g] \in LakeStates
        /\ [mem EXCEPT !.gen = g] = [buf |-> mem.buf, next_id |-> mem.next_id, row |-> mem.row, gen |-> g, manifest |-> mem.manifest]
    BY <1>2, <2>1, StateMade
  <2>5. QED  BY <2>2, <2>3, <2>4
<1>5. job' \in Jobs /\ job'.op = "table_rt" /\ ~Marking(job') /\ LogInv(mem', disk, writes, job')
  BY <1>1, <1>2 DEF Jobs, Checkpoints, Marking, LogInv
<1>6. MemMatches(open(disk), mem', job') /\ CheckpointInv(mem', disk, job')
  BY <1>2, <1>3, <1>4, <1>5 DEF MemMatches, CheckpointInv
<1>7. LakeTypes' /\ DiskTypes(disk)
  BY <1>1, <1>4, <1>5 DEF LakeInv, LakeTypes
<1>8. up' = TRUE /\ disk' = disk /\ writes' = writes
  BY <1>1, <1>2
<1>9. QED  BY <1>5, <1>6, <1>7, <1>8 DEF LakeInv

LEMMA RemovalStarts ==
  ASSUME LakeInv, NEW t \in Threads, (\E keep \in KeepBlocks : retain_block_partitions(t, keep)) \/ clear_all_series(t)
  PROVE  LakeInv'
<1>0. mem \in LakeStates /\ mem.manifest \in Seq(Files) /\ DOMAIN mem.manifest \subseteq Nat
      /\ pc \in [Threads -> {"idle", "flush", "checkpoint"}]
  <2>1. mem \in LakeStates /\ pc \in [Threads -> {"idle", "flush", "checkpoint"}]
    BY DEF LakeInv, LakeTypes
  <2>2. mem.manifest \in Seq(Files)
    BY <2>1, StateParts
  <2>3. QED  BY <2>1, <2>2
<1>1. ASSUME NEW op \in {"remove", "clear"}, NEW keys \in SUBSET TsKeys, NEW todo \in SUBSET Nat, NEW kept \in Seq(Files),
             op = "clear" => kept = <<>>, job' = Removal(t, op, keys, todo, kept), Unlocked,
             UNCHANGED <<up, mem, disk, pc, writes, latest, flushes, crashes, found>>
      PROVE  LakeInv'
  <2>1. job' = [op |-> op, by |-> t, keys |-> keys, todo |-> todo, kept |-> kept]
    BY <1>1 DEF Removal
  <2>2. job' \in Jobs /\ job'.op = op
    BY <2>1 DEF Jobs
  <2>3. ~Marking(job') /\ LogInv(mem, disk, writes, job') /\ job'.op \notin {"newline"} \cup Checkpoints
    BY <1>1, <2>1, <2>2, FreeIs DEF Marking, LogInv, Checkpoints
  <2>4. pc' \in [Threads -> {"idle", "flush", "checkpoint"}]
    BY <1>0, <1>1
  <2>5. QED  BY <1>1, <2>2, <2>3, <2>4, Taken
<1>2. ASSUME NEW keep \in KeepBlocks, retain_block_partitions(t, keep) PROVE LakeInv'
  <2>1. keep \in Nat
    BY LakeAssumption
  <2> DEFINE keys == {k \in TsKeys : Block[k] < keep}
             todo == {i \in DOMAIN mem.manifest : mem.manifest[i][1] < keep}
             kept == KeptFiles(mem.manifest, keep)
  <2>2. keys \in SUBSET TsKeys /\ todo \in SUBSET Nat
    BY <1>0
  <2>3. kept \in Seq(Files)
    BY <1>0, <2>1, KeptIs
  <2>4. job' = Removal(t, "remove", keys, todo, kept) /\ Unlocked /\ UNCHANGED <<up, mem, disk, pc, writes, latest, flushes, crashes, found>>
    BY <1>2 DEF retain_block_partitions
  <2> HIDE DEF keys, todo, kept
  <2>5. QED  BY <1>1, <2>2, <2>3, <2>4
<1>3. CASE clear_all_series(t)
  <2> DEFINE none == <<>>
  <2>1. none \in Seq(Files) /\ none = <<>>
    OBVIOUS
  <2>2. job' = Removal(t, "clear", TsKeys, DOMAIN mem.manifest, none) /\ Unlocked /\ UNCHANGED <<up, mem, disk, pc, writes, latest, flushes, crashes, found>>
    BY <1>3 DEF clear_all_series
  <2> HIDE DEF none
  <2>3. QED  BY <1>0, <1>1, <2>1, <2>2
<1>4. QED  BY <1>2, <1>3

LEMMA CallKeeps == ASSUME LakeInv, NEW t \in Threads, Call(t) PROVE LakeInv'
<1>1. CASE (\E k \in TsKeys : append(t, k)) \/ SetRow(t) \/ ClearTable(t)
  BY <1>1, SettersKeep
<1>2. CASE flush(t) \/ snapshot(t)
  BY <1>2, FlushStarts DEF flush, snapshot
<1>3. CASE checkpoint(t)
  BY <1>3, CheckpointStarts
<1>4. CASE (\E keep \in KeepBlocks : retain_block_partitions(t, keep)) \/ clear_all_series(t)
  BY <1>4, RemovalStarts
<1>5. QED  BY <1>1, <1>2, <1>3, <1>4 DEF Call

-----------------------------------------------------------------------------
(***************************************************************************)
(* The steps of the thread that holds the mutex.                           *)
(***************************************************************************)
\* The disk after one write.
LEMMA Put_wal ==
  ASSUME NEW d, DiskTypes(d), NEW x
  PROVE  [d EXCEPT !.wal = x] = [wal |-> x, ended |-> d.ended, current |-> d.current, rt |-> d.rt, ts |-> d.ts,
                                manifest |-> d.manifest, files |-> d.files]
  BY DEF DiskTypes

LEMMA Put_ended ==
  ASSUME NEW d, DiskTypes(d), NEW x
  PROVE  [d EXCEPT !.ended = x] = [wal |-> d.wal, ended |-> x, current |-> d.current, rt |-> d.rt, ts |-> d.ts,
                                manifest |-> d.manifest, files |-> d.files]
  BY DEF DiskTypes

LEMMA Put_current ==
  ASSUME NEW d, DiskTypes(d), NEW x
  PROVE  [d EXCEPT !.current = x] = [wal |-> d.wal, ended |-> d.ended, current |-> x, rt |-> d.rt, ts |-> d.ts,
                                manifest |-> d.manifest, files |-> d.files]
  BY DEF DiskTypes

LEMMA Put_rt ==
  ASSUME NEW d, DiskTypes(d), NEW x
  PROVE  [d EXCEPT !.rt = x] = [wal |-> d.wal, ended |-> d.ended, current |-> d.current, rt |-> x, ts |-> d.ts,
                                manifest |-> d.manifest, files |-> d.files]
  BY DEF DiskTypes

LEMMA Put_ts ==
  ASSUME NEW d, DiskTypes(d), NEW x
  PROVE  [d EXCEPT !.ts = x] = [wal |-> d.wal, ended |-> d.ended, current |-> d.current, rt |-> d.rt, ts |-> x,
                                manifest |-> d.manifest, files |-> d.files]
  BY DEF DiskTypes

LEMMA Put_manifest ==
  ASSUME NEW d, DiskTypes(d), NEW x
  PROVE  [d EXCEPT !.manifest = x] = [wal |-> d.wal, ended |-> d.ended, current |-> d.current, rt |-> d.rt, ts |-> d.ts,
                                manifest |-> x, files |-> d.files]
  BY DEF DiskTypes

LEMMA Put_files ==
  ASSUME NEW d, DiskTypes(d), NEW x
  PROVE  [d EXCEPT !.files = x] = [wal |-> d.wal, ended |-> d.ended, current |-> d.current, rt |-> d.rt, ts |-> d.ts,
                                manifest |-> d.manifest, files |-> x]
  BY DEF DiskTypes

LEMMA Put_wal_ended ==
  ASSUME NEW d, DiskTypes(d), NEW x, NEW y
  PROVE  [d EXCEPT !.wal = x, !.ended = y] = [wal |-> x, ended |-> y, current |-> d.current, rt |-> d.rt, ts |-> d.ts,
                                manifest |-> d.manifest, files |-> d.files]
<1> DEFINE a == [d EXCEPT !.wal = x]
<1>1. [d EXCEPT !.wal = x, !.ended = y] = [a EXCEPT !.ended = y]
  OBVIOUS
<1>2. a = [wal |-> x, ended |-> d.ended, current |-> d.current, rt |-> d.rt, ts |-> d.ts,
                                manifest |-> d.manifest, files |-> d.files]
  BY Put_wal
<1> HIDE DEF a
<1>3. QED  BY <1>1, <1>2

LEMMA Put_rt_ts ==
  ASSUME NEW d, DiskTypes(d), NEW x, NEW y
  PROVE  [d EXCEPT !.rt = x, !.ts = y] = [wal |-> d.wal, ended |-> d.ended, current |-> d.current, rt |-> x, ts |-> y,
                                manifest |-> d.manifest, files |-> d.files]
<1> DEFINE a == [d EXCEPT !.rt = x]
<1>1. [d EXCEPT !.rt = x, !.ts = y] = [a EXCEPT !.ts = y]
  OBVIOUS
<1>2. a = [wal |-> d.wal, ended |-> d.ended, current |-> d.current, rt |-> x, ts |-> d.ts,
                                manifest |-> d.manifest, files |-> d.files]
  BY Put_rt
<1> HIDE DEF a
<1>3. QED  BY <1>1, <1>2

\* What the invariant says while a thread works.
LEMMA WorkingIs ==
  ASSUME LakeInv, job.op # "none"
  PROVE  /\ up = TRUE /\ mem \in LakeStates /\ job \in Jobs /\ DiskTypes(disk) /\ WholeCheckpoint(disk)
         /\ pc \in [Threads -> {"idle", "flush", "checkpoint"}]
         /\ MemMatches(open(disk), mem, job) /\ CheckpointInv(mem, disk, job) /\ LogInv(mem, disk, writes, job)
         /\ writes \in Nat /\ flushes \in Nat /\ crashes \in Nat /\ latest \in [Keys -> Nat]
         /\ \A k \in Keys : latest[k] <= writes
  BY Running, WholeNow DEF LakeInv, LakeTypes

\* The checkpoint on disk as it is outside of a checkpoint under way.
CheckpointKept(m, d) ==
  /\ WholeCheckpoint(d) /\ d.current <= m.gen
  /\ \A i \in 1..Len(d.wal) : d.wal[i][1].type = "seq" => d.wal[i][1].gen <= d.current

LEMMA KeptCheckpoint ==
  ASSUME NEW m, NEW d, NEW j
  PROVE  /\ CheckpointInv(m, d, j) => CheckpointKept(m, d)
         /\ CheckpointKept(m, d) /\ j.op \notin Checkpoints => CheckpointInv(m, d, j)
  BY DEF CheckpointInv, CheckpointKept, Checkpoints, WholeCheckpoint

LEMMA WalLineKeeps ==
  ASSUME LakeInv, WalLine
  PROVE  /\ LakeInv' /\ job.op = "line" /\ up = TRUE /\ job.rec \in Records
         /\ open(disk').buf = BufAfter(open(disk).buf, job.rec) /\ open(disk').row = RowAfter(open(disk).row, job.rec)
         /\ disk'.manifest = disk.manifest /\ open(disk').manifest = disk.manifest /\ disk'.files = disk.files
<1>1. /\ job.op = "line" /\ mem' = apply_wal_op(mem, job.rec)
      /\ writes' = writes + (IF job.rec.type = "TsFlush" THEN 0 ELSE 1)
      /\ latest' = IF job.rec.type \in {"TsPoint", "SetRow"} THEN [latest EXCEPT ![job.rec.k] = job.rec.v] ELSE latest
      /\ job' = [op |-> "newline", by |-> job.by, rec |-> job.rec, then |-> job.then]
      /\ UNCHANGED <<up, pc, flushes, crashes>>
  BY DEF WalLine
<1>2. /\ up = TRUE /\ mem \in LakeStates /\ job \in Jobs /\ DiskTypes(disk) /\ WholeCheckpoint(disk)
      /\ pc \in [Threads -> {"idle", "flush", "checkpoint"}]
      /\ MemMatches(open(disk), mem, job) /\ CheckpointInv(mem, disk, job) /\ LogInv(mem, disk, writes, job)
      /\ writes \in Nat /\ flushes \in Nat /\ crashes \in Nat /\ latest \in [Keys -> Nat]
      /\ \A k \in Keys : latest[k] <= writes
  BY <1>1, WorkingIs
<1>3. job.by \in Threads /\ job.rec \in Records /\ job.then \in {"append", "idle", "checkpoint"} /\ job.rec \in LogRecords
  BY <1>1, <1>2, JobIs DEF LogRecords
<1> DEFINE rec == job.rec
           wal == Append(disk.wal, <<rec>>)
<1>4. disk.ended /\ disk.wal \in Logs
  BY <1>1, <1>2 DEF LogInv, DiskTypes
<1>5. disk' = [disk EXCEPT !.wal = wal, !.ended = FALSE]
  BY <1>4 DEF WalLine, Save
<1> HIDE DEF wal
<1>6. disk' = [wal |-> wal, ended |-> FALSE, current |-> disk.current, rt |-> disk.rt, ts |-> disk.ts,
               manifest |-> disk.manifest, files |-> disk.files]
  <2> DEFINE no == FALSE
  <2>1. disk' = [disk EXCEPT !.wal = wal, !.ended = no]
    BY <1>5
  <2>2. disk' = [wal |-> wal, ended |-> no, current |-> disk.current, rt |-> disk.rt, ts |-> disk.ts,
                 manifest |-> disk.manifest, files |-> disk.files]
    <3>1. DiskTypes(disk)
      BY <1>2
    <3> HIDE DEF no
    <3>2. [disk EXCEPT !.wal = wal, !.ended = no] =
            [wal |-> wal, ended |-> no, current |-> disk.current, rt |-> disk.rt, ts |-> disk.ts,
             manifest |-> disk.manifest, files |-> disk.files]
      BY ONLY <3>1, Put_wal_ended
    <3>3. QED  BY <2>1, <3>2
  <2>3. QED  BY <2>2
<1>7. wal \in Logs /\ wal = Append(disk.wal, <<rec>>)
  <2>1. load_tables(disk) \in LakeStates
    BY <1>2, TablesGive
  <2>2. QED  BY <1>3, <1>4, <2>1, ReplayAppend DEF wal
<1>8. DiskTypes(disk') /\ WholeCheckpoint(disk') /\ load_tables(disk') = load_tables(disk)
  <2>1. DiskTypes(disk')
    BY <1>2, <1>6, <1>7 DEF DiskTypes
  <2>2. WholeCheckpoint(disk')
    BY <1>2, <1>6 DEF WholeCheckpoint
  <2>3. load_tables(disk') = load_tables(disk)
    BY <1>6 DEF load_tables
  <2>4. QED  BY <2>1, <2>2, <2>3
<1>9. /\ open(disk').buf = BufAfter(open(disk).buf, rec) /\ open(disk').row = RowAfter(open(disk).row, rec)
      /\ open(disk').manifest = disk.manifest /\ open(disk).manifest = disk.manifest
  <2>1. disk'.wal = Append(disk.wal, <<rec>>) /\ disk'.manifest = disk.manifest
    BY <1>6, <1>7
  <2>2. QED  BY <1>2, <1>3, <1>8, <2>1, OpenLine, OpenGives
<1>10. /\ mem' \in LakeStates /\ mem'.buf = BufAfter(mem.buf, rec) /\ mem'.row = RowAfter(mem.row, rec)
       /\ mem'.manifest = mem.manifest /\ mem'.gen = mem.gen
  <2>1. rec.type # "seq"
    BY <1>3 DEF Records, Points
  <2>2. QED  BY <1>1, <1>2, <1>3, <2>1, ApplyIs
<1>11. open(disk').buf = mem'.buf
  <2>1. open(disk) \in LakeStates
    BY <1>2, OpenGives
  <2>2. open(disk).buf \in [TsKeys -> Cells] /\ mem.buf \in [TsKeys -> Cells] /\ \A k \in TsKeys : open(disk).buf[k].id \in Nat
    BY <1>2, <2>1, StateParts
  <2>3. CASE ~Marking(job)
    BY <1>2, <1>9, <1>10, <2>3 DEF MemMatches
  <2>4. CASE Marking(job) /\ rec.type = "TsClearAll"
    BY <1>9, <1>10, <2>4 DEF BufAfter
  <2>5. CASE Marking(job) /\ rec.type = "TsFlush"
    <3>1. mem.buf = NoPoints /\ (\A k \in TsKeys : open(disk).buf[k].id <= rec.id) /\ rec.id \in Nat
      BY <1>2, <1>3, <2>5, RecordTypes DEF MemMatches
    <3>2. mem'.buf = [k \in TsKeys |-> IF mem.buf[k].id > rec.id THEN mem.buf[k] ELSE Empty]
          /\ open(disk').buf = [k \in TsKeys |-> IF open(disk).buf[k].id > rec.id THEN open(disk).buf[k] ELSE Empty]
      BY <1>9, <1>10, <2>5 DEF BufAfter
    <3>3. \A k \in TsKeys : ~(open(disk).buf[k].id > rec.id) /\ ~(mem.buf[k].id > rec.id)
      BY <2>2, <3>1 DEF NoPoints, Empty
    <3>4. QED  BY <3>2, <3>3
  <2>6. QED  BY <2>3, <2>4, <2>5 DEF Marking
<1>12. job' \in Jobs /\ job'.op = "newline" /\ ~Marking(job')
  BY <1>1, <1>3 DEF Jobs, Marking
<1>13. MemMatches(open(disk'), mem', job')
  BY <1>2, <1>9, <1>10, <1>11, <1>12 DEF MemMatches
<1>14. LogInv(mem', disk', writes', job')
  BY <1>12 DEF LogInv
<1>15. CheckpointInv(mem', disk', job')
  <2>1. CheckpointKept(mem, disk)
    BY <1>2, KeptCheckpoint
  <2>2. PICK n \in Nat : n = Len(disk.wal)
    BY <1>4 DEF Logs
  <2>3. Len(wal) = n + 1 /\ wal[n + 1] = <<rec>> /\ \A i \in 1..n : wal[i] = disk.wal[i]
    BY <1>4, <1>7, <2>2 DEF Logs
  <2>4. rec.type # "seq"
    BY <1>3 DEF Records, Points
  <2>5. \A i \in 1..Len(disk'.wal) : disk'.wal[i][1].type = "seq" => disk'.wal[i][1].gen <= disk'.current
    <3>1. ASSUME NEW i \in 1..(n + 1), wal[i][1].type = "seq" PROVE wal[i][1].gen <= disk.current
      <4>1. i # n + 1
        BY <2>3, <2>4, <3>1
      <4>2. i \in 1..n /\ wal[i] = disk.wal[i]
        BY <2>3, <4>1
      <4>3. QED  BY <2>1, <2>2, <3>1, <4>2 DEF CheckpointKept
    <3>2. QED  BY <1>6, <2>3, <3>1
  <2>6. CheckpointKept(mem', disk')
    BY <1>6, <1>8, <1>10, <2>1, <2>5 DEF CheckpointKept
  <2>7. job'.op \notin Checkpoints
    BY <1>12 DEF Checkpoints
  <2>8. QED  BY <2>6, <2>7, KeptCheckpoint
<1>16. LakeTypes'
  <2>1. writes' \in Nat /\ writes <= writes'
    BY <1>1, <1>2
  <2>2. latest' \in [Keys -> Nat] /\ \A k \in Keys : latest'[k] <= writes'
    <3>1. CASE rec.type \notin {"TsPoint", "SetRow"}
      BY <1>1, <1>2, <2>1, <3>1
    <3>2. CASE rec.type \in {"TsPoint", "SetRow"}
      <4>1. rec.k \in Keys /\ rec.v \in Nat /\ rec.v = writes + 1 /\ writes' = writes + 1
        BY <1>1, <1>2, <1>3, <3>2, RecordTypes DEF LogInv, Keys
      <4>2. latest' = [latest EXCEPT ![rec.k] = rec.v]
        BY <1>1, <3>2
      <4> HIDE DEF rec
      <4>3. QED  BY <1>2, <4>1, <4>2
    <3>3. QED  BY <3>1, <3>2
  <2>3. up' = up /\ pc' = pc /\ flushes' = flushes /\ crashes' = crashes
    BY <1>1
  <2>4. QED  BY <1>2, <1>10, <1>12, <2>1, <2>2, <2>3 DEF LakeTypes
<1>17. LakeInv'
  <2>1. up' = TRUE
    BY <1>1, <1>2
  <2>2. QED  BY <1>8, <1>13, <1>14, <1>15, <1>16, <2>1 DEF LakeInv
<1>18. disk'.manifest = disk.manifest /\ disk'.files = disk.files
  BY <1>6
<1>19. QED  BY <1>1, <1>2, <1>3, <1>9, <1>17, <1>18

\* A write beside the log and the checkpoints.
LEMMA Beside ==
  ASSUME NEW d, NEW e, NEW m, NEW j, DiskTypes(d), WholeCheckpoint(d), e.ended \in BOOLEAN, e.manifest \in Seq(Files),
         e = [wal |-> d.wal, ended |-> e.ended, current |-> d.current, rt |-> d.rt, ts |-> d.ts,
              manifest |-> e.manifest, files |-> e.files]
  PROVE  /\ DiskTypes(e) /\ WholeCheckpoint(e)
         /\ open(e).buf = open(d).buf /\ open(e).row = open(d).row /\ open(e).manifest = e.manifest
         /\ open(d).manifest = d.manifest
         /\ CheckpointInv(m, d, j) => CheckpointInv(m, e, j)
<1>1. e.wal = d.wal /\ e.current = d.current /\ e.rt = d.rt /\ e.ts = d.ts
  OBVIOUS
<1>2. DiskTypes(e)
  BY <1>1 DEF DiskTypes
<1>3. WholeCheckpoint(e)
  BY <1>1 DEF WholeCheckpoint
<1>4. load_tables(e) = load_tables(d)
  BY <1>1 DEF load_tables
<1>5. open(e).buf = open(d).buf /\ open(e).row = open(d).row /\ open(e).manifest = e.manifest
  BY <1>1, <1>2, <1>3, <1>4, OpenSame
<1>6. open(d).manifest = d.manifest
  BY OpenGives
<1>7. CheckpointInv(m, d, j) => CheckpointInv(m, e, j)
  BY <1>1 DEF CheckpointInv
<1>8. QED  BY <1>2, <1>3, <1>5, <1>6, <1>7

LEMMA NewlineKeeps ==
  ASSUME LakeInv, Newline
  PROVE  /\ LakeInv' /\ up = TRUE /\ open(disk').buf = open(disk).buf /\ open(disk').row = open(disk).row
         /\ open(disk').manifest = disk.manifest /\ disk'.files = disk.files /\ disk'.manifest = disk.manifest
<1> DEFINE more == IF job.rec.type = "TsFlush" THEN 1 ELSE 0
           g == mem.gen + more
           next == IF job.then # "append" THEN job.then
                   ELSE IF FlushThreshold > 0 /\ Cardinality(Buffered(mem)) >= FlushThreshold THEN "flush" ELSE "idle"
<1>1. /\ job.op = "newline" /\ disk' = [disk EXCEPT !.ended = TRUE] /\ mem' = [mem EXCEPT !.gen = g]
      /\ pc' = [pc EXCEPT ![job.by] = next] /\ job' = NoJob /\ UNCHANGED <<up, writes, latest, flushes, crashes>>
  BY DEF Newline, Save
<1>2. /\ TRUE
      /\ up = TRUE /\ mem \in LakeStates /\ job \in Jobs /\ DiskTypes(disk) /\ WholeCheckpoint(disk)
      /\ pc \in [Threads -> {"idle", "flush", "checkpoint"}]
      /\ MemMatches(open(disk), mem, job) /\ CheckpointInv(mem, disk, job) /\ LogInv(mem, disk, writes, job)
  BY <1>1, WorkingIs
<1>3. disk' = [wal |-> disk.wal, ended |-> TRUE, current |-> disk.current, rt |-> disk.rt, ts |-> disk.ts,
               manifest |-> disk.manifest, files |-> disk.files]
  BY <1>1, <1>2 DEF DiskTypes
<1>4. disk'.ended = TRUE /\ disk'.manifest = disk.manifest /\ disk'.files = disk.files /\ disk.manifest \in Seq(Files)
  BY <1>2, <1>3 DEF DiskTypes
<1>5. /\ DiskTypes(disk') /\ WholeCheckpoint(disk')
      /\ open(disk').buf = open(disk).buf /\ open(disk').row = open(disk).row /\ open(disk').manifest = disk.manifest
      /\ open(disk).manifest = disk.manifest /\ CheckpointInv(mem, disk', job)
  <2>1. disk' = [wal |-> disk.wal, ended |-> disk'.ended, current |-> disk.current, rt |-> disk.rt, ts |-> disk.ts,
                 manifest |-> disk'.manifest, files |-> disk'.files]
    BY <1>3, <1>4
  <2>2. disk'.ended \in BOOLEAN /\ disk'.manifest \in Seq(Files) /\ DiskTypes(disk) /\ WholeCheckpoint(disk)
    BY <1>2, <1>4
  <2>3. CheckpointInv(mem, disk, job)
    BY <1>2
  <2>4. QED  BY ONLY <1>4, <2>1, <2>2, <2>3, Beside
<1>6. g \in Nat /\ mem.gen <= g
  BY <1>2, StateParts
<1> HIDE DEF g, next
<1>7. /\ mem' \in LakeStates /\ mem'.buf = mem.buf /\ mem'.row = mem.row /\ mem'.manifest = mem.manifest /\ mem'.gen = g
  <2>1. mem.manifest \in Seq(Files)
    BY <1>2, StateParts
  <2>2. /\ [mem EXCEPT !.gen = g] \in LakeStates
        /\ [mem EXCEPT !.gen = g] = [buf |-> mem.buf, next_id |-> mem.next_id, row |-> mem.row, gen |-> g, manifest |-> mem.manifest]
    BY <1>2, <1>6, <2>1, StateMade
  <2>3. QED  BY <1>1, <2>2
<1>8. job' \in Jobs /\ job'.op = "none" /\ ~Marking(job')
  BY <1>1, NoJobIs
<1>9. MemMatches(open(disk'), mem', job')
  <2>1. ~Marking(job)
    BY <1>1 DEF Marking
  <2>2. QED  BY <1>2, <1>4, <1>5, <1>7, <1>8, <2>1 DEF MemMatches
<1>10. CheckpointInv(mem', disk', job')
  <2>1. CheckpointKept(mem, disk')
    BY <1>5, KeptCheckpoint
  <2>2. mem.gen \in Nat /\ disk'.current \in Nat
    BY <1>2, <1>5, StateParts DEF DiskTypes
  <2>3. CheckpointKept(mem', disk')
    BY <1>6, <1>7, <2>1, <2>2 DEF CheckpointKept
  <2>4. job'.op \notin Checkpoints
    BY <1>8 DEF Checkpoints
  <2>5. QED  BY <2>3, <2>4, KeptCheckpoint
<1>11. LogInv(mem', disk', writes', job')
  BY <1>4, <1>8 DEF LogInv
<1>12. pc' \in [Threads -> {"idle", "flush", "checkpoint"}]
  <2>1. job.by \in Threads /\ next \in {"idle", "flush", "checkpoint"}
    BY <1>1, <1>2, JobIs DEF next
  <2>2. QED  BY <1>1, <1>2, <2>1
<1>13. LakeTypes'
  BY <1>1, <1>2, <1>7, <1>8, <1>12 DEF LakeInv, LakeTypes
<1>14. up' = TRUE
  BY <1>1, <1>2
<1>15. LakeInv'
  BY <1>5, <1>9, <1>10, <1>11, <1>13, <1>14 DEF LakeInv
<1>16. QED  BY <1>2, <1>4, <1>5, <1>15

\* A step that only moves a file.
LEMMA FilesMove ==
  ASSUME LakeInv, NEW x, disk' = [disk EXCEPT !.files = x], job' \in Jobs, job.op \in {"files", "remove", "clear"}, job'.op = job.op,
         job.op = "clear" => job'.kept = job.kept,
         UNCHANGED <<up, mem, pc, writes, latest, flushes, crashes>>
  PROVE  /\ LakeInv' /\ up = TRUE /\ open(disk').buf = open(disk).buf /\ open(disk').row = open(disk).row
         /\ open(disk').manifest = disk.manifest /\ disk'.files = x /\ disk'.manifest = disk.manifest
<1>1. job.op # "none"
  OBVIOUS
<1>2. /\ TRUE
      /\ up = TRUE /\ mem \in LakeStates /\ job \in Jobs /\ DiskTypes(disk) /\ WholeCheckpoint(disk)
      /\ pc \in [Threads -> {"idle", "flush", "checkpoint"}]
      /\ MemMatches(open(disk), mem, job) /\ CheckpointInv(mem, disk, job) /\ LogInv(mem, disk, writes, job)
  BY <1>1, WorkingIs
<1>3. disk' = [wal |-> disk.wal, ended |-> disk.ended, current |-> disk.current, rt |-> disk.rt, ts |-> disk.ts,
               manifest |-> disk.manifest, files |-> x]
  BY <1>2, Put_files
<1>4. disk'.ended = disk.ended /\ disk.ended \in BOOLEAN /\ disk.ended /\ disk'.manifest = disk.manifest /\ disk'.files = x /\ disk.manifest \in Seq(Files)
  BY <1>2, <1>3 DEF DiskTypes, LogInv
<1>5. /\ DiskTypes(disk') /\ WholeCheckpoint(disk')
      /\ open(disk').buf = open(disk).buf /\ open(disk').row = open(disk).row /\ open(disk').manifest = disk.manifest
      /\ open(disk).manifest = disk.manifest /\ CheckpointInv(mem, disk', job)
  <2>1. disk' = [wal |-> disk.wal, ended |-> disk'.ended, current |-> disk.current, rt |-> disk.rt, ts |-> disk.ts,
                 manifest |-> disk'.manifest, files |-> disk'.files]
    BY <1>3
  <2>2. disk'.ended \in BOOLEAN /\ disk'.manifest \in Seq(Files) /\ DiskTypes(disk) /\ WholeCheckpoint(disk)
    BY <1>2, <1>4
  <2>3. CheckpointInv(mem, disk, job)
    BY <1>2
  <2>4. QED  BY ONLY <1>4, <2>1, <2>2, <2>3, Beside
<1>6. ~Marking(job) /\ ~Marking(job')
  BY DEF Marking
<1>7. MemMatches(open(disk'), mem', job')
  BY <1>2, <1>5, <1>6 DEF MemMatches
<1>8. CheckpointInv(mem', disk', job')
  <2>1. job'.op \notin Checkpoints
    BY DEF Checkpoints
  <2>2. CheckpointKept(mem', disk')
    BY <1>5, KeptCheckpoint
  <2>3. QED  BY <2>1, <2>2, KeptCheckpoint
<1>9. LogInv(mem', disk', writes', job')
  BY <1>2, <1>4 DEF LogInv
<1>10. LakeTypes'
  BY <1>2 DEF LakeInv, LakeTypes
<1>11. up' = TRUE
  BY <1>2
<1>12. LakeInv'
  BY <1>5, <1>7, <1>8, <1>9, <1>10, <1>11 DEF LakeInv
<1>13. QED  BY <1>2, <1>4, <1>5, <1>12

LEMMA FlushFileKeeps ==
  ASSUME LakeInv, FlushFile
  PROVE  /\ LakeInv' /\ up = TRUE /\ open(disk').buf = open(disk).buf /\ open(disk').row = open(disk).row
         /\ open(disk').manifest = disk.manifest /\ disk'.manifest = disk.manifest
<1> DEFINE b == MinOf(job.todo)
           name == <<b, job.stamp>>
           rows == [k \in {q \in Buffered(mem) : Block[q] = b} |-> mem.buf[k].v]
           files == [f \in DOMAIN disk.files \cup {name} |-> IF f = name THEN rows ELSE disk.files[f]]
           todo == job.todo \ {b}
           written == Append(job.written, name)
<1>1. /\ job.op = "files" /\ job.todo # {} /\ disk' = [disk EXCEPT !.files = files]
      /\ job' = [job EXCEPT !.todo = todo, !.written = written]
      /\ UNCHANGED <<up, mem, pc, writes, latest, flushes, crashes>>
  BY DEF FlushFile, Save
<1>2. /\ job = [op |-> "files", by |-> job.by, then |-> job.then, written |-> job.written, todo |-> job.todo, stamp |-> job.stamp]
      /\ job.by \in Threads /\ job.then \in {"idle", "checkpoint"} /\ job.written \in Seq(Files)
      /\ job.todo \subseteq Nat /\ job.stamp \in Nat
  BY <1>1, WorkingIs, JobIs
<1>3. b \in job.todo /\ b \in Nat
  BY <1>1, <1>2, MinIs
<1>4. name \in Files /\ todo \in SUBSET Nat
  BY <1>2, <1>3 DEF Files
<1>5. written \in Seq(Files)
  <2> HIDE DEF name
  <2>1. QED  BY <1>2, <1>4
<1> HIDE DEF todo, written, files
<1>6. job' = [op |-> "files", by |-> job.by, then |-> job.then, written |-> written, todo |-> todo, stamp |-> job.stamp]
  <2> DEFINE a == [job EXCEPT !.todo = todo]
  <2>1. [job EXCEPT !.todo = todo, !.written = written] = [a EXCEPT !.written = written]
    OBVIOUS
  <2>2. a = [op |-> "files", by |-> job.by, then |-> job.then, written |-> job.written, todo |-> todo, stamp |-> job.stamp]
    BY <1>2
  <2> HIDE DEF a
  <2>3. QED  BY <1>1, <2>1, <2>2
<1>7. job' \in Jobs /\ job'.op = "files"
  BY <1>2, <1>4, <1>5, <1>6 DEF Jobs
<1>8. QED  BY <1>1, <1>7, FilesMove

LEMMA RemoveFileKeeps ==
  ASSUME LakeInv, RemoveFile
  PROVE  /\ LakeInv' /\ up = TRUE /\ open(disk').buf = open(disk).buf /\ open(disk').row = open(disk).row
         /\ open(disk').manifest = disk.manifest /\ disk'.manifest = disk.manifest
<1> DEFINE i == MinOf(job.todo)
           files == [f \in DOMAIN disk.files \ {mem.manifest[i]} |-> disk.files[f]]
           todo == job.todo \ {i}
<1>1. /\ job.op \in {"remove", "clear"} /\ disk' = [disk EXCEPT !.files = files]
      /\ job' = [job EXCEPT !.todo = todo]
      /\ UNCHANGED <<up, mem, pc, writes, latest, flushes, crashes>>
  BY DEF RemoveFile, Save
<1>2. /\ job = [op |-> job.op, by |-> job.by, keys |-> job.keys, todo |-> job.todo, kept |-> job.kept]
      /\ job.by \in Threads /\ job.keys \subseteq TsKeys /\ job.todo \subseteq Nat /\ job.kept \in Seq(Files)
  BY <1>1, WorkingIs, JobIs
<1>3. todo \in SUBSET Nat
  BY <1>2
<1> HIDE DEF todo, files
<1>4. job' = [op |-> job.op, by |-> job.by, keys |-> job.keys, todo |-> todo, kept |-> job.kept]
  BY <1>1, <1>2
<1>5. job' \in Jobs /\ job'.op = job.op /\ job'.kept = job.kept
  BY <1>1, <1>2, <1>3, <1>4 DEF Jobs
<1>6. QED  BY <1>1, <1>5, FilesMove

\* A new manifest, on disk and in memory; what it changes for a reopening is
\* the manifest.
LEMMA ManifestMoves ==
  ASSUME LakeInv, job.op \in {"files", "remove", "clear"}, NEW x \in Seq(Files), disk' = [disk EXCEPT !.manifest = x],
         mem' \in LakeStates, mem'.row = mem.row, mem'.gen = mem.gen, mem'.manifest = x, mem'.buf \in {mem.buf, NoPoints},
         job' \in Jobs, job'.op \in {"none", "line"}, job'.op = "line" => job'.rec.type \in {"TsFlush", "TsClearAll"},
         job'.op = "none" => mem'.buf = mem.buf, Marking(job') => mem'.buf = NoPoints,
         Marking(job') /\ job'.rec.type = "TsFlush" => \A k \in TsKeys : mem.buf[k].id <= job'.rec.id,
         Marking(job') /\ job'.rec.type = "TsClearAll" => x = <<>>,
         UNCHANGED <<up, pc, writes, latest, flushes, crashes>>
  PROVE  /\ LakeInv' /\ up = TRUE /\ open(disk').buf = open(disk).buf /\ open(disk').row = open(disk).row
         /\ open(disk').manifest = x /\ disk'.manifest = x /\ disk'.files = disk.files /\ open(disk).buf = mem.buf
<1>1. job.op # "none"
  OBVIOUS
<1>2. /\ TRUE
      /\ up = TRUE /\ mem \in LakeStates /\ job \in Jobs /\ DiskTypes(disk) /\ WholeCheckpoint(disk)
      /\ pc \in [Threads -> {"idle", "flush", "checkpoint"}]
      /\ MemMatches(open(disk), mem, job) /\ CheckpointInv(mem, disk, job) /\ LogInv(mem, disk, writes, job)
  BY <1>1, WorkingIs
<1>3. disk' = [wal |-> disk.wal, ended |-> disk.ended, current |-> disk.current, rt |-> disk.rt, ts |-> disk.ts,
               manifest |-> x, files |-> disk.files]
  BY <1>2, Put_manifest
<1>4. disk'.ended = disk.ended /\ disk.ended \in BOOLEAN /\ disk.ended /\ disk'.manifest = x /\ disk'.files = disk.files
  BY <1>2, <1>3 DEF DiskTypes, LogInv
<1>5. /\ DiskTypes(disk') /\ WholeCheckpoint(disk')
      /\ open(disk').buf = open(disk).buf /\ open(disk').row = open(disk).row /\ open(disk').manifest = x
      /\ CheckpointInv(mem, disk', job)
  <2>1. disk' = [wal |-> disk.wal, ended |-> disk'.ended, current |-> disk.current, rt |-> disk.rt, ts |-> disk.ts,
                 manifest |-> disk'.manifest, files |-> disk'.files]
    BY <1>3
  <2>2. disk'.ended \in BOOLEAN /\ disk'.manifest \in Seq(Files) /\ DiskTypes(disk) /\ WholeCheckpoint(disk)
    BY <1>2, <1>4
  <2>3. CheckpointInv(mem, disk, job)
    BY <1>2
  <2>4. QED  BY ONLY <1>4, <2>1, <2>2, <2>3, Beside
<1>6. ~Marking(job) /\ open(disk).buf = mem.buf /\ open(disk).row = mem.row
  BY <1>2 DEF Marking, MemMatches
<1>7. MemMatches(open(disk'), mem', job')
  <2>1. CASE job'.op = "none"
    <3>1. ~Marking(job')
      BY <2>1 DEF Marking
    <3>2. QED  BY <1>5, <1>6, <2>1, <3>1 DEF MemMatches
  <2>2. CASE job'.op = "line"
    <3>1. Marking(job')
      BY <2>2 DEF Marking
    <3>2. QED  BY <1>5, <1>6, <3>1 DEF MemMatches
  <2>3. QED  BY <2>1, <2>2
<1>8. CheckpointInv(mem', disk', job')
  <2>1. job'.op \notin Checkpoints
    BY DEF Checkpoints
  <2>2. CheckpointKept(mem, disk')
    BY <1>5, KeptCheckpoint
  <2>3. CheckpointKept(mem', disk')
    BY <2>2 DEF CheckpointKept
  <2>4. QED  BY <2>1, <2>3, KeptCheckpoint
<1>9. LogInv(mem', disk', writes', job')
  BY <1>4 DEF LogInv, Marking
<1>10. LakeTypes'
  BY <1>2 DEF LakeInv, LakeTypes
<1>11. up' = TRUE
  BY <1>2
<1>12. LakeInv'
  BY <1>5, <1>7, <1>8, <1>9, <1>10, <1>11 DEF LakeInv
<1>13. QED  BY <1>2, <1>4, <1>5, <1>6, <1>12

LEMMA FlushManifestKeeps ==
  ASSUME LakeInv, FlushManifest
  PROVE  /\ LakeInv' /\ up = TRUE /\ open(disk').buf = open(disk).buf /\ open(disk').row = open(disk).row
         /\ open(disk').manifest = disk'.manifest /\ disk'.files = disk.files /\ open(disk).buf = mem.buf
         /\ disk'.manifest = disk.manifest \o job.written /\ mem.manifest = disk.manifest
         /\ job'.op = "line" /\ job'.rec.type = "TsFlush"
<1> DEFINE ids == {mem.buf[k].id : k \in TsKeys}
           max == MaxOf(ids)
           rec == [type |-> "TsFlush", id |-> max]
           x == mem.manifest \o job.written
<1>1. /\ job.op = "files" /\ mem' = [mem EXCEPT !.manifest = x, !.buf = NoPoints] /\ disk' = [disk EXCEPT !.manifest = x]
      /\ job' = [op |-> "line", by |-> job.by, rec |-> rec, then |-> job.then]
      /\ UNCHANGED <<up, pc, writes, latest, flushes, crashes>>
  BY DEF FlushManifest, Save, Logging
<1>2. /\ job.by \in Threads /\ job.then \in {"idle", "checkpoint"} /\ job.written \in Seq(Files)
      /\ mem \in LakeStates /\ Buffered(mem) # {}
  BY <1>1, WorkingIs, JobIs DEF LogInv
<1>3. /\ mem.manifest \in Seq(Files) /\ mem.next_id \in Nat
      /\ \A k \in TsKeys : mem.buf[k].id \in Nat /\ mem.buf[k].id < mem.next_id
  BY <1>2, StateParts DEF Ids
<1>4. max \in Nat /\ \A k \in TsKeys : mem.buf[k].id <= max
  <2>1. ids \in SUBSET Nat /\ ids # {} /\ \A n \in ids : n <= mem.next_id
    BY <1>2, <1>3 DEF Buffered
  <2>2. \A k \in TsKeys : mem.buf[k].id \in ids
    OBVIOUS
  <2> HIDE DEF ids
  <2>3. max \in ids /\ \A n \in ids : n <= max
    BY <1>3, <2>1, MaxIs
  <2>4. QED  BY <2>1, <2>2, <2>3
<1>5. x \in Seq(Files)
  BY <1>2, <1>3
<1> HIDE DEF max, x
<1>6. rec \in Records /\ rec.type = "TsFlush" /\ rec.id = max
  BY <1>4 DEF Records
<1> HIDE DEF rec
<1>7. job' \in Jobs /\ job'.op = "line" /\ job'.rec = rec /\ Marking(job')
  BY <1>1, <1>2, <1>6 DEF Jobs, Marking
<1>8. mem' \in LakeStates /\ mem'.row = mem.row /\ mem'.gen = mem.gen /\ mem'.manifest = x /\ mem'.buf = NoPoints
  <2>1. mem.gen \in Nat
    BY <1>2, StateParts
  <2>2. /\ [mem EXCEPT !.manifest = x, !.buf = NoPoints] \in LakeStates
        /\ [mem EXCEPT !.manifest = x, !.buf = NoPoints] =
              [buf |-> NoPoints, next_id |-> mem.next_id, row |-> mem.row, gen |-> mem.gen, manifest |-> x]
    BY <1>2, <1>5, <2>1, StateMade
  <2>3. QED  BY <1>1, <2>2
<1>9. mem.manifest = disk.manifest
  <2>1. MemMatches(open(disk), mem, job) /\ DiskTypes(disk) /\ WholeCheckpoint(disk)
    BY <1>1, WorkingIs
  <2>2. QED  BY <2>1, OpenGives DEF MemMatches
<1>10. /\ LakeInv' /\ up = TRUE /\ open(disk').buf = open(disk).buf /\ open(disk').row = open(disk).row
       /\ open(disk').manifest = x /\ disk'.manifest = x /\ disk'.files = disk.files /\ open(disk).buf = mem.buf
  BY <1>1, <1>4, <1>5, <1>6, <1>7, <1>8, ManifestMoves
<1>11. QED  BY <1>6, <1>7, <1>9, <1>10 DEF x

LEMMA WriteKeptKeeps ==
  ASSUME LakeInv, WriteKept
  PROVE  /\ LakeInv' /\ up = TRUE /\ open(disk').buf = open(disk).buf /\ open(disk').row = open(disk).row
         /\ open(disk').manifest = disk'.manifest /\ disk'.files = disk.files
         /\ disk'.manifest = job.kept /\ mem.manifest = disk.manifest
         /\ job' = NoJob \/ (job.op = "clear" /\ job'.op = "line" /\ job'.rec = [type |-> "TsClearAll"])
<1> DEFINE x == job.kept
           rec == [type |-> "TsClearAll"]
<1>1. /\ job.op \in {"remove", "clear"} /\ disk' = [disk EXCEPT !.manifest = x]
      /\ job.op = "remove" => mem' = [mem EXCEPT !.manifest = x] /\ job' = NoJob
      /\ job.op = "clear" => /\ mem' = [mem EXCEPT !.manifest = x, !.buf = NoPoints, !.next_id = 1]
                             /\ job' = [op |-> "line", by |-> job.by, rec |-> rec, then |-> "idle"]
      /\ UNCHANGED <<up, pc, writes, latest, flushes, crashes>>
  BY DEF WriteKept, Save, Logging
<1>2. job.by \in Threads /\ x \in Seq(Files) /\ mem \in LakeStates
  BY <1>1, WorkingIs, JobIs
<1>3. rec \in Records /\ rec.type = "TsClearAll"
  BY DEF Records
<1> HIDE DEF rec
<1>4. mem.gen \in Nat
  BY <1>2, StateParts
<1>5. mem.manifest = disk.manifest
  <2>1. MemMatches(open(disk), mem, job) /\ DiskTypes(disk) /\ WholeCheckpoint(disk)
    BY <1>1, WorkingIs
  <2>2. QED  BY <2>1, OpenGives DEF MemMatches
<1>6. CASE job.op = "remove"
  <2>1. /\ [mem EXCEPT !.manifest = x] \in LakeStates
        /\ [mem EXCEPT !.manifest = x] = [buf |-> mem.buf, next_id |-> mem.next_id, row |-> mem.row, gen |-> mem.gen, manifest |-> x]
    BY <1>2, <1>4, StateMade
  <2>2. mem' \in LakeStates /\ mem'.row = mem.row /\ mem'.gen = mem.gen /\ mem'.manifest = x /\ mem'.buf = mem.buf
    BY <1>1, <1>6, <2>1
  <2>3. job' \in Jobs /\ job'.op = "none" /\ ~Marking(job') /\ job' = NoJob
    BY <1>1, <1>6, NoJobIs
  <2> HIDE DEF x
  <2>4. /\ LakeInv' /\ up = TRUE /\ open(disk').buf = open(disk).buf /\ open(disk').row = open(disk).row
        /\ open(disk').manifest = x /\ disk'.manifest = x /\ disk'.files = disk.files
    BY <1>1, <1>2, <2>2, <2>3, ManifestMoves
  <2>5. QED  BY <1>5, <2>3, <2>4 DEF x
<1>7. CASE job.op = "clear"
  <2>1. /\ [mem EXCEPT !.manifest = x, !.buf = NoPoints, !.next_id = 1] \in LakeStates
        /\ [mem EXCEPT !.manifest = x, !.buf = NoPoints, !.next_id = 1] =
              [buf |-> NoPoints, next_id |-> 1, row |-> mem.row, gen |-> mem.gen, manifest |-> x]
    BY <1>2, <1>4, StateMade
  <2>2. mem' \in LakeStates /\ mem'.row = mem.row /\ mem'.gen = mem.gen /\ mem'.manifest = x /\ mem'.buf = NoPoints
    BY <1>1, <1>7, <2>1
  <2>3. job' \in Jobs /\ job'.op = "line" /\ job'.rec = rec /\ Marking(job')
    BY <1>1, <1>2, <1>3, <1>7 DEF Jobs, Marking
  <2>4. x = <<>>
    BY <1>7, WorkingIs DEF LogInv
  <2> HIDE DEF x
  <2>5. /\ LakeInv' /\ up = TRUE /\ open(disk').buf = open(disk).buf /\ open(disk').row = open(disk).row
        /\ open(disk').manifest = x /\ disk'.manifest = x /\ disk'.files = disk.files
    BY <1>1, <1>2, <1>3, <1>7, <2>2, <2>3, <2>4, ManifestMoves
  <2>6. QED  BY <1>5, <1>7, <2>3, <2>5 DEF x, rec
<1>8. QED  BY <1>1, <1>6, <1>7

\* A step of a checkpoint: the memory stays as it is, and a reopening gives it.
LEMMA CheckpointMoves ==
  ASSUME LakeInv, job.op \in Checkpoints, job' \in Jobs, job'.op \in Checkpoints \cup {"none"}, DiskTypes(disk'), WholeCheckpoint(disk'),
         open(disk').buf = open(disk).buf, open(disk').row = open(disk).row, disk'.manifest = disk.manifest, disk'.files = disk.files,
         disk'.ended, CheckpointInv(mem, disk', job'), pc' \in [Threads -> {"idle", "flush", "checkpoint"}],
         UNCHANGED <<up, mem, writes, latest, flushes, crashes>>
  PROVE  /\ LakeInv' /\ up = TRUE /\ open(disk').buf = open(disk).buf /\ open(disk').row = open(disk).row
         /\ open(disk').manifest = disk.manifest /\ disk'.files = disk.files /\ disk'.manifest = disk.manifest
<1>1. job.op # "none" /\ job.op \notin {"line", "newline"} /\ job'.op \notin {"line", "newline", "files", "clear"}
  BY DEF Checkpoints
<1>2. /\ TRUE
      /\ up = TRUE /\ mem \in LakeStates /\ job \in Jobs /\ DiskTypes(disk) /\ WholeCheckpoint(disk)
      /\ pc \in [Threads -> {"idle", "flush", "checkpoint"}]
      /\ MemMatches(open(disk), mem, job) /\ CheckpointInv(mem, disk, job) /\ LogInv(mem, disk, writes, job)
  BY <1>1, WorkingIs
<1>3. ~Marking(job) /\ ~Marking(job')
  BY <1>1 DEF Marking
<1>4. open(disk').manifest = disk'.manifest /\ open(disk).manifest = disk.manifest
  BY <1>2, OpenGives
<1>5. MemMatches(open(disk'), mem', job')
  BY <1>2, <1>3, <1>4 DEF MemMatches
<1>6. LogInv(mem', disk', writes', job')
  BY <1>1 DEF LogInv
<1>7. LakeTypes'
  BY <1>2 DEF LakeInv, LakeTypes
<1>8. up' = TRUE /\ mem' = mem
  BY <1>2
<1>9. LakeInv'
  BY <1>5, <1>6, <1>7, <1>8 DEF LakeInv
<1>10. QED  BY <1>2, <1>4, <1>9

LEMMA StageIs ==
  ASSUME NEW j \in Jobs, j.op \in Checkpoints, NEW op \in Checkpoints
  PROVE  [j EXCEPT !.op = op] \in Jobs /\ [j EXCEPT !.op = op].op = op
<1>1. j = [op |-> j.op, by |-> j.by] /\ j.by \in Threads
  BY JobIs
<1>2. [j EXCEPT !.op = op] = [op |-> op, by |-> j.by]
  BY <1>1
<1>3. QED  BY <1>1, <1>2 DEF Jobs

LEMMA WriteTableKeeps ==
  ASSUME LakeInv, WriteTable
  PROVE  /\ LakeInv' /\ up = TRUE /\ open(disk').buf = open(disk).buf /\ open(disk').row = open(disk).row
         /\ open(disk').manifest = disk.manifest /\ disk'.files = disk.files /\ disk'.manifest = disk.manifest
<1> DEFINE rt == WithFile(disk.rt, mem.row)
           ts == WithFile(disk.ts, mem.buf)
<1>1. /\ job.op \in {"table_rt", "table_ts"} /\ job.op \in Checkpoints
      /\ job.op = "table_rt" => disk' = [disk EXCEPT !.rt = rt] /\ job' = [job EXCEPT !.op = "table_ts"]
      /\ job.op = "table_ts" => disk' = [disk EXCEPT !.ts = ts] /\ job' = [job EXCEPT !.op = "current"]
      /\ UNCHANGED <<up, mem, pc, writes, latest, flushes, crashes>>
  BY DEF WriteTable, Save, Checkpoints
<1>2. /\ TRUE
      /\ up = TRUE /\ mem \in LakeStates /\ job \in Jobs /\ DiskTypes(disk) /\ WholeCheckpoint(disk)
      /\ pc \in [Threads -> {"idle", "flush", "checkpoint"}]
      /\ MemMatches(open(disk), mem, job) /\ CheckpointInv(mem, disk, job) /\ LogInv(mem, disk, writes, job)
  BY <1>1, WorkingIs DEF Checkpoints
<1>3. mem.gen \in Nat /\ mem.row \in Nat /\ mem.buf \in Buffers
  BY <1>2, StateParts
<1>4. /\ DOMAIN disk.rt \subseteq Nat /\ disk.rt \in [DOMAIN disk.rt -> Nat] /\ DOMAIN disk.ts \subseteq Nat
      /\ disk.ts \in [DOMAIN disk.ts -> Buffers] /\ disk.ended /\ disk.current < mem.gen /\ disk.current \in Nat
  BY <1>1, <1>2 DEF DiskTypes, LogInv, CheckpointInv
<1>5. /\ DOMAIN rt = DOMAIN disk.rt \cup {mem.gen} /\ DOMAIN rt \subseteq Nat /\ rt \in [DOMAIN rt -> Nat]
      /\ rt[mem.gen] = mem.row /\ \A g \in DOMAIN disk.rt : g # mem.gen => rt[g] = disk.rt[g]
  BY <1>3, <1>4 DEF WithFile
<1>6. /\ DOMAIN ts = DOMAIN disk.ts \cup {mem.gen} /\ DOMAIN ts \subseteq Nat /\ ts \in [DOMAIN ts -> Buffers]
      /\ ts[mem.gen] = mem.buf /\ \A g \in DOMAIN disk.ts : g # mem.gen => ts[g] = disk.ts[g]
  BY <1>3, <1>4 DEF WithFile
<1> HIDE DEF rt, ts
<1>7. /\ disk' = [wal |-> disk.wal, ended |-> disk.ended, current |-> disk.current, rt |-> disk'.rt, ts |-> disk'.ts,
                 manifest |-> disk.manifest, files |-> disk.files]
      /\ job.op = "table_rt" => disk'.rt = rt /\ disk'.ts = disk.ts
      /\ job.op = "table_ts" => disk'.rt = disk.rt /\ disk'.ts = ts
  <2>1. CASE job.op = "table_rt"
    <3>1. disk' = [wal |-> disk.wal, ended |-> disk.ended, current |-> disk.current, rt |-> rt, ts |-> disk.ts,
                   manifest |-> disk.manifest, files |-> disk.files]
      BY <1>1, <1>2, <2>1, Put_rt
    <3>2. QED  BY <2>1, <3>1
  <2>2. CASE job.op = "table_ts"
    <3>1. disk' = [wal |-> disk.wal, ended |-> disk.ended, current |-> disk.current, rt |-> disk.rt, ts |-> ts,
                   manifest |-> disk.manifest, files |-> disk.files]
      BY <1>1, <1>2, <2>2, Put_ts
    <3>2. QED  BY <2>2, <3>1
  <2>3. QED  BY <1>1, <2>1, <2>2
<1>8. /\ disk'.wal = disk.wal /\ disk'.ended = disk.ended /\ disk'.current = disk.current
      /\ disk'.manifest = disk.manifest /\ disk'.files = disk.files
  BY <1>7
<1>9. DiskTypes(disk')
  BY <1>1, <1>2, <1>4, <1>5, <1>6, <1>7, <1>8 DEF DiskTypes
<1>10. disk.current # 0 => /\ disk.current \in DOMAIN disk.rt \cap DOMAIN disk.ts /\ disk.current \in DOMAIN disk'.rt \cap DOMAIN disk'.ts
                          /\ disk'.rt[disk.current] = disk.rt[disk.current] /\ disk'.ts[disk.current] = disk.ts[disk.current]
  BY <1>1, <1>2, <1>3, <1>4, <1>5, <1>6, <1>7 DEF WholeCheckpoint
<1>11. WholeCheckpoint(disk')
  BY <1>8, <1>10 DEF WholeCheckpoint
<1>12. open(disk').buf = open(disk).buf /\ open(disk').row = open(disk).row
  <2>1. load_tables(disk') = load_tables(disk)
    BY <1>2, <1>8, <1>9, <1>10, TablesSame
  <2>2. QED  BY <1>2, <1>8, <1>9, <1>11, <2>1, OpenSame
<1>13. /\ job' \in Jobs /\ job'.op \in Checkpoints
       /\ job.op = "table_rt" => job'.op = "table_ts"
       /\ job.op = "table_ts" => job'.op = "current"
  <2>1. "table_ts" \in Checkpoints /\ "current" \in Checkpoints /\ job \in Jobs /\ job.op \in Checkpoints
    BY <1>1, <1>2 DEF Checkpoints
  <2>2. [job EXCEPT !.op = "table_ts"] \in Jobs /\ [job EXCEPT !.op = "table_ts"].op = "table_ts"
    BY <2>1, StageIs
  <2>3. [job EXCEPT !.op = "current"] \in Jobs /\ [job EXCEPT !.op = "current"].op = "current"
    BY <2>1, StageIs
  <2>4. QED  BY <1>1, <2>1, <2>2, <2>3
<1>14. CheckpointInv(mem, disk', job')
  <2>1. CheckpointKept(mem, disk)
    BY <1>2, KeptCheckpoint
  <2>2. CheckpointKept(mem, disk')
    BY <1>8, <1>11, <2>1 DEF CheckpointKept
  <2>3. CASE job.op = "table_rt"
    BY <1>4, <1>5, <1>7, <1>8, <1>11, <1>13, <2>2, <2>3 DEF CheckpointInv, CheckpointKept, WholeCheckpoint
  <2>4. CASE job.op = "table_ts"
    <3>1. mem.gen \in DOMAIN disk.rt /\ disk.rt[mem.gen] = mem.row
      BY <1>2, <2>4 DEF CheckpointInv
    <3>2. QED  BY <1>4, <1>6, <1>7, <1>8, <1>11, <1>13, <2>2, <2>4, <3>1 DEF CheckpointInv, CheckpointKept, WholeCheckpoint
  <2>5. QED  BY <1>1, <2>3, <2>4
<1>15. pc' \in [Threads -> {"idle", "flush", "checkpoint"}]
  BY <1>1, <1>2
<1>16. QED  BY <1>1, <1>4, <1>8, <1>9, <1>11, <1>12, <1>13, <1>14, <1>15, CheckpointMoves

LEMMA WriteCurrentKeeps ==
  ASSUME LakeInv, WriteCurrent
  PROVE  /\ LakeInv' /\ up = TRUE /\ open(disk').buf = open(disk).buf /\ open(disk').row = open(disk).row
         /\ open(disk').manifest = disk.manifest /\ disk'.files = disk.files /\ disk'.manifest = disk.manifest
<1> DEFINE g == mem.gen
<1>1. /\ job.op = "current" /\ job.op \in Checkpoints /\ disk' = [disk EXCEPT !.current = g] /\ job' = [job EXCEPT !.op = "truncate"]
      /\ UNCHANGED <<up, mem, pc, writes, latest, flushes, crashes>>
  BY DEF WriteCurrent, Save, Checkpoints
<1>2. /\ TRUE
      /\ up = TRUE /\ mem \in LakeStates /\ job \in Jobs /\ DiskTypes(disk) /\ WholeCheckpoint(disk)
      /\ pc \in [Threads -> {"idle", "flush", "checkpoint"}]
      /\ MemMatches(open(disk), mem, job) /\ CheckpointInv(mem, disk, job) /\ LogInv(mem, disk, writes, job)
  BY <1>1, WorkingIs
<1>3. /\ g \in DOMAIN disk.rt /\ disk.rt[g] = mem.row /\ g \in DOMAIN disk.ts /\ disk.ts[g] = mem.buf
      /\ disk.current < g /\ disk.ended
      /\ \A i \in 1..Len(disk.wal) : disk.wal[i][1].type = "seq" => disk.wal[i][1].gen <= disk.current
  BY <1>1, <1>2 DEF CheckpointInv, LogInv
<1>4. g \in Nat /\ disk.current \in Nat /\ g # 0
  <2>1. g \in Nat /\ disk.current \in Nat
    BY <1>2, StateParts DEF DiskTypes
  <2>2. QED  BY <1>3, <2>1
<1>5. disk' = [wal |-> disk.wal, ended |-> disk.ended, current |-> g, rt |-> disk.rt, ts |-> disk.ts,
               manifest |-> disk.manifest, files |-> disk.files]
  BY <1>1, <1>2, Put_current
<1> HIDE DEF g
<1>6. /\ disk'.wal = disk.wal /\ disk'.ended = disk.ended /\ disk'.current = g /\ disk'.rt = disk.rt /\ disk'.ts = disk.ts
      /\ disk'.manifest = disk.manifest /\ disk'.files = disk.files
  BY <1>5
<1>7. DiskTypes(disk')
  BY <1>2, <1>4, <1>5, <1>6 DEF DiskTypes
<1>8. WholeCheckpoint(disk')
  BY <1>3, <1>6 DEF WholeCheckpoint
<1>9. open(disk).buf = mem.buf /\ open(disk).row = mem.row
  BY <1>1, <1>2 DEF MemMatches, Marking
<1>10. open(disk').buf = open(disk).buf /\ open(disk').row = open(disk).row
  <2>1. disk'.rt[disk'.current] = open(disk).row /\ disk'.ts[disk'.current] = open(disk).buf /\ disk'.current # 0
    BY <1>3, <1>4, <1>6, <1>9
  <2>2. QED  BY <1>2, <1>6, <1>7, <1>8, <2>1, OpenOver
<1>11. job' \in Jobs /\ job'.op = "truncate"
  BY <1>1, <1>2, StageIs DEF Checkpoints
<1>12. CheckpointInv(mem, disk', job')
  <2>1. \A i \in 1..Len(disk.wal) : disk.wal[i][1].type = "seq" => disk.wal[i][1].gen <= g
    <3>1. ASSUME NEW i \in 1..Len(disk.wal), disk.wal[i][1].type = "seq" PROVE disk.wal[i][1].gen <= g
      <4>1. disk.wal[i][1] \in LogRecords
        BY <1>2, LogLine DEF DiskTypes
      <4>2. disk.wal[i][1].gen \in Nat
        BY <3>1, <4>1, RecordTypes
      <4>3. QED  BY <1>3, <1>4, <3>1, <4>2
    <3>2. QED  BY <3>1
  <2>2. g <= mem.gen /\ g = mem.gen
    BY <1>4 DEF g
  <2>3. QED  BY <1>3, <1>4, <1>6, <1>11, <2>1, <2>2 DEF CheckpointInv
<1>13. pc' \in [Threads -> {"idle", "flush", "checkpoint"}]
  BY <1>1, <1>2
<1>14. job'.op \in Checkpoints
  BY <1>11 DEF Checkpoints
<1>15. QED  BY <1>1, <1>3, <1>6, <1>7, <1>8, <1>10, <1>11, <1>12, <1>13, <1>14, CheckpointMoves

LEMMA HeadKeeps ==
  ASSUME LakeInv, wal_head
  PROVE  /\ LakeInv' /\ up = TRUE /\ open(disk').buf = open(disk).buf /\ open(disk').row = open(disk).row
         /\ open(disk').manifest = disk.manifest /\ disk'.files = disk.files /\ disk'.manifest = disk.manifest
<1> DEFINE head == <<<<[type |-> "seq", gen |-> mem.gen]>>>>
           none == <<>>
<1>1. /\ job.op \in {"truncate", "header"} /\ job.op \in Checkpoints
      /\ job.op = "truncate" => disk' = [disk EXCEPT !.wal = none, !.ended = TRUE] /\ job' = [job EXCEPT !.op = "header"]
      /\ job.op = "header" => disk' = [disk EXCEPT !.wal = head] /\ job' = [job EXCEPT !.op = "sweep"]
      /\ UNCHANGED <<up, mem, pc, writes, latest, flushes, crashes>>
  BY DEF wal_head, Save, Checkpoints
<1>2. /\ TRUE
      /\ up = TRUE /\ mem \in LakeStates /\ job \in Jobs /\ DiskTypes(disk) /\ WholeCheckpoint(disk)
      /\ pc \in [Threads -> {"idle", "flush", "checkpoint"}]
      /\ MemMatches(open(disk), mem, job) /\ CheckpointInv(mem, disk, job) /\ LogInv(mem, disk, writes, job)
  BY <1>1, WorkingIs DEF Checkpoints
<1>3. /\ mem.gen \in DOMAIN disk.rt /\ disk.rt[mem.gen] = mem.row /\ mem.gen \in DOMAIN disk.ts /\ disk.ts[mem.gen] = mem.buf
      /\ disk.current = mem.gen /\ disk.ended /\ mem.gen \in Nat
  BY <1>1, <1>2, StateParts DEF CheckpointInv, LogInv
<1>4. head \in Logs /\ none \in Logs /\ Len(head) = 1 /\ head[1][1].type = "seq" /\ head[1][1].gen = mem.gen /\ Len(none) = 0
  <2>1. [type |-> "seq", gen |-> mem.gen] \in LogRecords
    BY <1>3 DEF LogRecords
  <2>2. QED  BY <2>1 DEF Logs, LogRecords
<1>5. /\ disk' = [wal |-> disk'.wal, ended |-> TRUE, current |-> disk.current, rt |-> disk.rt, ts |-> disk.ts,
                 manifest |-> disk.manifest, files |-> disk.files]
      /\ job.op = "truncate" => disk'.wal = none
      /\ job.op = "header" => disk'.wal = head
  <2>1. CASE job.op = "truncate"
    <3> DEFINE yes == TRUE
    <3>1. DiskTypes(disk) /\ disk' = [disk EXCEPT !.wal = none, !.ended = yes]
      BY <1>1, <1>2, <2>1
    <3> HIDE DEF yes, none
    <3>2. [disk EXCEPT !.wal = none, !.ended = yes] =
            [wal |-> none, ended |-> yes, current |-> disk.current, rt |-> disk.rt, ts |-> disk.ts,
             manifest |-> disk.manifest, files |-> disk.files]
      BY ONLY <3>1, Put_wal_ended
    <3>3. disk' = [wal |-> none, ended |-> yes, current |-> disk.current, rt |-> disk.rt, ts |-> disk.ts,
                   manifest |-> disk.manifest, files |-> disk.files]
      BY <3>1, <3>2
    <3>4. yes = TRUE
      BY DEF yes
    <3>5. QED  BY <2>1, <3>3, <3>4
  <2>2. CASE job.op = "header"
    <3>1. DiskTypes(disk) /\ disk' = [disk EXCEPT !.wal = head]
      BY <1>1, <1>2, <2>2
    <3> HIDE DEF head
    <3>2. disk' = [wal |-> head, ended |-> disk.ended, current |-> disk.current, rt |-> disk.rt, ts |-> disk.ts,
                   manifest |-> disk.manifest, files |-> disk.files]
      BY <3>1, Put_wal
    <3>3. disk.ended = TRUE
      BY <1>2, <1>3 DEF DiskTypes
    <3>4. QED  BY <2>2, <3>2, <3>3
  <2>3. QED  BY <1>1, <2>1, <2>2
<1>6. /\ disk'.ended = TRUE /\ disk'.current = disk.current /\ disk'.rt = disk.rt /\ disk'.ts = disk.ts
      /\ disk'.manifest = disk.manifest /\ disk'.files = disk.files
  BY <1>5
<1> HIDE DEF head, none
<1>7. DiskTypes(disk')
  <2>1. disk'.wal \in Logs
    BY <1>1, <1>4, <1>5
  <2>2. QED  BY <1>2, <1>5, <1>6, <2>1 DEF DiskTypes
<1>8. WholeCheckpoint(disk')
  BY <1>2, <1>6 DEF WholeCheckpoint
<1>9. open(disk).buf = mem.buf /\ open(disk).row = mem.row
  BY <1>1, <1>2 DEF MemMatches, Marking
<1>10. disk.current # 0
  BY <1>1, <1>2, <1>3 DEF CheckpointInv
<1>11. open(disk').buf = open(disk).buf /\ open(disk').row = open(disk).row
  <2>1. disk'.wal = <<>> \/ \E g \in Nat : disk'.wal = <<<<[type |-> "seq", gen |-> g]>>>>
    BY <1>1, <1>3, <1>5 DEF head, none
  <2>2. disk'.current # 0
    BY <1>6, <1>10
  <2>3. open(disk').row = disk'.rt[disk'.current] /\ open(disk').buf = disk'.ts[disk'.current]
    BY <1>7, <1>8, <2>1, <2>2, OpenCut
  <2>4. QED  BY <1>3, <1>6, <1>9, <2>3
<1>12. /\ job' \in Jobs /\ job'.op \in Checkpoints
       /\ job.op = "truncate" => job'.op = "header"
       /\ job.op = "header" => job'.op = "sweep"
  <2>1. "header" \in Checkpoints /\ "sweep" \in Checkpoints /\ job \in Jobs /\ job.op \in Checkpoints
    BY <1>1, <1>2 DEF Checkpoints
  <2>2. [job EXCEPT !.op = "header"] \in Jobs /\ [job EXCEPT !.op = "header"].op = "header"
    BY <2>1, StageIs
  <2>3. [job EXCEPT !.op = "sweep"] \in Jobs /\ [job EXCEPT !.op = "sweep"].op = "sweep"
    BY <2>1, StageIs
  <2>4. QED  BY <1>1, <2>1, <2>2, <2>3
<1>13. CheckpointInv(mem, disk', job')
  <2>1. \A i \in 1..Len(disk'.wal) : disk'.wal[i][1].type = "seq" => disk'.wal[i][1].gen <= disk'.current
    <3>1. CASE job.op = "truncate"
      BY <1>4, <1>5, <3>1
    <3>2. CASE job.op = "header"
      <4>1. disk'.wal = head /\ disk'.current = mem.gen
        BY <1>3, <1>5, <1>6, <3>2
      <4>2. Len(disk'.wal) = 1 /\ disk'.wal[1][1].gen = mem.gen
        BY <1>4, <4>1
      <4>3. mem.gen <= mem.gen
        BY <1>3
      <4>4. \A i \in 1..Len(disk'.wal) : i = 1
        BY <4>2
      <4>5. QED  BY <4>1, <4>2, <4>3, <4>4
    <3>3. QED  BY <1>1, <3>1, <3>2
  <2>2. job'.op = "header" => disk'.wal = <<>>
    BY <1>1, <1>5, <1>12 DEF none
  <2>3. job'.op \in {"header", "sweep"}
    BY <1>1, <1>12
  <2>4. QED  BY <1>3, <1>6, <1>8, <1>10, <2>1, <2>2, <2>3 DEF CheckpointInv, WholeCheckpoint
<1>14. pc' \in [Threads -> {"idle", "flush", "checkpoint"}]
  BY <1>1, <1>2
<1>15. QED  BY <1>1, <1>6, <1>7, <1>8, <1>11, <1>12, <1>13, <1>14, CheckpointMoves

LEMMA SweepKeeps ==
  ASSUME LakeInv, Sweep
  PROVE  /\ LakeInv' /\ up = TRUE /\ open(disk').buf = open(disk).buf /\ open(disk').row = open(disk).row
         /\ open(disk').manifest = disk.manifest /\ disk'.files = disk.files /\ disk'.manifest = disk.manifest
<1> DEFINE rt == [g \in DOMAIN disk.rt \cap {mem.gen} |-> disk.rt[g]]
           ts == [g \in DOMAIN disk.ts \cap {mem.gen} |-> disk.ts[g]]
<1>1. /\ job.op = "sweep" /\ job.op \in Checkpoints /\ disk' = [disk EXCEPT !.rt = rt, !.ts = ts]
      /\ job' = NoJob /\ pc' = [pc EXCEPT ![job.by] = "idle"] /\ UNCHANGED <<up, mem, writes, latest, flushes, crashes>>
  BY DEF Sweep, Save, Checkpoints
<1>2. /\ TRUE
      /\ up = TRUE /\ mem \in LakeStates /\ job \in Jobs /\ DiskTypes(disk) /\ WholeCheckpoint(disk)
      /\ pc \in [Threads -> {"idle", "flush", "checkpoint"}]
      /\ MemMatches(open(disk), mem, job) /\ CheckpointInv(mem, disk, job) /\ LogInv(mem, disk, writes, job)
  BY <1>1, WorkingIs
<1>3. /\ mem.gen \in DOMAIN disk.rt /\ mem.gen \in DOMAIN disk.ts /\ disk.current = mem.gen /\ disk.ended /\ disk.current # 0
  BY <1>1, <1>2 DEF CheckpointInv, LogInv
<1>4. /\ DOMAIN disk.rt \subseteq Nat /\ disk.rt \in [DOMAIN disk.rt -> Nat] /\ DOMAIN disk.ts \subseteq Nat
      /\ disk.ts \in [DOMAIN disk.ts -> Buffers]
  BY <1>2 DEF DiskTypes
<1>5. /\ DOMAIN rt \subseteq Nat /\ rt \in [DOMAIN rt -> Nat] /\ mem.gen \in DOMAIN rt /\ rt[mem.gen] = disk.rt[mem.gen]
      /\ DOMAIN ts \subseteq Nat /\ ts \in [DOMAIN ts -> Buffers] /\ mem.gen \in DOMAIN ts /\ ts[mem.gen] = disk.ts[mem.gen]
  BY <1>3, <1>4
<1> HIDE DEF rt, ts
<1>6. disk' = [wal |-> disk.wal, ended |-> disk.ended, current |-> disk.current, rt |-> rt, ts |-> ts,
               manifest |-> disk.manifest, files |-> disk.files]
  <2>1. DiskTypes(disk)
    BY <1>2
  <2>2. [disk EXCEPT !.rt = rt, !.ts = ts] =
          [wal |-> disk.wal, ended |-> disk.ended, current |-> disk.current, rt |-> rt, ts |-> ts,
           manifest |-> disk.manifest, files |-> disk.files]
    BY ONLY <2>1, Put_rt_ts
  <2>3. QED  BY <1>1, <2>2
<1>7. /\ disk'.wal = disk.wal /\ disk'.ended = disk.ended /\ disk'.current = disk.current /\ disk'.rt = rt /\ disk'.ts = ts
      /\ disk'.manifest = disk.manifest /\ disk'.files = disk.files
  BY <1>6
<1>8. DiskTypes(disk')
  BY <1>2, <1>5, <1>6, <1>7 DEF DiskTypes
<1>9. WholeCheckpoint(disk')
  BY <1>3, <1>5, <1>7 DEF WholeCheckpoint
<1>10. open(disk').buf = open(disk).buf /\ open(disk').row = open(disk).row
  <2>1. load_tables(disk') = load_tables(disk)
    BY <1>2, <1>3, <1>5, <1>7, <1>8, TablesSame
  <2>2. QED  BY <1>2, <1>7, <1>8, <1>9, <2>1, OpenSame
<1>11. job' \in Jobs /\ job'.op = "none"
  BY <1>1, NoJobIs
<1>12. CheckpointInv(mem, disk', job')
  <2>1. CheckpointKept(mem, disk)
    BY <1>2, KeptCheckpoint
  <2>2. CheckpointKept(mem, disk')
    BY <1>7, <1>9, <2>1 DEF CheckpointKept
  <2>3. job'.op \notin Checkpoints
    BY <1>11 DEF Checkpoints
  <2>4. QED  BY <2>2, <2>3, KeptCheckpoint
<1>13. pc' \in [Threads -> {"idle", "flush", "checkpoint"}]
  <2>1. job.by \in Threads
    BY <1>1, <1>2, JobIs
  <2>2. QED  BY <1>1, <1>2, <2>1
<1>14. QED  BY <1>1, <1>3, <1>7, <1>8, <1>9, <1>10, <1>11, <1>12, <1>13, CheckpointMoves

-----------------------------------------------------------------------------
(***************************************************************************)
(* A kill, a reopening, the start, and the whole.                          *)
(***************************************************************************)
LEMMA CrashKeeps ==
  ASSUME LakeInv, Crash, ~SplitLine
  PROVE  LakeInv'
<1>1. /\ up /\ job.op # "newline" /\ up' = FALSE /\ mem' = Fresh /\ job' = NoJob /\ pc' = [t \in Threads |-> "idle"]
      /\ crashes' = crashes + 1 /\ UNCHANGED <<disk, writes, latest, flushes, found>>
  BY DEF Crash
<1>2. DiskTypes(disk) /\ WholeCheckpoint(disk) /\ LogInv(mem, disk, writes, job) /\ CheckpointInv(mem, disk, job)
  BY <1>1, WholeNow DEF LakeInv
<1>3. job' \in Jobs /\ job'.op = "none" /\ mem' \in LakeStates
  BY <1>1, NoJobIs, FreshIs
<1>4. LogInv(mem', disk', writes', job')
  BY <1>1, <1>2, <1>3 DEF LogInv
<1>5. CheckpointInv(open(disk'), disk', job')
  <2>1. CheckpointKept(mem, disk)
    BY <1>2, KeptCheckpoint
  <2>2. disk.current <= open(disk).gen
    BY <1>2, OpenGives
  <2>3. CheckpointKept(open(disk), disk)
    BY <2>1, <2>2 DEF CheckpointKept
  <2>4. job'.op \notin Checkpoints
    BY <1>3 DEF Checkpoints
  <2>5. disk' = disk
    BY <1>1
  <2>6. QED  BY <2>3, <2>4, <2>5, KeptCheckpoint
<1>6. LakeTypes'
  <2>1. crashes \in Nat /\ writes \in Nat /\ flushes \in Nat /\ latest \in [Keys -> Nat]
        /\ \A k \in Keys : latest[k] <= writes
    BY DEF LakeInv, LakeTypes
  <2>2. crashes' \in Nat /\ writes' = writes /\ flushes' = flushes /\ latest' = latest
    BY <1>1, <2>1
  <2>3. pc' \in [Threads -> {"idle", "flush", "checkpoint"}] /\ up' \in BOOLEAN
    BY <1>1
  <2>4. QED  BY <1>3, <2>1, <2>2, <2>3 DEF LakeTypes
<1>7. DiskTypes(disk') /\ up' = FALSE /\ job' = NoJob
  BY <1>1, <1>2
<1>8. QED  BY <1>4, <1>5, <1>6, <1>7 DEF LakeInv

LEMMA OpenKeeps ==
  ASSUME LakeInv, Open
  PROVE  LakeInv'
<1>1. ~up /\ up' = TRUE /\ mem' = open(disk) /\ UNCHANGED <<disk, job, pc, writes, latest, flushes, crashes, found>>
  BY DEF Open
<1>2. /\ DiskTypes(disk) /\ WholeCheckpoint(disk) /\ job = NoJob /\ LogInv(mem, disk, writes, job)
      /\ CheckpointInv(open(disk), disk, job) /\ open(disk) \in LakeStates
  BY <1>1, WholeNow, OpenGives DEF LakeInv
<1>3. ~Marking(job') /\ job'.op = "none" /\ disk' = disk /\ job' = job /\ writes' = writes
  BY <1>1, <1>2, NoJobIs
<1>4. MemMatches(open(disk), open(disk), job)
  BY <1>3 DEF MemMatches
<1>5. LogInv(open(disk), disk, writes, job)
  BY <1>2, <1>3 DEF LogInv
<1>6. LakeTypes'
  BY <1>1, <1>2 DEF LakeInv, LakeTypes
<1>7. QED  BY <1>1, <1>2, <1>3, <1>4, <1>5, <1>6 DEF LakeInv

LEMMA LakeStart == Init => LakeInv
<1> SUFFICES ASSUME Init PROVE LakeInv
  OBVIOUS
<1>1. /\ up = TRUE /\ disk = EmptyDisk /\ mem = open(EmptyDisk) /\ job = NoJob /\ pc = [t \in Threads |-> "idle"]
      /\ writes = 0 /\ latest = [k \in Keys |-> 0] /\ flushes = 0 /\ crashes = 0
  BY DEF Init
<1> DEFINE none == <<>>
<1>2. none \in Logs /\ none \in Seq(Files) /\ Len(none) = 0 /\ DOMAIN none = {}
  BY DEF Logs
<1>3. EmptyDisk = [wal |-> none, ended |-> TRUE, current |-> 0, rt |-> none, ts |-> none, manifest |-> none, files |-> none]
  BY DEF EmptyDisk
<1>4. none \in [{} -> Nat] /\ none \in [{} -> Buffers]
  OBVIOUS
<1> HIDE DEF none
<1>5. DiskTypes(disk) /\ WholeCheckpoint(disk)
  BY <1>1, <1>2, <1>3, <1>4 DEF DiskTypes, WholeCheckpoint
<1>6. mem \in LakeStates /\ disk.current <= mem.gen
  BY <1>1, <1>5, OpenGives
<1>7. job \in Jobs /\ job.op = "none" /\ ~Marking(job)
  BY <1>1, NoJobIs
<1>8. LakeTypes
  BY <1>1, <1>6, <1>7 DEF LakeTypes, Keys
<1>9. LogInv(mem, disk, writes, job) /\ MemMatches(open(disk), mem, job)
  BY <1>1, <1>3, <1>7 DEF LogInv, MemMatches
<1>10. CheckpointInv(mem, disk, job)
  BY <1>1, <1>2, <1>3, <1>6, <1>7 DEF CheckpointInv, Checkpoints
<1>11. QED  BY <1>1, <1>5, <1>8, <1>9, <1>10 DEF LakeInv

LEMMA LakeStep == ASSUME ~SplitLine, LakeInv, [Next]_vars PROVE LakeInv'
<1>1. ASSUME NEW t \in Threads, Call(t) PROVE LakeInv'
  BY <1>1, CallKeeps
<1>2. CASE WalLine
  BY <1>2, WalLineKeeps
<1>3. CASE Newline
  BY <1>3, NewlineKeeps
<1>4. CASE FlushFile
  BY <1>4, FlushFileKeeps
<1>5. CASE FlushManifest
  BY <1>5, FlushManifestKeeps
<1>6. CASE WriteTable
  BY <1>6, WriteTableKeeps
<1>7. CASE WriteCurrent
  BY <1>7, WriteCurrentKeeps
<1>8. CASE wal_head
  BY <1>8, HeadKeeps
<1>9. CASE Sweep
  BY <1>9, SweepKeeps
<1>10. CASE RemoveFile
  BY <1>10, RemoveFileKeeps
<1>11. CASE WriteKept
  BY <1>11, WriteKeptKeeps
<1>12. CASE Crash
  BY <1>12, CrashKeeps
<1>13. CASE Open
  BY <1>13, OpenKeeps
<1>14. CASE UNCHANGED vars
  <2>1. UNCHANGED <<up, mem, disk, job, pc, writes, latest, flushes, crashes>>
    BY <1>14 DEF vars
  <2>2. LakeTypes'
    BY <2>1 DEF LakeInv, LakeTypes
  <2>3. QED  BY <2>1, <2>2 DEF LakeInv
<1>15. QED
  BY <1>1, <1>2, <1>3, <1>4, <1>5, <1>6, <1>7, <1>8, <1>9, <1>10, <1>11, <1>12, <1>13, <1>14 DEF Next

LEMMA LakeShows == LakeInv => LakeSound /\ Reopens
<1> SUFFICES ASSUME LakeInv PROVE LakeSound /\ Reopens
  OBVIOUS
<1>1. disk.wal \in Logs /\ DiskTypes(disk) /\ WholeCheckpoint(disk)
  BY WholeNow DEF DiskTypes
<1>2. \A i \in 1..Len(disk.wal) : disk.wal[i] = <<disk.wal[i][1]>> /\ DOMAIN disk.wal = 1..Len(disk.wal)
  BY <1>1, LogLine DEF Logs
<1>3. Reopens
  BY <1>1, <1>2 DEF Reopens, Parses, Logs
<1>4. MemoryIsLog
  BY FreeIs DEF MemoryIsLog
<1>5. \A i \in 1..Len(disk.wal) : disk.wal[i][1].type = "seq" => disk.wal[i][1].gen <= disk.current
  BY DEF LakeInv, CheckpointInv
<1>6. CheckpointWhole
  <2>1. \A i \in DOMAIN disk.wal : \A j \in DOMAIN disk.wal[i] : j = 1
    BY <1>1, <1>2 DEF Logs
  <2>2. DOMAIN disk.wal = 1..Len(disk.wal)
    BY <1>1 DEF Logs
  <2>3. QED  BY <1>1, <1>5, <2>1, <2>2 DEF CheckpointWhole, WholeCheckpoint
<1>7. QED  BY <1>3, <1>4, <1>6 DEF LakeSound

\* Whatever the moments of the kills, the memory of an open lake is what a
\* reopening would give, the pointer names a whole checkpoint and every line of
\* the log can be read, as long as no kill parts a line from its newline, which
\* the two writes of Inner::mutate leave room for (parquet.rs:14-17, 537-545).
THEOREM LakeAlwaysSound == ASSUME ~SplitLine PROVE Spec => [](LakeSound /\ Reopens)
<1>1. Init => LakeInv
  BY LakeStart
<1>2. LakeInv /\ [Next]_vars => LakeInv'
  BY LakeStep
<1>3. LakeInv => LakeSound /\ Reopens
  BY LakeShows
<1>4. QED  BY <1>1, <1>2, <1>3, PTL DEF Spec

-----------------------------------------------------------------------------
(***************************************************************************)
(* What the listed files give.  Those that hold a key are all of its       *)
(* block, so the last listed of them has the greatest stamp.               *)
(***************************************************************************)
Hit(files, k, f) == f \in DOMAIN files /\ k \in DOMAIN files[f]

FromFiles(m, files, k) ==
  LET hits == {i \in DOMAIN m : m[i] \in DOMAIN files /\ k \in DOMAIN files[m[i]]}
  IN  IF hits = {} THEN 0 ELSE files[m[MaxOf(hits)]][k]

LEMMA HitIs ==
  ASSUME NEW files, FilesOk(files), NEW k, NEW f, Hit(files, k, f)
  PROVE  f \in Files /\ k \in TsKeys /\ f[1] = Block[k] /\ files[f][k] \in Nat /\ f = <<f[1], f[2]>> /\ f[2] \in Nat
<1>1. f \in DOMAIN files /\ k \in DOMAIN files[f]
  BY DEF Hit
<1>2. f \in Files /\ k \in TsKeys /\ Block[k] = f[1] /\ files[f][k] \in Nat
  BY <1>1 DEF FilesOk
<1>3. QED  BY <1>2 DEF Files

NewestListed(m, files, k, f) ==
  f \in Listed(m) /\ Hit(files, k, f) /\ \A g \in Listed(m) : Hit(files, k, g) => g[2] <= f[2]

LEMMA NewestIs ==
  ASSUME NEW m \in Seq(Files), InFlushOrder(m), NEW files, FilesOk(files), NEW k
  PROVE  \/ FromFiles(m, files, k) = 0 /\ \A f \in Listed(m) : ~Hit(files, k, f)
         \/ \E f \in Listed(m) : NewestListed(m, files, k, f) /\ FromFiles(m, files, k) = files[f][k]
<1> DEFINE hits == {i \in DOMAIN m : m[i] \in DOMAIN files /\ k \in DOMAIN files[m[i]]}
<1>1. hits \in SUBSET Nat /\ Len(m) \in Nat /\ (\A i \in hits : i <= Len(m)) /\ \A i \in DOMAIN m : m[i] \in Files
  OBVIOUS
<1>2. \A i \in DOMAIN m : i \in hits <=> Hit(files, k, m[i])
  BY DEF Hit
<1>3. FromFiles(m, files, k) = IF hits = {} THEN 0 ELSE files[m[MaxOf(hits)]][k]
  BY DEF FromFiles
<1>4. hits \subseteq DOMAIN m /\ \A f \in Listed(m) : \E i \in DOMAIN m : f = m[i]
  BY DEF Listed
<1> HIDE DEF hits
<1>5. CASE hits = {}
  BY <1>2, <1>3, <1>4, <1>5
<1>6. CASE hits # {}
  <2> DEFINE top == MaxOf(hits)
             f == m[top]
  <2>1. top \in hits /\ \A i \in hits : i <= top
    BY <1>1, <1>6, MaxIs
  <2>2. top \in DOMAIN m /\ top \in Nat /\ f \in Listed(m) /\ Hit(files, k, f)
    BY <1>1, <1>2, <1>4, <2>1 DEF Listed
  <2>3. FromFiles(m, files, k) = files[f][k]
    BY <1>3, <1>6
  <2>4. ASSUME NEW g \in Listed(m), Hit(files, k, g) PROVE g[2] <= f[2]
    <3>1. PICK i \in DOMAIN m : g = m[i]
      BY <1>4
    <3>2. i \in hits /\ i <= top /\ i \in Nat
      BY <1>1, <1>2, <2>1, <2>4, <3>1
    <3>3. i < top => m[i][2] <= m[top][2]
      BY <2>2, <3>1 DEF InFlushOrder
    <3>4. m[top][2] \in Nat
      BY <1>1, <2>2 DEF Files
    <3>5. QED  BY <2>2, <3>1, <3>2, <3>3, <3>4
  <2> HIDE DEF f, top
  <2>5. QED  BY <2>2, <2>3, <2>4 DEF NewestListed
<1>7. QED  BY <1>5, <1>6

LEMMA NewestWins ==
  ASSUME NEW m \in Seq(Files), InFlushOrder(m), NEW files, FilesOk(files), NEW k, NEW f, NewestListed(m, files, k, f)
  PROVE  FromFiles(m, files, k) = files[f][k]
<1>1. f \in Listed(m) /\ Hit(files, k, f)
  BY DEF NewestListed
<1>2. PICK g \in Listed(m) : NewestListed(m, files, k, g) /\ FromFiles(m, files, k) = files[g][k]
  BY <1>1, NewestIs
<1>3. Hit(files, k, g)
  BY <1>2 DEF NewestListed
<1>4. f[1] = Block[k] /\ f = <<f[1], f[2]>> /\ f[2] \in Nat
  BY <1>1, HitIs
<1>5. g[1] = Block[k] /\ g = <<g[1], g[2]>> /\ g[2] \in Nat
  BY <1>3, HitIs
<1>6. f[2] <= g[2] /\ g[2] <= f[2]
  <2>1. \A h \in Listed(m) : Hit(files, k, h) => h[2] <= f[2]
    BY DEF NewestListed
  <2>2. \A h \in Listed(m) : Hit(files, k, h) => h[2] <= g[2]
    BY <1>2 DEF NewestListed
  <2>3. g \in Listed(m)
    OBVIOUS
  <2>4. QED  BY <1>1, <1>3, <2>1, <2>2, <2>3
<1>7. f[2] = g[2]
  BY <1>4, <1>5, <1>6
<1>8. f = g
  BY <1>4, <1>5, <1>7
<1>9. QED  BY <1>2, <1>8

LEMMA NoneFound ==
  ASSUME NEW m \in Seq(Files), InFlushOrder(m), NEW files, FilesOk(files), NEW k, \A f \in Listed(m) : ~Hit(files, k, f)
  PROVE  FromFiles(m, files, k) = 0
<1>1. ~ \E f \in Listed(m) : NewestListed(m, files, k, f)
  BY DEF NewestListed
<1>2. QED  BY <1>1, NewestIs

LEMMA SameHits ==
  ASSUME NEW m \in Seq(Files), InFlushOrder(m), NEW x, FilesOk(x),
         NEW n \in Seq(Files), InFlushOrder(n), NEW y, FilesOk(y), NEW k,
         \A f \in Files : (f \in Listed(m) /\ Hit(x, k, f)) <=> (f \in Listed(n) /\ Hit(y, k, f)),
         \A f \in Listed(m) : Hit(x, k, f) => x[f][k] = y[f][k]
  PROVE  FromFiles(m, x, k) = FromFiles(n, y, k)
<1>1. Listed(m) \subseteq Files /\ Listed(n) \subseteq Files
  BY DEF Listed
<1>2. CASE \E f \in Listed(m) : NewestListed(m, x, k, f) /\ FromFiles(m, x, k) = x[f][k]
  <2>1. PICK f \in Listed(m) : NewestListed(m, x, k, f) /\ FromFiles(m, x, k) = x[f][k]
    BY <1>2
  <2>2. NewestListed(n, y, k, f) /\ x[f][k] = y[f][k]
    BY <1>1, <2>1 DEF NewestListed
  <2>3. FromFiles(n, y, k) = y[f][k]
    BY <2>2, NewestWins
  <2>4. QED  BY <2>1, <2>2, <2>3
<1>3. CASE FromFiles(m, x, k) = 0 /\ \A f \in Listed(m) : ~Hit(x, k, f)
  <2>1. \A f \in Listed(n) : ~Hit(y, k, f)
    BY <1>1, <1>3
  <2>2. QED  BY <1>3, <2>1, NoneFound
<1>4. QED  BY <1>2, <1>3, NewestIs

-----------------------------------------------------------------------------
(***************************************************************************)
(* What can be found.                                                      *)
(***************************************************************************)
LEMMA ViewIs ==
  ASSUME NEW r, NEW files
  PROVE  /\ ViewOf(r, files) = [k \in Keys |-> ViewOf(r, files)[k]]
         /\ ViewOf(r, files)[Row] = r.row
         /\ \A k \in TsKeys : /\ r.buf[k].id > 0 => ViewOf(r, files)[k] = r.buf[k].v
                              /\ ~(r.buf[k].id > 0) => ViewOf(r, files)[k] = FromFiles(r.manifest, files, k)
<1>1. Row \in Keys /\ TsKeys \subseteq Keys /\ Row \notin TsKeys
  BY LakeAssumption DEF Keys
<1>2. \A k \in TsKeys : ViewOf(r, files)[k] = merged_ts(r, files, k)
  BY <1>1 DEF ViewOf
<1>3. \A k \in TsKeys : merged_ts(r, files, k) = IF r.buf[k].id > 0 THEN r.buf[k].v ELSE FromFiles(r.manifest, files, k)
  BY DEF merged_ts, FromFiles
<1>4. ViewOf(r, files) = [k \in Keys |-> ViewOf(r, files)[k]] /\ ViewOf(r, files)[Row] = r.row
  BY <1>1 DEF ViewOf
<1>5. QED  BY <1>2, <1>3, <1>4

LEMMA ViewSame ==
  ASSUME NEW r, NEW x, NEW q, NEW y, q.row = r.row, q.buf = r.buf,
         \A k \in TsKeys : ~(r.buf[k].id > 0) => FromFiles(r.manifest, x, k) = FromFiles(q.manifest, y, k)
  PROVE  ViewOf(q, y) = ViewOf(r, x)
<1>1. \A k \in Keys : ViewOf(q, y)[k] = ViewOf(r, x)[k]
  BY ViewIs DEF Keys
<1>2. QED  BY <1>1, ViewIs

\* A step that leaves what is found and what was written as they are.
LEMMA Quiet ==
  ASSUME found' = found, latest' = latest, Dropping' \subseteq Keys
  PROVE  Promise!Next
  BY DEF Promise!Next, Promise!Forget

LEMMA DroppingIs ==
  ASSUME job' \in Jobs
  PROVE  Dropping' \subseteq Keys
<1> DEFINE Dropped(j) ==
             CASE j.op \in {"remove", "clear"} -> j.keys
               [] j.op = "line" /\ j.rec.type = "TsClearAll" -> TsKeys
               [] j.op = "line" /\ j.rec.type = "ClearTable" -> {Row}
               [] OTHER -> {}
<1>1. ASSUME NEW j \in Jobs PROVE Dropped(j) \subseteq Keys
  <2>1. j.op \in {"remove", "clear"} => j.keys \subseteq TsKeys
    BY JobIs
  <2>2. QED  BY <2>1 DEF Keys
<1>2. Dropping' = Dropped(job')
  BY DEF Dropping
<1> HIDE DEF Dropped
<1>3. QED  BY <1>1, <1>2

-----------------------------------------------------------------------------
(***************************************************************************)
(* The steps that write no file and no manifest.                           *)
(***************************************************************************)
LEMMA DisksAgree ==
  ASSUME LakeInv, job.op # "none"
  PROVE  mem.manifest = disk.manifest /\ open(disk).manifest = disk.manifest /\ disk.manifest \in Seq(Files)
<1>1. MemMatches(open(disk), mem, job) /\ DiskTypes(disk) /\ WholeCheckpoint(disk)
  BY WorkingIs
<1>2. QED  BY <1>1, OpenGives DEF MemMatches, DiskTypes

\* Work that concerns no file.
Beyond(j) == j.op \in {"none", "newline"} \cup Checkpoints \/ (j.op = "line" /\ j.rec.type # "TsFlush")

LEMMA BeyondFiles ==
  ASSUME NEW m, NEW r, NEW files, NEW n, NEW j, Beyond(j), NEW k
  PROVE  WritingInv(m, files, n, j) /\ FlushedInv(r, files, n, j) /\ RemovalInv(k, files, j)
  BY DEF Beyond, WritingInv, FlushedInv, RemovalInv, Checkpoints

LEMMA OnlyLogged ==
  ASSUME FileInv, open(disk').buf = open(disk).buf, open(disk').row = open(disk).row, open(disk').manifest = disk.manifest,
         open(disk).manifest = disk.manifest, disk'.manifest = disk.manifest, disk'.files = disk.files, flushes' = flushes,
         latest' = latest, Beyond(job'), job' \in Jobs, found' = ViewOf(open(disk'), disk'.files)
  PROVE  FileInv' /\ Promise!Next
<1>1. found' = found
  BY ViewSame DEF FileInv
<1>2. Dropping' \subseteq Keys
  BY DroppingIs
<1>3. FilesInv(disk', flushes')
  BY DEF FileInv, FilesInv
<1>4. FileInv'
  BY <1>3, BeyondFiles DEF FileInv
<1>5. QED  BY <1>1, <1>2, <1>4, Quiet

-----------------------------------------------------------------------------
(***************************************************************************)
(* The steps that write nothing.                                           *)
(***************************************************************************)
LEMMA OnlyTaken ==
  ASSUME FileInv, LakeInv', UNCHANGED <<disk, found, latest>>, flushes \in Nat, flushes' \in Nat, flushes <= flushes',
         WritingInv(mem', disk.files, flushes', job'), FlushedInv(open(disk), disk.files, flushes', job'),
         RemovalInv(mem'.manifest, disk.files, job'), disk.manifest \in Seq(Files)
  PROVE  FileInv' /\ Promise!Next
<1>1. job' \in Jobs /\ disk' = disk /\ found' = found
  BY DEF LakeInv, LakeTypes
<1>2. Dropping' \subseteq Keys
  BY <1>1, DroppingIs
<1>3. FilesInv(disk, flushes')
  <2>1. \A i \in DOMAIN disk.manifest : disk.manifest[i][2] \in Nat /\ disk.manifest[i][2] <= flushes
    BY DEF FileInv, FilesInv, Files
  <2>2. QED  BY <2>1 DEF FileInv, FilesInv
<1>4. FileInv'
  BY <1>1, <1>3 DEF FileInv
<1>5. QED  BY <1>1, <1>2, <1>4, Quiet

LEMMA BeyondTaken ==
  ASSUME LakeInv, FileInv, LakeInv', UNCHANGED <<disk, found, latest, flushes>>, Beyond(job')
  PROVE  FileInv' /\ Promise!Next
<1>1. flushes \in Nat /\ disk.manifest \in Seq(Files) /\ flushes' = flushes /\ flushes <= flushes
  BY DEF LakeInv, LakeTypes, DiskTypes
<1>2. QED  BY <1>1, BeyondFiles, OnlyTaken

LEMMA SettersFiles ==
  ASSUME LakeInv, FileInv, LakeInv', NEW t \in Threads, (\E k \in TsKeys : append(t, k)) \/ SetRow(t) \/ ClearTable(t)
  PROVE  FileInv' /\ Promise!Next
<1>1. ASSUME NEW rec, NEW then, Write(t, rec, then), rec.type # "TsFlush" PROVE FileInv' /\ Promise!Next
  <2>1. UNCHANGED <<disk, found, latest, flushes>> /\ job' = [op |-> "line", by |-> t, rec |-> rec, then |-> then]
    BY <1>1 DEF Write, Logging
  <2>2. Beyond(job')
    BY <1>1, <2>1 DEF Beyond
  <2>3. QED  BY <2>1, <2>2, BeyondTaken
<1>2. ASSUME NEW k \in TsKeys, append(t, k) PROVE FileInv' /\ Promise!Next
  <2> DEFINE rec == [type |-> "TsPoint", k |-> k, id |-> mem.next_id, v |-> writes + 1]
  <2>1. rec.type # "TsFlush" /\ Write(t, rec, "append")
    BY <1>2 DEF append
  <2> HIDE DEF rec
  <2>2. QED  BY <1>1, <2>1
<1>3. CASE SetRow(t)
  <2> DEFINE rec == [type |-> "SetRow", k |-> Row, v |-> writes + 1]
  <2>1. rec.type # "TsFlush" /\ Write(t, rec, "idle")
    BY <1>3 DEF SetRow
  <2> HIDE DEF rec
  <2>2. QED  BY <1>1, <2>1
<1>4. CASE ClearTable(t)
  <2> DEFINE rec == [type |-> "ClearTable"]
  <2>1. rec.type # "TsFlush" /\ Write(t, rec, "idle")
    BY <1>4 DEF ClearTable
  <2> HIDE DEF rec
  <2>2. QED  BY <1>1, <2>1
<1>5. QED  BY <1>2, <1>3, <1>4

LEMMA FlushFiles ==
  ASSUME LakeInv, FileInv, LakeInv', NEW t \in Threads, NEW then, flush_timeseries(t, then)
  PROVE  FileInv' /\ Promise!Next
<1>1. UNCHANGED <<disk, found, latest, mem>> /\ Unlocked
  BY DEF flush_timeseries
<1>2. CASE Buffered(mem) = {}
  <2>1. job' = NoJob /\ flushes' = flushes
    BY <1>1, <1>2 DEF flush_timeseries, Unlocked
  <2>2. Beyond(job')
    BY <2>1, NoJobIs DEF Beyond
  <2>3. QED  BY <1>1, <2>1, <2>2, BeyondTaken
<1>3. CASE Buffered(mem) # {}
  <2> DEFINE blocks == {Block[k] : k \in Buffered(mem)}
             none == <<>>
             n == flushes + 1
  <2>1. job' = [op |-> "files", by |-> t, then |-> then, written |-> none, todo |-> blocks, stamp |-> n] /\ flushes' = n
    BY <1>3 DEF flush_timeseries
  <2>2. flushes \in Nat /\ n \in Nat /\ flushes <= n /\ disk.manifest \in Seq(Files)
    BY DEF LakeInv, LakeTypes, DiskTypes
  <2>3. mem.manifest = disk.manifest
    BY <1>1, FreeIs, WholeNow, OpenGives
  <2>4. \A i \in DOMAIN mem.manifest : mem.manifest[i][2] < n
    <3>1. \A i \in DOMAIN disk.manifest : disk.manifest[i][2] \in Nat /\ disk.manifest[i][2] <= flushes
      BY <2>2 DEF FileInv, FilesInv, Files
    <3>2. QED  BY <2>2, <2>3, <3>1
  <2>5. InFlushOrder(none) /\ Listed(none) = {}
    BY DEF InFlushOrder, Listed
  <2>6. \A k \in TsKeys : mem.buf[k].id > 0 => Block[k] \in blocks
    BY DEF Buffered
  <2>7. job'.op = "files" /\ job'.stamp = n /\ job'.written = none /\ job'.todo = blocks
    BY <2>1
  <2> HIDE DEF blocks, none, n
  <2>8. WritingInv(mem, disk.files, n, job')
    BY <2>4, <2>5, <2>6, <2>7 DEF WritingInv
  <2>9. FlushedInv(open(disk), disk.files, n, job') /\ RemovalInv(mem.manifest, disk.files, job')
    BY <2>7 DEF FlushedInv, RemovalInv
  <2>10. mem' = mem /\ flushes' = n
    BY <1>1, <2>1
  <2>11. QED  BY <1>1, <2>2, <2>8, <2>9, <2>10, OnlyTaken
<1>4. QED  BY <1>2, <1>3

LEMMA RemovalFiles ==
  ASSUME LakeInv, FileInv, LakeInv', NEW t \in Threads,
         (\E keep \in KeepBlocks : retain_block_partitions(t, keep)) \/ clear_all_series(t)
  PROVE  FileInv' /\ Promise!Next
<1>1. flushes \in Nat /\ flushes <= flushes /\ disk.manifest \in Seq(Files) /\ DiskTypes(disk) /\ WholeCheckpoint(disk)
  BY WholeNow DEF LakeInv, LakeTypes, DiskTypes
<1> DEFINE M == mem.manifest
<1>2. ASSUME Unlocked PROVE M = disk.manifest /\ M \in Seq(Files) /\ InFlushOrder(M) /\ FilesOk(disk.files)
  BY <1>1, <1>2, FreeIs, OpenGives DEF FileInv, FilesInv
<1>3. ASSUME job'.op \in {"remove", "clear"}, RemovalInv(M, disk.files, job'),
             UNCHANGED <<mem, disk, found, latest, flushes>>
      PROVE  FileInv' /\ Promise!Next
  <2>1. WritingInv(mem', disk.files, flushes', job') /\ FlushedInv(open(disk), disk.files, flushes', job')
    BY <1>3 DEF WritingInv, FlushedInv
  <2>2. mem'.manifest = M /\ flushes' = flushes
    BY <1>3
  <2>3. QED  BY <1>1, <1>3, <2>1, <2>2, OnlyTaken
<1>4. ASSUME NEW keep \in KeepBlocks, retain_block_partitions(t, keep) PROVE FileInv' /\ Promise!Next
  <2> DEFINE keys == {k \in TsKeys : Block[k] < keep}
             todo == {i \in DOMAIN M : M[i][1] < keep}
             kept == KeptFiles(M, keep)
  <2>1. keep \in Nat
    BY LakeAssumption
  <2>2. /\ job' = [op |-> "remove", by |-> t, keys |-> keys, todo |-> todo, kept |-> kept] /\ Unlocked
        /\ UNCHANGED <<mem, disk, found, latest, flushes>>
    BY <1>4 DEF retain_block_partitions, Removal
  <2>3. M \in Seq(Files) /\ InFlushOrder(M) /\ \A i \in DOMAIN M : M[i][1] \in Nat
    BY <1>2, <2>2 DEF Files
  <2>4. InFlushOrder(kept) /\ Listed(kept) = {f \in Listed(M) : f[1] >= keep}
    BY <2>1, <2>3, KeptIs
  <2>5. \A i \in DOMAIN M : i \in todo \/ M[i] \in Listed(kept)
    <3>1. \A i \in DOMAIN M : M[i] \in Listed(M)
      BY DEF Listed
    <3>2. QED  BY <2>1, <2>3, <2>4, <3>1
  <2>6. \A i \in todo, f \in Listed(kept) : f[1] # M[i][1]
    <3>1. \A f \in Listed(M) : f[1] \in Nat
      BY <2>3 DEF Listed
    <3>2. QED  BY <2>1, <2>3, <2>4, <3>1
  <2>7. \A i \in todo, k \in TsKeys : Block[k] = M[i][1] => k \in keys
    OBVIOUS
  <2>8. todo \subseteq DOMAIN M
    OBVIOUS
  <2>9. job'.op = "remove" /\ job'.keys = keys /\ job'.todo = todo /\ job'.kept = kept
    BY <2>2
  <2> HIDE DEF keys, todo, kept, M
  <2>10. RemovalInv(M, disk.files, job')
    BY <2>4, <2>5, <2>6, <2>7, <2>8, <2>9 DEF RemovalInv
  <2>11. QED  BY <1>3, <2>2, <2>9, <2>10
<1>5. CASE clear_all_series(t)
  <2> DEFINE none == <<>>
  <2>1. /\ job' = [op |-> "clear", by |-> t, keys |-> TsKeys, todo |-> DOMAIN M, kept |-> none] /\ Unlocked
        /\ UNCHANGED <<mem, disk, found, latest, flushes>>
    BY <1>5 DEF clear_all_series, Removal
  <2>2. InFlushOrder(none) /\ Listed(none) = {}
    BY DEF InFlushOrder, Listed
  <2>3. job'.op = "clear" /\ job'.keys = TsKeys /\ job'.todo = DOMAIN M /\ job'.kept = none
    BY <2>1
  <2> HIDE DEF none, M
  <2>4. RemovalInv(M, disk.files, job')
    BY <2>2, <2>3 DEF RemovalInv
  <2>5. QED  BY <1>3, <2>1, <2>3, <2>4
<1>6. QED  BY <1>4, <1>5

LEMMA CallFiles ==
  ASSUME LakeInv, FileInv, LakeInv', NEW t \in Threads, Call(t)
  PROVE  FileInv' /\ Promise!Next
<1>1. CASE (\E k \in TsKeys : append(t, k)) \/ SetRow(t) \/ ClearTable(t)
  BY <1>1, SettersFiles
<1>2. CASE flush(t) \/ snapshot(t)
  BY <1>2, FlushFiles DEF flush, snapshot
<1>3. CASE checkpoint(t)
  <2>1. UNCHANGED <<disk, found, latest, flushes>> /\ job'.op = "table_rt"
    BY <1>3 DEF checkpoint
  <2>2. Beyond(job')
    BY <2>1 DEF Beyond, Checkpoints
  <2>3. QED  BY <2>1, <2>2, BeyondTaken
<1>4. CASE (\E keep \in KeepBlocks : retain_block_partitions(t, keep)) \/ clear_all_series(t)
  BY <1>4, RemovalFiles
<1>5. QED  BY <1>1, <1>2, <1>3, <1>4 DEF Call

LEMMA KilledFiles ==
  ASSUME LakeInv, FileInv, LakeInv', Crash \/ Open
  PROVE  FileInv' /\ Promise!Next
<1>1. UNCHANGED <<disk, found, latest, flushes>> /\ job' = NoJob
  BY DEF Crash, Open, LakeInv
<1>2. Beyond(job')
  BY <1>1, NoJobIs DEF Beyond
<1>3. QED  BY <1>1, <1>2, BeyondTaken

-----------------------------------------------------------------------------
(***************************************************************************)
(* The checkpoint and the end of a log line.                               *)
(***************************************************************************)
LEMMA CheckpointFiles ==
  ASSUME LakeInv, FileInv, Newline \/ WriteTable \/ WriteCurrent \/ wal_head \/ Sweep
  PROVE  FileInv' /\ Promise!Next
<1>1. /\ LakeInv' /\ open(disk').buf = open(disk).buf /\ open(disk').row = open(disk).row
      /\ open(disk').manifest = disk.manifest /\ disk'.files = disk.files /\ disk'.manifest = disk.manifest
  BY NewlineKeeps, WriteTableKeeps, WriteCurrentKeeps, HeadKeeps, SweepKeeps
<1>2. job.op # "none"
  BY DEF Newline, WriteTable, WriteCurrent, wal_head, Sweep
<1>3. open(disk).manifest = disk.manifest
  BY <1>2, DisksAgree
<1>4. job' \in Jobs
  BY <1>1 DEF LakeInv, LakeTypes
<1>5. job \in Jobs /\ flushes' = flushes /\ latest' = latest /\ found' = ViewOf(open(disk'), disk'.files)
  BY DEF LakeInv, LakeTypes, Newline, WriteTable, WriteCurrent, wal_head, Sweep, Save
<1>6. job'.op \in {"none"} \cup Checkpoints
  <2>1. CASE Newline \/ Sweep
    BY <2>1, NoJobIs DEF Newline, Sweep
  <2>2. CASE WriteTable \/ WriteCurrent \/ wal_head
    <3>1. job.op \in Checkpoints /\ \E op \in Checkpoints : job' = [job EXCEPT !.op = op]
      BY <2>2 DEF WriteTable, WriteCurrent, wal_head, Checkpoints
    <3>2. QED  BY <1>5, <3>1, StageIs
  <2>3. QED  BY <2>1, <2>2
<1>7. Beyond(job')
  BY <1>6 DEF Beyond
<1>8. QED  BY <1>1, <1>3, <1>4, <1>5, <1>7, OnlyLogged

-----------------------------------------------------------------------------
(***************************************************************************)
(* A log line.                                                             *)
(***************************************************************************)
LEMMA WalLineFiles ==
  ASSUME LakeInv, FileInv, WalLine
  PROVE  FileInv' /\ Promise!Next
<1> DEFINE rec == job.rec
           r == open(disk)
           q == open(disk')
<1>1. /\ LakeInv' /\ job.op = "line" /\ rec \in Records
      /\ q.buf = BufAfter(r.buf, rec) /\ q.row = RowAfter(r.row, rec)
      /\ disk'.manifest = disk.manifest /\ q.manifest = disk.manifest /\ disk'.files = disk.files
  BY WalLineKeeps
<1>2. /\ latest' = IF rec.type \in {"TsPoint", "SetRow"} THEN [latest EXCEPT ![rec.k] = rec.v] ELSE latest
      /\ job' = [op |-> "newline", by |-> job.by, rec |-> job.rec, then |-> job.then]
      /\ flushes' = flushes /\ found' = ViewOf(q, disk'.files)
  BY DEF WalLine, Save
<1>3. /\ r.manifest = disk.manifest /\ mem.manifest = disk.manifest /\ disk.manifest \in Seq(Files)
      /\ MemMatches(r, mem, job) /\ LogInv(mem, disk, writes, job) /\ writes \in Nat /\ latest \in [Keys -> Nat]
      /\ \A k \in Keys : latest[k] <= writes
  BY <1>1, DisksAgree, WorkingIs
<1>4. r \in LakeStates /\ \A k \in TsKeys : r.buf[k].id \in Nat
  <2>1. r \in LakeStates
    BY WholeNow, OpenGives
  <2>2. QED  BY <2>1, StateParts
<1>5. /\ InFlushOrder(disk.manifest) /\ FilesOk(disk.files) /\ FilesInv(disk, flushes)
      /\ FlushedInv(r, disk.files, flushes, job) /\ found = ViewOf(r, disk.files)
  BY DEF FileInv, FilesInv
<1>6. FileInv'
  <2>1. Beyond(job')
    BY <1>2 DEF Beyond
  <2>2. FilesInv(disk', flushes')
    BY <1>1, <1>2, <1>5 DEF FilesInv
  <2>3. QED  BY <1>2, <2>1, <2>2, BeyondFiles DEF FileInv
<1>7. Dropping' = {}
  BY <1>2 DEF Dropping
<1> DEFINE x == disk.files
<1>8. /\ found = [k \in Keys |-> found[k]] /\ found' = [k \in Keys |-> found'[k]]
      /\ found[Row] = r.row /\ found'[Row] = q.row
      /\ \A k \in TsKeys :
           /\ r.buf[k].id > 0 => found[k] = r.buf[k].v
           /\ ~(r.buf[k].id > 0) => found[k] = FromFiles(disk.manifest, x, k)
           /\ q.buf[k].id > 0 => found'[k] = q.buf[k].v
           /\ ~(q.buf[k].id > 0) => found'[k] = FromFiles(disk.manifest, x, k)
  BY <1>1, <1>2, <1>3, <1>5, ViewIs
<1>9. Row \in Keys /\ TsKeys \subseteq Keys /\ Row \notin TsKeys /\ Keys = TsKeys \cup {Row}
  BY LakeAssumption DEF Keys
<1> HIDE DEF r, q, x
<1>10. CASE rec.type = "TsPoint"
  <2>1. rec.k \in TsKeys /\ rec.id \in Ids /\ rec.v = writes + 1
    BY <1>1, <1>3, <1>10, RecordTypes DEF LogInv, LogRecords
  <2>2. q.row = r.row /\ q.buf = [r.buf EXCEPT ![rec.k] = [id |-> rec.id, v |-> rec.v]]
    BY <1>1, <1>10 DEF BufAfter, RowAfter
  <2>3. r.buf = [k \in TsKeys |-> r.buf[k]]
    BY <1>4, StateParts
  <2>4. q.buf[rec.k].id > 0 /\ q.buf[rec.k].v = rec.v /\ \A k \in TsKeys : k # rec.k => q.buf[k] = r.buf[k]
    BY <2>1, <2>2, <2>3 DEF Ids
  <2>5. found' = [found EXCEPT ![rec.k] = rec.v]
    <3>1. ASSUME NEW k \in Keys PROVE found'[k] = IF k = rec.k THEN rec.v ELSE found[k]
      BY <1>8, <1>9, <2>1, <2>2, <2>4
    <3>2. QED  BY <1>8, <3>1
  <2>6. latest' = [latest EXCEPT ![rec.k] = rec.v]
    BY <1>2, <1>10
  <2>7. latest'[rec.k] = rec.v /\ rec.k \in Keys
    BY <1>3, <1>9, <2>1, <2>6
  <2>8. latest'[rec.k] > latest[rec.k]
    BY <1>3, <2>1, <2>7
  <2>9. Dropping = {}
    BY <1>1, <1>10 DEF Dropping
  <2>10. Promise!Put(rec.k)
    BY <1>7, <2>5, <2>6, <2>7, <2>8, <2>9 DEF Promise!Put
  <2>11. QED  BY <1>6, <2>7, <2>10 DEF Promise!Next
<1>11. CASE rec.type = "SetRow"
  <2>1. rec.k = Row /\ rec.v = writes + 1
    BY <1>1, <1>3, <1>11, RecordTypes DEF LogInv, LogRecords
  <2>2. q.row = rec.v /\ q.buf = r.buf
    BY <1>1, <1>11 DEF BufAfter, RowAfter
  <2>3. found' = [found EXCEPT ![Row] = rec.v]
    <3>1. ASSUME NEW k \in Keys PROVE found'[k] = IF k = Row THEN rec.v ELSE found[k]
      BY <1>8, <1>9, <2>2
    <3>2. QED  BY <1>8, <3>1
  <2>4. latest' = [latest EXCEPT ![Row] = rec.v]
    BY <1>2, <1>11, <2>1
  <2>5. latest'[Row] = rec.v
    BY <1>3, <1>9, <2>4
  <2>6. latest'[Row] > latest[Row]
    BY <1>3, <1>9, <2>1, <2>5
  <2>7. Dropping = {}
    BY <1>1, <1>11 DEF Dropping
  <2>8. Promise!Put(Row)
    BY <1>7, <2>3, <2>4, <2>5, <2>6, <2>7 DEF Promise!Put
  <2>9. QED  BY <1>6, <1>9, <2>8 DEF Promise!Next
<1>12. CASE rec.type = "ClearTable"
  <2>1. q.row = 0 /\ q.buf = r.buf /\ latest' = latest
    BY <1>1, <1>2, <1>12 DEF BufAfter, RowAfter
  <2>2. Dropping = {Row}
    BY <1>1, <1>12 DEF Dropping
  <2>3. \A k \in Keys : found'[k] = found[k] \/ (k \in Dropping /\ found'[k] = 0)
    BY <1>8, <1>9, <2>1, <2>2
  <2>4. QED  BY <1>6, <1>7, <2>1, <2>3 DEF Promise!Next, Promise!Forget
<1>13. CASE rec.type = "TsClearAll"
  <2>1. q.row = r.row /\ q.buf = NoPoints /\ latest' = latest
    BY <1>1, <1>2, <1>13 DEF BufAfter, RowAfter
  <2>2. Dropping = TsKeys
    BY <1>1, <1>13 DEF Dropping
  <2>3. disk.manifest = <<>>
    BY <1>1, <1>3, <1>13 DEF LogInv
  <2>4. ASSUME NEW k \in TsKeys PROVE found'[k] = 0
    <3>1. ~(q.buf[k].id > 0)
      BY <2>1 DEF NoPoints, Empty
    <3>2. \A f \in Listed(disk.manifest) : ~Hit(x, k, f)
      BY <2>3 DEF Listed
    <3>3. FromFiles(disk.manifest, x, k) = 0
      BY <1>3, <1>5, <3>2, NoneFound DEF x
    <3>4. QED  BY <1>8, <3>1, <3>3
  <2>5. \A k \in Keys : found'[k] = found[k] \/ (k \in Dropping /\ found'[k] = 0)
    BY <1>8, <1>9, <2>1, <2>2, <2>4
  <2>6. QED  BY <1>6, <1>7, <2>1, <2>5 DEF Promise!Next, Promise!Forget
<1>14. CASE rec.type = "TsFlush"
  <2>1. q.row = r.row /\ latest' = latest /\ q.buf = [k \in TsKeys |-> IF r.buf[k].id > rec.id THEN r.buf[k] ELSE Empty]
    BY <1>1, <1>2, <1>14 DEF BufAfter, RowAfter
  <2>2. rec.id \in Nat /\ \A k \in TsKeys : r.buf[k].id <= rec.id
    BY <1>1, <1>3, <1>14, RecordTypes DEF MemMatches, Marking, LogRecords
  <2>3. \A k \in TsKeys : ~(q.buf[k].id > 0)
    <3>1. \A k \in TsKeys : ~(r.buf[k].id > rec.id)
      BY <1>4, <2>2
    <3>2. \A k \in TsKeys : q.buf[k] = Empty
      BY <2>1, <3>1
    <3>3. QED  BY <3>2 DEF Empty
  <2>4. ASSUME NEW k \in TsKeys PROVE found'[k] = found[k]
    <3>1. CASE r.buf[k].id > 0
      <4> DEFINE f == <<Block[k], flushes>>
      <4>1. f \in Listed(disk.manifest) /\ Holds(x, f, k, r.buf[k].v)
        BY <1>1, <1>3, <1>5, <1>14, <3>1 DEF FlushedInv, x
      <4>2. Hit(x, k, f) /\ x[f][k] = r.buf[k].v
        BY <4>1 DEF Holds, Hit
      <4>3. \A g \in Listed(disk.manifest) : g[2] <= flushes
        BY <1>5 DEF FilesInv, Listed
      <4>4. f[2] = flushes
        OBVIOUS
      <4> HIDE DEF f
      <4>5. NewestListed(disk.manifest, x, k, f)
        BY <4>1, <4>2, <4>3, <4>4 DEF NewestListed
      <4>6. FromFiles(disk.manifest, x, k) = x[f][k]
        BY <1>3, <1>5, <4>5, NewestWins DEF x
      <4>7. QED  BY <1>8, <2>3, <3>1, <4>2, <4>6
    <3>2. CASE ~(r.buf[k].id > 0)
      BY <1>8, <2>3, <3>2
    <3>3. QED  BY <3>1, <3>2
  <2>5. \A k \in Keys : found'[k] = found[k]
    BY <1>8, <1>9, <2>1, <2>4
  <2>6. QED  BY <1>6, <1>7, <2>1, <2>5 DEF Promise!Next, Promise!Forget
<1>15. QED
  <2>1. rec \in LogRecords /\ rec.type # "seq"
    BY <1>1 DEF LogRecords, Records, Points
  <2>2. QED  BY <1>10, <1>11, <1>12, <1>13, <1>14, <2>1, RecordTypes

-----------------------------------------------------------------------------
(***************************************************************************)
(* A flush: a file nobody lists, then the manifest that lists it.          *)
(***************************************************************************)
LEMMA InOrderAppend ==
  ASSUME NEW m \in Seq(Files), NEW f \in Files, InFlushOrder(m), \A g \in Listed(m) : g[1] < f[1] /\ g[2] <= f[2]
  PROVE  InFlushOrder(Append(m, f))
<1> DEFINE y == Append(m, f)
<1>1. PICK p \in Nat : p = Len(m)
  OBVIOUS
<1>2. DOMAIN y = 1..(p + 1) /\ DOMAIN m = 1..p /\ y[p + 1] = f /\ \A i \in 1..p : y[i] = m[i]
  BY <1>1
<1>3. \A i \in 1..p : m[i] \in Files /\ m[i][1] < f[1] /\ m[i][2] <= f[2] /\ m[i][1] \in Nat /\ f[1] \in Nat
  <2>1. \A i \in 1..p : m[i] \in Listed(m) /\ m[i] \in Files
    BY <1>2 DEF Listed
  <2>2. f[1] \in Nat /\ \A g \in Files : g[1] \in Nat
    BY DEF Files
  <2>3. QED  BY <2>1, <2>2
<1> HIDE DEF y
<1>4. ASSUME NEW i \in 1..(p + 1), NEW j \in 1..(p + 1), i < j
      PROVE  y[i][2] <= y[j][2] /\ (y[i][1] = y[j][1] => y[i][2] < y[j][2])
  <2>1. i \in 1..p /\ y[i] = m[i]
    BY <1>2, <1>4
  <2>2. CASE j = p + 1
    BY <1>2, <1>3, <2>1, <2>2
  <2>3. CASE j # p + 1
    <3>1. j \in 1..p /\ y[j] = m[j]
      BY <1>2, <2>3
    <3>2. QED  BY <1>2, <1>4, <2>1, <3>1 DEF InFlushOrder
  <2>4. QED  BY <2>2, <2>3
<1>5. InFlushOrder(y)
  BY <1>2, <1>4 DEF InFlushOrder
<1>6. QED  BY <1>5 DEF y

LEMMA FlushFileFiles ==
  ASSUME LakeInv, FileInv, FlushFile
  PROVE  FileInv' /\ Promise!Next
<1> DEFINE b == MinOf(job.todo)
           n == flushes
           name == <<b, n>>
           rows == [k \in {q \in Buffered(mem) : Block[q] = b} |-> mem.buf[k].v]
           x == disk.files
           y == [f \in DOMAIN x \cup {name} |-> IF f = name THEN rows ELSE x[f]]
           todo == job.todo \ {b}
           M == disk.manifest
<1>0. LakeInv' /\ open(disk').buf = open(disk).buf /\ open(disk').row = open(disk).row
      /\ open(disk').manifest = M /\ disk'.manifest = M
  BY FlushFileKeeps
<1>1. /\ job.op = "files" /\ job.todo # {} /\ mem.manifest = M /\ open(disk).manifest = M /\ M \in Seq(Files)
  BY DisksAgree DEF FlushFile
<1>2. /\ job.todo \subseteq Nat /\ job.written \in Seq(Files) /\ job.stamp \in Nat /\ DiskTypes(disk) /\ mem \in LakeStates
      /\ job = [op |-> "files", by |-> job.by, then |-> job.then, written |-> job.written, todo |-> job.todo, stamp |-> job.stamp]
      /\ n \in Nat
  BY <1>1, WorkingIs, JobIs
<1>3. /\ job.stamp = n /\ InFlushOrder(job.written)
      /\ \A i \in DOMAIN M : M[i][2] < n
      /\ \A f \in Listed(job.written) : f[2] = n /\ (\A c \in job.todo : f[1] < c)
           /\ f \in DOMAIN x /\ \A k \in DOMAIN x[f] : mem.buf[k].id > 0
      /\ \A k \in TsKeys : mem.buf[k].id > 0 =>
           Block[k] \in job.todo \/ (<<Block[k], n>> \in Listed(job.written) /\ Holds(x, <<Block[k], n>>, k, mem.buf[k].v))
  BY <1>1 DEF FileInv, WritingInv
<1>4. /\ disk' = [disk EXCEPT !.files = y] /\ found' = ViewOf(open(disk'), disk'.files)
      /\ job' = [job EXCEPT !.todo = todo, !.written = Append(job.written, name)]
      /\ UNCHANGED <<mem, latest, flushes>>
  BY <1>3 DEF FlushFile, Save
<1>5. b \in job.todo /\ b \in Nat /\ \A c \in job.todo : b <= c
  BY <1>1, <1>2, MinIs
<1>6. name \in Files /\ name[1] = b /\ name[2] = n
  BY <1>2, <1>5 DEF Files
<1> DEFINE written == Append(job.written, name)
<1>7. DOMAIN y = DOMAIN x \cup {name} /\ y[name] = rows /\ \A f \in DOMAIN x : f # name => y[f] = x[f]
  OBVIOUS
<1>8. /\ \A k \in DOMAIN rows : k \in TsKeys /\ Block[k] = b /\ mem.buf[k].id > 0 /\ rows[k] = mem.buf[k].v /\ rows[k] \in Nat
      /\ \A k \in TsKeys : mem.buf[k].id > 0 /\ Block[k] = b => k \in DOMAIN rows
  BY <1>2, StateParts DEF Buffered
<1>9. /\ InFlushOrder(M) /\ FilesOk(x) /\ (\A i \in DOMAIN M : M[i][2] <= n) /\ found = ViewOf(open(disk), x)
  BY DEF FileInv, FilesInv
<1> HIDE DEF y, rows, name, b, n, todo, M, x
<1>10. disk'.files = y
  BY <1>2, <1>4, Put_files
<1>11. FilesOk(y)
  <2>1. ASSUME NEW f \in DOMAIN y, NEW k \in DOMAIN y[f] PROVE k \in TsKeys /\ Block[k] = f[1] /\ y[f][k] \in Nat
    <3>1. CASE f = name
      BY <1>6, <1>7, <1>8, <2>1, <3>1
    <3>2. CASE f # name
      <4>1. f \in DOMAIN x /\ y[f] = x[f]
        BY <1>7, <3>2
      <4>2. QED  BY <1>9, <2>1, <4>1 DEF FilesOk
    <3>3. QED  BY <3>1, <3>2
  <2>2. DOMAIN y \subseteq Files
    BY <1>6, <1>7, <1>9 DEF FilesOk
  <2>3. QED  BY <2>1, <2>2 DEF FilesOk
<1>12. name \notin Listed(M)
  <2>1. \A i \in DOMAIN M : M[i][2] \in Nat /\ M[i][2] < n
    BY <1>1, <1>3 DEF Files
  <2>2. QED  BY <1>2, <1>6, <2>1 DEF Listed
<1>13. found' = found
  <2>1. ASSUME NEW k \in TsKeys PROVE FromFiles(M, x, k) = FromFiles(M, y, k)
    <3>1. \A f \in Listed(M) : (Hit(x, k, f) <=> Hit(y, k, f)) /\ (Hit(x, k, f) => x[f][k] = y[f][k])
      BY <1>7, <1>12 DEF Hit
    <3>2. QED  BY <1>1, <1>9, <1>11, <3>1, SameHits
  <2>2. QED  BY <1>0, <1>1, <1>4, <1>9, <1>10, <2>1, ViewSame
<1>14. written \in Seq(Files) /\ Listed(written) = Listed(job.written) \cup {name} /\ InFlushOrder(written)
  <2>1. \A g \in Listed(job.written) : g[1] < name[1] /\ g[2] <= name[2]
    BY <1>2, <1>3, <1>5, <1>6
  <2>2. written \in Seq(Files)
    BY <1>2, <1>6
  <2>3. Listed(written) = Listed(job.written) \cup {name}
    BY <1>2, <1>6, ListedAppend
  <2>4. InFlushOrder(written)
    BY <1>2, <1>3, <1>6, <2>1, InOrderAppend
  <2>5. QED  BY <2>2, <2>3, <2>4
<1> HIDE DEF written
<1>15. job' = [op |-> "files", by |-> job.by, then |-> job.then, written |-> written, todo |-> todo, stamp |-> job.stamp]
  <2> DEFINE a == [job EXCEPT !.todo = todo]
  <2>1. [job EXCEPT !.todo = todo, !.written = written] = [a EXCEPT !.written = written]
    OBVIOUS
  <2>2. a = [op |-> "files", by |-> job.by, then |-> job.then, written |-> job.written, todo |-> todo, stamp |-> job.stamp]
    BY <1>2
  <2>3. job' = [job EXCEPT !.todo = todo, !.written = written]
    BY <1>4 DEF written
  <2> HIDE DEF a
  <2>4. QED  BY <2>1, <2>2, <2>3
<1>16. job'.op = "files" /\ job'.stamp = n /\ job'.written = written /\ job'.todo = todo
  BY <1>3, <1>15
<1>17. todo \subseteq job.todo /\ b \notin todo /\ \A c \in job.todo : c = b \/ c \in todo
  BY DEF todo
<1>18. \A f \in Listed(written) : f[2] = n /\ (\A c \in todo : f[1] < c)
         /\ f \in DOMAIN y /\ \A k \in DOMAIN y[f] : mem.buf[k].id > 0
  <2>1. ASSUME NEW f \in Listed(written)
        PROVE  f[2] = n /\ (\A c \in todo : f[1] < c) /\ f \in DOMAIN y /\ \A k \in DOMAIN y[f] : mem.buf[k].id > 0
    <3>1. CASE f = name
      <4>1. \A c \in todo : b < c
        BY <1>2, <1>5, <1>17
      <4>2. QED  BY <1>6, <1>7, <1>8, <3>1, <4>1
    <3>2. CASE f # name
      <4>1. f \in Listed(job.written)
        BY <1>14, <2>1, <3>2
      <4>2. f[2] = n /\ (\A c \in job.todo : f[1] < c) /\ f \in DOMAIN x /\ \A k \in DOMAIN x[f] : mem.buf[k].id > 0
        BY <1>3, <4>1
      <4>3. QED  BY <1>7, <1>17, <3>2, <4>2
    <3>3. QED  BY <3>1, <3>2
  <2>2. QED  BY <2>1
<1>19. ASSUME NEW k \in TsKeys, mem.buf[k].id > 0
       PROVE  Block[k] \in todo \/ (<<Block[k], n>> \in Listed(written) /\ Holds(y, <<Block[k], n>>, k, mem.buf[k].v))
  <2>1. CASE Block[k] = b
    <3>1. <<Block[k], n>> = name
      BY <2>1 DEF name
    <3>2. k \in DOMAIN rows /\ rows[k] = mem.buf[k].v
      BY <1>8, <1>19, <2>1
    <3>3. QED  BY <1>7, <1>14, <3>1, <3>2 DEF Holds
  <2>2. CASE Block[k] # b
    <3>1. Block[k] \in job.todo \/ (<<Block[k], n>> \in Listed(job.written) /\ Holds(x, <<Block[k], n>>, k, mem.buf[k].v))
      BY <1>3, <1>19
    <3>2. <<Block[k], n>> # name
      BY <2>2 DEF name
    <3>3. QED  BY <1>7, <1>14, <1>17, <2>2, <3>1, <3>2 DEF Holds
  <2>3. QED  BY <2>1, <2>2
<1>20. WritingInv(mem, y, n, job')
  BY <1>1, <1>3, <1>14, <1>16, <1>18, <1>19 DEF WritingInv
<1>21. FlushedInv(open(disk'), y, n, job') /\ RemovalInv(mem.manifest, y, job')
  BY <1>16 DEF FlushedInv, RemovalInv
<1>22. FilesInv(disk', n)
  BY <1>0, <1>9, <1>10, <1>11 DEF FilesInv
<1>23. mem' = mem /\ flushes' = n /\ latest' = latest
  BY <1>4 DEF n
<1>24. FileInv'
  BY <1>4, <1>10, <1>20, <1>21, <1>22, <1>23 DEF FileInv
<1>25. Dropping' \subseteq Keys
  BY <1>0, DroppingIs DEF LakeInv, LakeTypes
<1>26. QED  BY <1>13, <1>23, <1>24, <1>25, Quiet

LEMMA JoinIs ==
  ASSUME NEW m \in Seq(Files), NEW w \in Seq(Files)
  PROVE  /\ m \o w \in Seq(Files) /\ Listed(m \o w) = Listed(m) \cup Listed(w)
         /\ InFlushOrder(m) /\ InFlushOrder(w) /\ (\A f \in Listed(m), g \in Listed(w) : f[2] < g[2]) => InFlushOrder(m \o w)
<1> DEFINE y == m \o w
<1>1. PICK p \in Nat, q \in Nat : p = Len(m) /\ q = Len(w)
  OBVIOUS
<1>2. /\ y \in Seq(Files) /\ DOMAIN y = 1..(p + q) /\ DOMAIN m = 1..p /\ DOMAIN w = 1..q
      /\ \A i \in 1..(p + q) : y[i] = IF i <= p THEN m[i] ELSE w[i - p]
  BY <1>1
<1> HIDE DEF y
<1>3. Listed(y) = Listed(m) \cup Listed(w)
  <2>1. ASSUME NEW f \in Listed(y) PROVE f \in Listed(m) \cup Listed(w)
    <3>1. PICK i \in 1..(p + q) : f = y[i]
      BY <1>2 DEF Listed
    <3>2. CASE i <= p
      BY <1>2, <3>1, <3>2 DEF Listed
    <3>3. CASE ~(i <= p)
      <4>1. i - p \in 1..q /\ f = w[i - p]
        BY <1>2, <3>1, <3>3
      <4>2. QED  BY <1>2, <4>1 DEF Listed
    <3>4. QED  BY <3>2, <3>3
  <2>2. ASSUME NEW f \in Listed(m) PROVE f \in Listed(y)
    <3>1. PICK i \in 1..p : f = m[i]
      BY <1>2 DEF Listed
    <3>2. i \in 1..(p + q) /\ f = y[i]
      BY <1>2, <3>1
    <3>3. QED  BY <1>2, <3>2 DEF Listed
  <2>3. ASSUME NEW f \in Listed(w) PROVE f \in Listed(y)
    <3>1. PICK i \in 1..q : f = w[i]
      BY <1>2 DEF Listed
    <3>2. i + p \in 1..(p + q) /\ ~(i + p <= p) /\ (i + p) - p = i
      BY <3>1
    <3>3. f = y[i + p]
      BY <1>2, <3>1, <3>2
    <3>4. QED  BY <1>2, <3>2, <3>3 DEF Listed
  <2>4. QED  BY <2>1, <2>2, <2>3
<1>4. ASSUME InFlushOrder(m), InFlushOrder(w), \A f \in Listed(m), g \in Listed(w) : f[2] < g[2]
      PROVE  InFlushOrder(y)
  <2>1. ASSUME NEW i \in 1..(p + q), NEW j \in 1..(p + q), i < j
        PROVE  y[i][2] <= y[j][2] /\ (y[i][1] = y[j][1] => y[i][2] < y[j][2])
    <3>1. CASE j <= p
      <4>1. i \in 1..p /\ j \in 1..p /\ y[i] = m[i] /\ y[j] = m[j]
        BY <1>2, <2>1, <3>1
      <4>2. QED  BY <1>2, <1>4, <2>1, <4>1 DEF InFlushOrder
    <3>2. CASE i <= p /\ ~(j <= p)
      <4>1. i \in 1..p /\ j - p \in 1..q /\ y[i] = m[i] /\ y[j] = w[j - p]
        BY <1>2, <2>1, <3>2
      <4>2. m[i] \in Listed(m) /\ w[j - p] \in Listed(w) /\ m[i] \in Files /\ w[j - p] \in Files
        <5>1. \A e \in 1..p : m[e] \in Listed(m) /\ m[e] \in Files
          BY <1>2 DEF Listed
        <5>2. \A e \in 1..q : w[e] \in Listed(w) /\ w[e] \in Files
          BY <1>2 DEF Listed
        <5>3. QED  BY <4>1, <5>1, <5>2
      <4>3. m[i][2] < w[j - p][2] /\ m[i][2] \in Nat /\ w[j - p][2] \in Nat
        BY <1>4, <4>2 DEF Files
      <4>4. QED  BY <4>1, <4>3
    <3>3. CASE ~(i <= p)
      <4>1. i - p \in 1..q /\ j - p \in 1..q /\ i - p < j - p /\ y[i] = w[i - p] /\ y[j] = w[j - p]
        BY <1>2, <2>1, <3>3
      <4>2. QED  BY <1>2, <1>4, <4>1 DEF InFlushOrder
    <3>4. QED  BY <3>1, <3>2, <3>3
  <2>2. QED  BY <1>2, <2>1 DEF InFlushOrder
<1>5. QED  BY <1>2, <1>3, <1>4 DEF y

LEMMA FlushManifestFiles ==
  ASSUME LakeInv, FileInv, FlushManifest
  PROVE  FileInv' /\ Promise!Next
<1> DEFINE n == flushes
           x == disk.files
           M == disk.manifest
           w == job.written
           buf == mem.buf
<1>0. /\ LakeInv' /\ open(disk').buf = buf /\ open(disk').row = open(disk).row /\ open(disk).buf = buf
      /\ open(disk').manifest = disk'.manifest /\ disk'.files = x /\ disk'.manifest = M \o w
      /\ job'.op = "line" /\ job'.rec.type = "TsFlush"
  BY FlushManifestKeeps
<1>1. /\ job.op = "files" /\ job.todo = {} /\ mem.manifest = M /\ open(disk).manifest = M /\ M \in Seq(Files)
      /\ flushes' = flushes /\ latest' = latest /\ found' = ViewOf(open(disk'), disk'.files)
  BY DisksAgree DEF FlushManifest, Save
<1>2. w \in Seq(Files) /\ n \in Nat /\ mem \in LakeStates
  BY <1>1, WorkingIs, JobIs
<1>3. /\ job.stamp = n /\ InFlushOrder(w) /\ \A i \in DOMAIN M : M[i][2] < n
      /\ \A f \in Listed(w) : f[2] = n /\ f \in DOMAIN x /\ \A k \in DOMAIN x[f] : buf[k].id > 0
      /\ \A k \in TsKeys : buf[k].id > 0 => <<Block[k], n>> \in Listed(w) /\ Holds(x, <<Block[k], n>>, k, buf[k].v)
  BY <1>1 DEF FileInv, WritingInv
<1>4. InFlushOrder(M) /\ FilesOk(x) /\ found = ViewOf(open(disk), x) /\ \A i \in DOMAIN M : M[i][2] <= n
  BY DEF FileInv, FilesInv
<1>5. \A f \in Listed(M) : f[2] < n
  BY <1>3 DEF Listed
<1> DEFINE y == M \o w
<1>6. y \in Seq(Files) /\ Listed(y) = Listed(M) \cup Listed(w) /\ InFlushOrder(y)
  BY <1>1, <1>2, <1>3, <1>4, <1>5, JoinIs
<1> HIDE DEF y, x, M, w, buf, n
<1>7. found' = found
  <2>1. ASSUME NEW k \in TsKeys, ~(buf[k].id > 0) PROVE FromFiles(M, x, k) = FromFiles(y, x, k)
    <3>1. \A f \in Listed(w) : ~Hit(x, k, f)
      BY <1>3, <2>1 DEF Hit
    <3>2. \A f \in Files : (f \in Listed(M) /\ Hit(x, k, f)) <=> (f \in Listed(y) /\ Hit(x, k, f))
      BY <1>6, <3>1
    <3>3. QED  BY <1>1, <1>4, <1>6, <3>2, SameHits
  <2>2. open(disk').manifest = y /\ disk'.files = x
    BY <1>0 DEF y
  <2>3. QED  BY <1>0, <1>1, <1>4, <2>1, <2>2, ViewSame
<1>8. \A i \in DOMAIN y : y[i][2] <= n
  <2>1. \A f \in Listed(y) : f[2] <= n
    <3>1. \A f \in Listed(M) : f[2] <= n
      BY <1>4 DEF Listed
    <3>2. \A f \in Listed(w) : f[2] <= n
      BY <1>2, <1>3
    <3>3. QED  BY <1>6, <3>1, <3>2
  <2>2. QED  BY <2>1 DEF Listed
<1>9. FilesInv(disk', n)
  BY <1>0, <1>4, <1>6, <1>8 DEF FilesInv, y
<1>10. FlushedInv(open(disk'), x, n, job')
  <2>1. ASSUME NEW k \in TsKeys, buf[k].id > 0
        PROVE  <<Block[k], n>> \in Listed(y) /\ Holds(x, <<Block[k], n>>, k, buf[k].v)
    BY <1>3, <1>6, <2>1
  <2>2. open(disk').manifest = y /\ open(disk').buf = buf
    BY <1>0 DEF y
  <2>3. QED  BY <2>1, <2>2 DEF FlushedInv
<1>11. WritingInv(mem', x, n, job') /\ RemovalInv(mem'.manifest, x, job')
  BY <1>0 DEF WritingInv, RemovalInv
<1>12. FileInv'
  BY <1>0, <1>1, <1>9, <1>10, <1>11 DEF FileInv, n
<1>13. Dropping' \subseteq Keys
  BY <1>0, DroppingIs DEF LakeInv, LakeTypes
<1>14. QED  BY <1>1, <1>7, <1>12, <1>13, Quiet

-----------------------------------------------------------------------------
(***************************************************************************)
(* A removal: the oldest file that is left, until none is; then the        *)
(* manifest without them.                                                  *)
(***************************************************************************)
LEMMA RemoveFileFiles ==
  ASSUME LakeInv, FileInv, RemoveFile
  PROVE  FileInv' /\ Promise!Next
<1> DEFINE i == MinOf(job.todo)
           x == disk.files
           M == disk.manifest
           lost == M[i]
           y == [f \in DOMAIN x \ {lost} |-> x[f]]
           todo == job.todo \ {i}
           kept == job.kept
<1>0. LakeInv' /\ open(disk').buf = open(disk).buf /\ open(disk').row = open(disk).row
      /\ open(disk').manifest = M /\ disk'.manifest = M
  BY RemoveFileKeeps
<1>1. /\ job.op \in {"remove", "clear"} /\ job.todo # {} /\ mem.manifest = M /\ open(disk).manifest = M /\ M \in Seq(Files)
  BY DisksAgree DEF RemoveFile
<1>2. /\ job.todo \subseteq Nat /\ DiskTypes(disk)
      /\ job = [op |-> job.op, by |-> job.by, keys |-> job.keys, todo |-> job.todo, kept |-> kept]
  BY <1>1, WorkingIs, JobIs
<1>3. /\ job.todo \subseteq DOMAIN M /\ InFlushOrder(kept) /\ Listed(kept) \subseteq Listed(M)
      /\ \A j \in DOMAIN M : M[j] \in DOMAIN x => j \in job.todo \/ M[j] \in Listed(kept)
      /\ \A j \in job.todo, f \in Listed(kept) : f[1] # M[j][1]
      /\ \A j \in job.todo, k \in TsKeys : Block[k] = M[j][1] => k \in job.keys
  BY <1>1 DEF FileInv, RemovalInv
<1>4. /\ disk' = [disk EXCEPT !.files = y] /\ found' = ViewOf(open(disk'), disk'.files) /\ job' = [job EXCEPT !.todo = todo]
      /\ UNCHANGED <<mem, latest, flushes>>
  BY <1>1 DEF RemoveFile, Save
<1>5. i \in job.todo /\ i \in DOMAIN M /\ i \in Nat /\ \A j \in job.todo : i <= j
  BY <1>1, <1>2, <1>3, MinIs
<1>6. InFlushOrder(M) /\ FilesOk(x) /\ found = ViewOf(open(disk), x) /\ \A j \in DOMAIN M : M[j][2] <= flushes
  BY DEF FileInv, FilesInv
<1>7. DOMAIN y = DOMAIN x \ {lost} /\ \A f \in DOMAIN y : y[f] = x[f]
  OBVIOUS
<1>8. lost = M[i] /\ lost \in Listed(M) /\ todo = job.todo \ {i}
  BY <1>5 DEF Listed
<1> HIDE DEF i, x, M, lost, y, todo, kept
<1>9. disk'.files = y
  BY <1>2, <1>4, Put_files
<1>10. FilesOk(y)
  BY <1>6, <1>7 DEF FilesOk
<1>11. \A f \in Listed(M), k \in TsKeys :
          /\ f # lost => (Hit(y, k, f) <=> Hit(x, k, f)) /\ (Hit(x, k, f) => y[f][k] = x[f][k])
          /\ ~Hit(y, k, lost)
  BY <1>7 DEF Hit
\* Of the files that hold a key, the first to go is the oldest.
<1>12. ASSUME NEW k \in TsKeys, Hit(x, k, lost), NEW f \in Listed(M), Hit(x, k, f), f # lost PROVE lost[2] < f[2]
  <2>1. PICK j \in DOMAIN M : f = M[j]
    BY DEF Listed
  <2>2. lost[1] = Block[k] /\ f[1] = Block[k]
    BY <1>6, <1>12, HitIs
  <2>3. f \in DOMAIN x
    BY <1>12 DEF Hit
  <2>4. j \in job.todo
    BY <1>3, <1>5, <1>8, <2>1, <2>2, <2>3
  <2>5. i <= j /\ i # j /\ i \in Nat /\ j \in Nat
    BY <1>2, <1>5, <1>8, <1>12, <2>1, <2>4
  <2>6. i < j
    BY <2>5
  <2>7. QED  BY <1>5, <1>6, <1>8, <2>1, <2>2, <2>6 DEF InFlushOrder
<1>13. ASSUME NEW k \in TsKeys
       PROVE  FromFiles(M, y, k) = FromFiles(M, x, k) \/ (k \in job.keys /\ FromFiles(M, y, k) = 0)
  <2>1. CASE ~Hit(x, k, lost)
    <3>1. \A f \in Listed(M) : (Hit(x, k, f) <=> Hit(y, k, f)) /\ (Hit(x, k, f) => x[f][k] = y[f][k])
      BY <1>11, <2>1
    <3>2. QED  BY <1>1, <1>6, <1>10, <3>1, SameHits
  <2>2. CASE Hit(x, k, lost) /\ \E f \in Listed(M) : Hit(x, k, f) /\ f # lost
    <3>1. PICK f \in Listed(M) : NewestListed(M, x, k, f) /\ FromFiles(M, x, k) = x[f][k]
      BY <1>1, <1>6, <2>2, NewestIs
    <3>2. f # lost
      <4>1. PICK g \in Listed(M) : Hit(x, k, g) /\ g # lost
        BY <2>2
      <4>2. lost[2] < g[2] /\ lost[2] \in Nat /\ g[2] \in Nat
        BY <1>6, <1>12, <2>2, <4>1, HitIs
      <4>3. g[2] <= f[2]
        BY <3>1, <4>1 DEF NewestListed
      <4>4. QED  BY <4>2, <4>3
    <3>3. NewestListed(M, y, k, f) /\ y[f][k] = x[f][k]
      BY <1>11, <3>1, <3>2 DEF NewestListed
    <3>4. FromFiles(M, y, k) = y[f][k]
      BY <1>1, <1>6, <1>10, <3>3, NewestWins
    <3>5. QED  BY <3>1, <3>3, <3>4
  <2>3. CASE Hit(x, k, lost) /\ ~ \E f \in Listed(M) : Hit(x, k, f) /\ f # lost
    <3>1. \A f \in Listed(M) : ~Hit(y, k, f)
      BY <1>11, <2>3
    <3>2. FromFiles(M, y, k) = 0
      BY <1>1, <1>6, <1>10, <3>1, NoneFound
    <3>3. lost[1] = Block[k]
      BY <1>6, <2>3, HitIs
    <3>4. k \in job.keys
      BY <1>3, <1>5, <1>8, <3>3
    <3>5. QED  BY <3>2, <3>4
  <2>4. QED  BY <2>1, <2>2, <2>3
<1>14. Promise!Next
  <2>1. Dropping = job.keys
    BY <1>1 DEF Dropping
  <2>2. Dropping' \subseteq Keys
    BY <1>0, DroppingIs DEF LakeInv, LakeTypes
  <2>3. \A k \in Keys : found'[k] = found[k] \/ (k \in job.keys /\ found'[k] = 0)
    <3>1. found = ViewOf(open(disk), x) /\ found' = ViewOf(open(disk'), y)
      BY <1>4, <1>6, <1>9
    <3>2. found'[Row] = found[Row]
      BY <1>0, <3>1, ViewIs
    <3>3. ASSUME NEW k \in TsKeys PROVE found'[k] = found[k] \/ (k \in job.keys /\ found'[k] = 0)
      <4>1. CASE open(disk).buf[k].id > 0
        <5>1. found[k] = open(disk).buf[k].v
          BY <3>1, <4>1, ViewIs
        <5>2. found'[k] = open(disk').buf[k].v
          BY <1>0, <3>1, <4>1, ViewIs
        <5>3. QED  BY <1>0, <5>1, <5>2
      <4>2. CASE ~(open(disk).buf[k].id > 0)
        <5>1. found[k] = FromFiles(M, x, k)
          BY <1>1, <3>1, <4>2, ViewIs
        <5>2. found'[k] = FromFiles(M, y, k)
          BY <1>0, <3>1, <4>2, ViewIs
        <5>3. QED  BY <1>13, <5>1, <5>2
      <4>3. QED  BY <4>1, <4>2
    <3>4. QED  BY <3>2, <3>3 DEF Keys
  <2>4. latest' = latest
    BY <1>4
  <2>5. QED  BY <2>1, <2>2, <2>3, <2>4 DEF Promise!Next, Promise!Forget
<1>15. job' = [op |-> job.op, by |-> job.by, keys |-> job.keys, todo |-> todo, kept |-> kept]
  BY <1>2, <1>4
<1>16. job'.op = job.op /\ job'.keys = job.keys /\ job'.todo = todo /\ job'.kept = kept
  BY <1>15
<1>17. \A j \in DOMAIN M : M[j] \in DOMAIN y => j \in todo \/ M[j] \in Listed(kept)
  BY <1>3, <1>7, <1>8
<1>18. RemovalInv(M, y, job')
  BY <1>3, <1>8, <1>16, <1>17 DEF RemovalInv
<1>19. WritingInv(mem', y, flushes', job') /\ FlushedInv(open(disk'), y, flushes', job')
  BY <1>1, <1>16 DEF WritingInv, FlushedInv
<1>20. FilesInv(disk', flushes')
  BY <1>0, <1>4, <1>6, <1>9, <1>10 DEF FilesInv
<1>21. mem'.manifest = M
  BY <1>1, <1>4
<1>22. FileInv'
  BY <1>4, <1>9, <1>18, <1>19, <1>20, <1>21 DEF FileInv
<1>23. QED  BY <1>14, <1>22

LEMMA WriteKeptFiles ==
  ASSUME LakeInv, FileInv, WriteKept
  PROVE  FileInv' /\ Promise!Next
<1> DEFINE x == disk.files
           M == disk.manifest
           kept == job.kept
<1>0. /\ LakeInv' /\ open(disk').buf = open(disk).buf /\ open(disk').row = open(disk).row
      /\ open(disk').manifest = kept /\ disk'.files = x /\ disk'.manifest = kept
      /\ job' = NoJob \/ (job'.op = "line" /\ job'.rec = [type |-> "TsClearAll"])
  BY WriteKeptKeeps
<1>1. /\ job.op \in {"remove", "clear"} /\ job.todo = {} /\ mem.manifest = M /\ open(disk).manifest = M /\ M \in Seq(Files)
      /\ flushes' = flushes /\ latest' = latest /\ found' = ViewOf(open(disk'), disk'.files)
  BY DisksAgree DEF WriteKept, Save
<1>2. kept \in Seq(Files)
  BY <1>1, WorkingIs, JobIs
<1>3. /\ InFlushOrder(kept) /\ Listed(kept) \subseteq Listed(M)
      /\ \A j \in DOMAIN M : M[j] \in DOMAIN x => M[j] \in Listed(kept)
  BY <1>1 DEF FileInv, RemovalInv
<1>4. InFlushOrder(M) /\ FilesOk(x) /\ found = ViewOf(open(disk), x) /\ \A j \in DOMAIN M : M[j][2] <= flushes
  BY DEF FileInv, FilesInv
<1> HIDE DEF x, M, kept
<1>5. found' = found
  <2>1. ASSUME NEW k \in TsKeys PROVE FromFiles(M, x, k) = FromFiles(kept, x, k)
    <3>1. \A f \in Files : (f \in Listed(M) /\ Hit(x, k, f)) <=> (f \in Listed(kept) /\ Hit(x, k, f))
      BY <1>3 DEF Hit, Listed
    <3>2. QED  BY <1>1, <1>2, <1>3, <1>4, <3>1, SameHits
  <2>2. QED  BY <1>0, <1>1, <1>4, <2>1, ViewSame
<1>6. \A j \in DOMAIN kept : kept[j][2] <= flushes
  <2>1. \A f \in Listed(M) : f[2] <= flushes
    BY <1>4 DEF Listed
  <2>2. \A j \in DOMAIN kept : kept[j] \in Listed(M)
    BY <1>3 DEF Listed
  <2>3. QED  BY <2>1, <2>2
<1>7. FilesInv(disk', flushes')
  BY <1>0, <1>1, <1>3, <1>4, <1>6 DEF FilesInv
<1>8. Beyond(job')
  BY <1>0, NoJobIs DEF Beyond
<1>9. FileInv'
  BY <1>1, <1>7, <1>8, BeyondFiles DEF FileInv
<1>10. Dropping' \subseteq Keys
  BY <1>0, DroppingIs DEF LakeInv, LakeTypes
<1>11. QED  BY <1>1, <1>5, <1>9, <1>10, Quiet

-----------------------------------------------------------------------------
(***************************************************************************)
(* The whole.                                                              *)
(***************************************************************************)
LEMMA FilesStart == Init => FileInv /\ Promise!Init
<1> SUFFICES ASSUME Init PROVE FileInv /\ Promise!Init
  OBVIOUS
<1>1. /\ disk = EmptyDisk /\ mem = open(EmptyDisk) /\ job = NoJob /\ latest = [k \in Keys |-> 0] /\ flushes = 0
      /\ found = ViewOf(mem, disk.files)
  BY DEF Init
<1>2. Beyond(job) /\ job.op = "none"
  BY <1>1, NoJobIs DEF Beyond
<1>3. disk.files = <<>> /\ disk.manifest = <<>> /\ disk.current = 0 /\ disk.wal = <<>>
  BY <1>1 DEF EmptyDisk
<1>4. FilesInv(disk, flushes)
  BY <1>3 DEF FilesInv, FilesOk, InFlushOrder
<1>5. FileInv
  BY <1>1, <1>2, <1>4, BeyondFiles DEF FileInv
<1>6. DiskTypes(disk) /\ WholeCheckpoint(disk)
  BY LakeStart, WholeNow
<1>7. open(disk).buf = NoPoints /\ open(disk).row = 0 /\ open(disk).manifest = <<>>
  <2>1. load_tables(disk) = Fresh
    BY <1>3 DEF load_tables
  <2>2. Fresh \in LakeStates
    BY FreshIs
  <2>3. Replayed(disk.wal, load_tables(disk)) = Fresh
    BY <1>3, <2>1, <2>2, ReplayEmpty
  <2>4. Fresh.buf = NoPoints /\ Fresh.row = 0
    BY DEF Fresh
  <2>5. QED  BY <1>3, <1>6, <2>3, <2>4, OpenGives
<1>8. ASSUME NEW k \in Keys PROVE found[k] = 0
  <2>1. CASE k = Row
    BY <1>1, <1>7, <2>1, ViewIs
  <2>2. CASE k \in TsKeys
    <3>1. ~(open(disk).buf[k].id > 0)
      BY <1>7, <2>2 DEF NoPoints, Empty
    <3>2. found[k] = FromFiles(open(disk).manifest, disk.files, k)
      BY <1>1, <2>2, <3>1, ViewIs
    <3> DEFINE none == <<>>
    <3>3. none \in Seq(Files) /\ InFlushOrder(none) /\ Listed(none) = {}
      BY DEF InFlushOrder, Listed
    <3>4. FilesOk(disk.files)
      BY <1>4 DEF FilesInv
    <3> HIDE DEF none
    <3>5. FromFiles(none, disk.files, k) = 0
      BY <3>3, <3>4, NoneFound
    <3>6. QED  BY <1>7, <3>2, <3>5 DEF none
  <2>3. QED  BY <2>1, <2>2 DEF Keys
<1>9. found = [k \in Keys |-> 0]
  BY <1>1, <1>8, ViewIs
<1>10. Dropping = {}
  BY <1>2 DEF Dropping
<1>11. QED  BY <1>1, <1>5, <1>9, <1>10 DEF Promise!Init

LEMMA FilesStep ==
  ASSUME ~SplitLine, LakeInv, FileInv, [Next]_vars
  PROVE  FileInv' /\ [Promise!Next]_(Promise!vars)
<1>1. LakeInv'
  BY LakeStep
<1>2. ASSUME NEW t \in Threads, Call(t) PROVE FileInv' /\ Promise!Next
  BY <1>1, <1>2, CallFiles
<1>3. CASE WalLine
  BY <1>3, WalLineFiles
<1>4. CASE Newline \/ WriteTable \/ WriteCurrent \/ wal_head \/ Sweep
  BY <1>4, CheckpointFiles
<1>5. CASE FlushFile
  BY <1>5, FlushFileFiles
<1>6. CASE FlushManifest
  BY <1>6, FlushManifestFiles
<1>7. CASE RemoveFile
  BY <1>7, RemoveFileFiles
<1>8. CASE WriteKept
  BY <1>8, WriteKeptFiles
<1>9. CASE Crash \/ Open
  BY <1>1, <1>9, KilledFiles
<1>10. CASE UNCHANGED vars
  <2>1. FileInv'
    BY <1>10 DEF FileInv, vars
  <2>2. UNCHANGED Promise!vars
    BY <1>10 DEF vars, Promise!vars, Dropping
  <2>3. QED  BY <2>1, <2>2
<1>11. QED
  BY <1>2, <1>3, <1>4, <1>5, <1>6, <1>7, <1>8, <1>9, <1>10 DEF Next

\* With whole lines again: no kill, flush, checkpoint or reopening loses a
\* written value, brings back an overwritten or a dropped one, or changes what
\* can be found; a removal takes the oldest file of a key first, so that what
\* it leaves half done never shows an older value (parquet.rs:14-23).
THEOREM LakeKeepsPromise == ASSUME ~SplitLine PROVE Spec => CrashSafe
<1>1. Init => LakeInv /\ FileInv /\ Promise!Init
  BY LakeStart, FilesStart
<1>2. LakeInv /\ FileInv /\ [Next]_vars => LakeInv' /\ FileInv' /\ [Promise!Next]_(Promise!vars)
  BY LakeStep, FilesStep
<1>3. QED  BY <1>1, <1>2, PTL DEF Spec, CrashSafe, Promise!Spec
=============================================================================
