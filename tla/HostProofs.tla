------------------------------ MODULE HostProofs ------------------------------
(***************************************************************************)
(* Proofs about the process around the runtime: what it shows of its nodes *)
(* (NodeStatus), the ids it hands out (Snowflake), how it boots            *)
(* (ConfigLoad) and what it does for a loaded module (ModuleHost).         *)
(***************************************************************************)
EXTENDS NodeStatus, Snowflake, ConfigLoad, ModuleHost, FiniteSetTheorems, WellFoundedInduction, TLAPS

LEMMA LeastOf ==
  ASSUME NEW S \in SUBSET Nat, S # {}
  PROVE  \E x \in S : \A y \in S : x <= y
<1>1. PICK x \in S : \A y \in S : ~ (<<y, x>> \in OpToRel(<, Nat))
  BY NatLessThanWellFounded, WFMin
<1>2. ASSUME NEW y \in S PROVE x <= y
  <2>1. y < x => <<y, x>> \in OpToRel(<, Nat)
    BY DEF OpToRel
  <2>2. x \in Nat /\ y \in Nat /\ ~(y < x)
    BY <1>1, <2>1
  <2>3. QED  BY <2>2
<1>3. QED  BY <1>1, <1>2

-----------------------------------------------------------------------------
(***************************************************************************)
(* Where a handler is between the change of the map and the revision,      *)
(* what was read under the present revision may be from before or after    *)
(* the change; once the revision has moved, nothing carries it any more,   *)
(* because no revision or generation is ahead of the present one.          *)
(***************************************************************************)
Events == [kind : Kind, slot : Int]

Views == [generation : Nat, rev : Nat, nodes : [Names -> Int], errors : [Names -> Events \cup {NoFault}],
          counts : [Names -> Nat]]

Bumping == handler \in {"bump_changed", "bump"}

Presence(errors) == \A n \in Names : (errors[n] = NoFault) <=> (by_node[n] = NoFault)

NotAhead(v) == v.generation <= generation /\ v.rev <= rev

Agrees(v) ==
  /\ v.generation = generation => v.nodes = nodes
  /\ v.rev = rev /\ ~Bumping => Presence(v.errors)

StatusInv ==
  /\ nodes \in [Names -> Int] /\ by_node \in [Names -> Events \cup {NoFault}] /\ counts \in [Names -> Nat]
  /\ rev \in Nat /\ generation \in Nat /\ inc \in Int /\ events \in Seq(Events) /\ event \in Events
  /\ handler \in {"idle", "lookup", "report", "count", "bump", "bump_changed"}
  /\ cache = NoCache \/ (cache \in Views /\ NotAhead(cache) /\ Agrees(cache))
  /\ status \in {"errors", "counts", "publish"} => view \in Views /\ NotAhead(view)
  /\ status \in {"counts", "publish"} => Agrees(view)

LEMMA StatusStart == Init => StatusInv
  BY DEF Init, StatusInv, NoSlot, Events, Kind

WithErrors(v, N, E) == [v EXCEPT !.nodes = N, !.errors = E]

LEMMA ViewOfErrors ==
  ASSUME NEW v \in Views, NEW N \in [Names -> Int], NEW E \in [Names -> Events \cup {NoFault}]
  PROVE  LET w == WithErrors(v, N, E)
         IN  w \in Views /\ w.generation = v.generation /\ w.rev = v.rev /\ w.nodes = N /\ w.errors = E
  BY DEF Views, WithErrors

LEMMA ViewOfCounts ==
  ASSUME NEW v \in Views, NEW C \in [Names -> Nat]
  PROVE  LET w == [v EXCEPT !.counts = C]
         IN  w \in Views /\ w.generation = v.generation /\ w.rev = v.rev /\ w.nodes = v.nodes /\ w.errors = v.errors
  BY DEF Views

\* Steps that change neither graph nor faults, nor what was read of them.
LEMMA NothingRead ==
  ASSUME StatusInv, UNCHANGED <<nodes, inc, generation, by_node, rev, cache, view>>,
         counts' \in [Names -> Nat], Bumping' = Bumping, events' \in Seq(Events), event' \in Events,
         handler' \in {"idle", "lookup", "report", "count", "bump", "bump_changed"},
         status' = status \/ status' \in {"idle", "load"}
  PROVE  StatusInv'
<1>1. (NotAhead(cache) => NotAhead(cache)') /\ (Agrees(cache) => Agrees(cache)')
  BY DEF NotAhead, Agrees, Presence
<1>2. (NotAhead(view) => NotAhead(view)') /\ (Agrees(view) => Agrees(view)')
  BY DEF NotAhead, Agrees, Presence
<1>3. QED  BY <1>1, <1>2 DEF StatusInv

LEMMA SetKeeps ==
  ASSUME StatusInv, set_by_node
  PROVE  StatusInv'
<1> DEFINE new == IF event.kind = "Recovered" THEN NoFault ELSE [kind |-> event.kind, slot |-> event.slot]
<1>1. /\ by_node' = [by_node EXCEPT ![name] = new] /\ handler = "report"
      /\ handler' = IF (by_node[name] = NoFault) # (new = NoFault) THEN "bump_changed" ELSE "count"
      /\ UNCHANGED <<nodes, inc, generation, counts, rev, cache, view, status>>
  BY DEF set_by_node, graphVars, sVars
<1>2. new \in Events \cup {NoFault} /\ events' = events /\ event' = event
  BY DEF Events, StatusInv, set_by_node
<1> HIDE DEF new
<1>3. by_node' \in [Names -> Events \cup {NoFault}]
  BY <1>1, <1>2 DEF StatusInv
<1>4. ~Bumping /\ handler' \in {"count", "bump_changed"}
  BY <1>1 DEF Bumping
<1>5. ~Bumping' => \A n \in Names : (by_node'[n] = NoFault) <=> (by_node[n] = NoFault)
  BY <1>1, <1>4 DEF Bumping, StatusInv
<1>6. /\ NotAhead(cache) => NotAhead(cache)'
      /\ NotAhead(view) => NotAhead(view)'
  BY <1>1 DEF NotAhead
<1>7. Agrees(cache) => Agrees(cache)'
  BY <1>1, <1>4, <1>5 DEF Agrees, Presence
<1>8. Agrees(view) => Agrees(view)'
  BY <1>1, <1>4, <1>5 DEF Agrees, Presence
<1>9. QED  BY <1>1, <1>2, <1>3, <1>4, <1>6, <1>7, <1>8 DEF StatusInv

LEMMA BumpKeeps ==
  ASSUME StatusInv, set_rev
  PROVE  StatusInv'
<1>1. /\ rev' = rev + 1 /\ handler' = "idle"
      /\ UNCHANGED <<nodes, inc, generation, by_node, counts, cache, view, status, events, event>>
  BY DEF set_rev, graphVars, sVars
<1>2. cache \in Views /\ NotAhead(cache) /\ Agrees(cache) => NotAhead(cache)' /\ Agrees(cache)'
  BY <1>1 DEF NotAhead, Agrees, StatusInv, Views, Presence, Bumping
<1>3. view \in Views /\ NotAhead(view) => NotAhead(view)'
  BY <1>1 DEF NotAhead, StatusInv, Views
<1>4. view \in Views /\ NotAhead(view) /\ Agrees(view) => Agrees(view)'
  BY <1>1 DEF NotAhead, Agrees, StatusInv, Views, Presence, Bumping
<1>5. QED  BY <1>1, <1>2, <1>3, <1>4 DEF StatusInv

LEMMA ReloadsKeep ==
  ASSUME StatusInv, NEW keep \in SUBSET Names, reload(keep)
  PROVE  StatusInv'
<1>1. /\ generation' = generation + 1
      /\ UNCHANGED <<by_node, counts, rev, cache, view, status, handler, events, event>>
  BY DEF reload, errVars, sVars, hVars
<1>2. nodes' \in [Names -> Int] /\ inc' \in Int
  <2> DEFINE new == keep \ Registered
  <2>1. PICK slot \in [new -> inc .. inc + Cardinality(new) - 1] :
          nodes' = [ n \in Names |-> IF n \in new THEN slot[n] ELSE IF n \in keep THEN nodes[n] ELSE NoSlot ]
    BY DEF reload
  <2>2. IsFiniteSet(new)
    BY StatusAssumption, FS_Subset
  <2>3. Cardinality(new) \in Nat
    BY <2>2, FS_CardinalityType
  <2> HIDE DEF new
  <2>4. \A n \in new : slot[n] \in Int
    BY <2>1, <2>3 DEF StatusInv
  <2>5. nodes' \in [Names -> Int]
    BY <2>1, <2>4 DEF StatusInv, NoSlot
  <2>6. inc' \in Int
    BY <2>3 DEF reload, StatusInv, new
  <2>7. QED  BY <2>5, <2>6
<1>3. cache \in Views /\ NotAhead(cache) /\ Agrees(cache) => NotAhead(cache)' /\ Agrees(cache)'
  BY <1>1 DEF NotAhead, Agrees, StatusInv, Views, Presence, Bumping
<1>4. view \in Views /\ NotAhead(view) => NotAhead(view)' /\ (Agrees(view) => Agrees(view)')
  BY <1>1 DEF NotAhead, Agrees, StatusInv, Views, Presence, Bumping
<1>5. QED  BY <1>1, <1>2, <1>3, <1>4 DEF StatusInv

\* A status call that finds no valid snapshot, and builds and publishes one.
LEMMA TopologyKeeps ==
  ASSUME StatusInv, topology
  PROVE  StatusInv'
<1>1. /\ UNCHANGED <<nodes, inc, generation, by_node, counts, rev, handler, events, event>>
      /\ nodes \in [Names -> Int] /\ by_node \in [Names -> Events \cup {NoFault}] /\ counts \in [Names -> Nat]
      /\ generation \in Nat /\ rev \in Nat
  BY DEF StatusInv, topology, topology_load, build_errors, build_counts, topology_publish, graphVars, errVars, hVars
<1>2. /\ cache' = cache /\ NotAhead(cache) => NotAhead(cache)'
      /\ cache' = cache /\ Agrees(cache) => Agrees(cache)'
  BY <1>1 DEF NotAhead, Agrees, Presence, Bumping
<1>3. ASSUME NEW v, view' = v \/ cache' = v, NotAhead(v)
      PROVE  (view' = v => NotAhead(view)') /\ (cache' = v => NotAhead(cache)')
  BY <1>1, <1>3 DEF NotAhead
<1>4. ASSUME NEW v, Agrees(v)
      PROVE  (view' = v => Agrees(view)') /\ (cache' = v => Agrees(cache)')
  BY <1>1, <1>4 DEF Agrees, Presence, Bumping
<1>5. CASE topology_load
  <2> DEFINE v == [generation |-> generation, rev |-> rev, nodes |-> nodes, errors |-> by_node, counts |-> counts]
  <2>1. v \in Views /\ NotAhead(v)
    BY <1>1 DEF Views, NotAhead
  <2>2. cache' = cache /\ (status' = "idle" \/ (status' = "errors" /\ view' = v))
    BY <1>5 DEF topology_load
  <2> HIDE DEF v
  <2>3. QED  BY <1>1, <1>2, <1>3, <2>1, <2>2 DEF StatusInv
<1>6. CASE build_errors
  <2> DEFINE v == WithErrors(view, nodes, by_node)
  <2>1. cache' = cache /\ status' = "counts" /\ view' = v /\ view \in Views /\ NotAhead(view)
    BY <1>6 DEF build_errors, StatusInv, WithErrors
  <2>2. /\ v \in Views /\ v.generation = view.generation /\ v.rev = view.rev
        /\ v.nodes = nodes /\ v.errors = by_node
    BY <1>1, <2>1, ViewOfErrors
  <2> HIDE DEF v
  <2>3. NotAhead(v) /\ Agrees(v)
    BY <2>1, <2>2 DEF NotAhead, Agrees, Presence
  <2>4. QED  BY <1>1, <1>2, <1>3, <1>4, <2>1, <2>2, <2>3 DEF StatusInv
<1>7. CASE build_counts
  <2> DEFINE v == [view EXCEPT !.counts = counts]
  <2>1. cache' = cache /\ status' = "publish" /\ view' = v /\ view \in Views /\ NotAhead(view) /\ Agrees(view)
    BY <1>7 DEF build_counts, StatusInv
  <2>2. /\ v \in Views /\ v.generation = view.generation /\ v.rev = view.rev
        /\ v.nodes = view.nodes /\ v.errors = view.errors
    BY <1>1, <2>1, ViewOfCounts
  <2> HIDE DEF v
  <2>3. NotAhead(v) /\ Agrees(v)
    BY <2>1, <2>2 DEF NotAhead, Agrees, Presence
  <2>4. QED  BY <1>1, <1>2, <1>3, <1>4, <2>1, <2>2, <2>3 DEF StatusInv
<1>8. CASE topology_publish
  <2>1. /\ view' = view /\ status' = "idle" /\ view \in Views /\ NotAhead(view) /\ Agrees(view)
        /\ cache' = cache \/ cache' = view
    BY <1>8 DEF topology_publish, StatusInv
  <2>2. QED  BY <1>1, <1>2, <1>3, <1>4, <2>1 DEF StatusInv
<1>9. QED  BY <1>5, <1>6, <1>7, <1>8 DEF topology

LEMMA StatusStep == StatusInv /\ [Next]_vars => StatusInv'
<1> SUFFICES ASSUME StatusInv, [Next]_vars PROVE StatusInv'
  OBVIOUS
<1>1. CASE grant \/ call_status \/ call_reload
  BY <1>1, NothingRead DEF grant, call_status, call_reload, graphVars, errVars, sVars, hVars, StatusInv, Bumping
<1>2. CASE \E i \in Slot, kind \in Kind : report_event(i, kind)
  <2>1. PICK i \in Slot, kind \in Kind : report_event(i, kind)
    BY <1>2
  <2>2. [kind |-> kind, slot |-> i] \in Events
    BY DEF Events, Slot
  <2>3. events' = Append(events, [kind |-> kind, slot |-> i])
    BY <2>1 DEF report_event
  <2>4. events' \in Seq(Events)
    BY <2>2, <2>3 DEF StatusInv
  <2>5. QED  BY <2>1, <2>4, NothingRead DEF report_event, graphVars, errVars, sVars, hVars, StatusInv, Bumping
<1>3. CASE receive_event
  BY <1>3, NothingRead DEF receive_event, graphVars, errVars, sVars, StatusInv, Bumping
<1>4. CASE node_name
  BY <1>4, NothingRead DEF node_name, graphVars, errVars, sVars, StatusInv, Bumping
<1>5. CASE set_count
  <2>1. counts' \in [Names -> Nat]
    <3>1. counts \in [Names -> Nat] /\ counts' = [counts EXCEPT ![name] = counts[name] + 1]
      BY <1>5 DEF set_count, StatusInv
    <3>2. name \in Names => counts[name] + 1 \in Nat
      BY <3>1
    <3>3. QED  BY <3>1, <3>2
  <2>2. Bumping' = Bumping /\ handler' \in {"idle", "bump"}
    <3>1. CASE handler = "count" /\ handler' = "idle"
      BY <3>1 DEF Bumping
    <3>2. CASE handler = "bump_changed" /\ handler' = "bump"
      BY <3>2 DEF Bumping
    <3>3. QED  BY <1>5, <3>1, <3>2 DEF set_count
  <2>3. UNCHANGED <<nodes, inc, generation, by_node, rev, cache, view, status, events, event>>
    BY <1>5 DEF set_count, graphVars, sVars
  <2>4. QED  BY <2>1, <2>2, <2>3, NothingRead DEF StatusInv
<1>6. CASE UNCHANGED vars
  BY <1>6, NothingRead DEF vars, StatusInv, Bumping
<1>7. QED
  BY <1>1, <1>2, <1>3, <1>4, <1>5, <1>6, SetKeeps, BumpKeeps, TopologyKeeps, ReloadsKeep DEF Next, handle_event

\* The snapshot that topology() serves from its cache (engine.rs) lists the
\* registered nodes and marks exactly those with a fault, for any number of
\* nodes, events and reloads between the steps of NodeErrors::set and those
\* of build_topology.
THEOREM CacheShowsFaults == Spec => []CachedPresence
<1>1. StatusInv => CachedPresence
  BY DEF StatusInv, CachedPresence, Hit, Agrees, Settled, Bumping, Presence
<1>2. QED  BY <1>1, StatusStart, StatusStep, PTL DEF Spec

-----------------------------------------------------------------------------
(***************************************************************************)
(* The guard of the first read() keeps reloads out while the handler has a *)
(* name in hand, so that the name is still that of the event's slot when   *)
(* the fault is booked.                                                    *)
(***************************************************************************)
LockInv ==
  /\ "reload" \in holders => holders = {"reload"}
  /\ handler = "report" => "first" \in holders /\ nodes[name] = event.slot

LEMMA LockStep == LockInv /\ [Next]_vars => LockInv'
<1> SUFFICES ASSUME LockInv, [Next]_vars PROVE LockInv'
  OBVIOUS
<1>1. CASE grant
  BY <1>1 DEF grant, Compatible, LockInv, graphVars, hVars
<1>2. CASE \E i \in Slot, kind \in Kind : report_event(i, kind)
  BY <1>2 DEF report_event, LockInv, graphVars, hVars
<1>3. CASE receive_event
  BY <1>3 DEF receive_event, LockInv, graphVars
<1>4. CASE node_name
  BY <1>4 DEF node_name, LockInv, graphVars
<1>5. CASE set_by_node
  BY <1>5 DEF set_by_node, LockInv
<1>6. CASE set_count
  BY <1>6 DEF set_count, LockInv
<1>7. CASE set_rev
  BY <1>7 DEF set_rev, LockInv
<1>8. CASE call_status \/ call_reload
  BY <1>8 DEF call_status, call_reload, LockInv, graphVars, hVars
<1>9. CASE topology
  BY <1>9 DEF topology, topology_load, build_errors, build_counts, topology_publish, LockInv, graphVars, hVars
<1>10. CASE \E keep \in SUBSET Names : reload(keep)
  BY <1>10 DEF reload, LockInv, hVars
<1>11. CASE UNCHANGED vars
  BY <1>11 DEF vars, LockInv
<1>12. QED
  BY <1>1, <1>2, <1>3, <1>4, <1>5, <1>6, <1>7, <1>8, <1>9, <1>10, <1>11 DEF Next, handle_event

\* The handler of api/mod.rs books a fault on the node whose task reported it,
\* whatever reloads were asked for since: a name changes hands only under the
\* write lock, which the handler's read guard keeps out.
THEOREM FaultsOnRightNode == Spec => RightNode
<1>1. Init => LockInv
  BY DEF Init, LockInv
<1>2. StatusInv /\ LockInv /\ [Next]_vars
        => [\A n \in Names : by_node'[n] # by_node[n] => nodes[n] = event.slot]_vars
  <2> SUFFICES ASSUME StatusInv, LockInv, Next, NEW n \in Names, by_node'[n] # by_node[n]
               PROVE  nodes[n] = event.slot
    OBVIOUS
  <2>1. set_by_node
    BY DEF Next, grant, report_event, handle_event, receive_event, node_name, set_count, set_rev, call_status,
           topology, topology_load, build_errors, build_counts, topology_publish, call_reload, reload, errVars
  <2>2. n = name
    BY <2>1 DEF set_by_node, StatusInv
  <2>3. QED  BY <2>1, <2>2 DEF set_by_node, LockInv
<1>3. QED
  BY <1>1, <1>2, LockStep, StatusStart, StatusStep, PTL DEF Spec, RightNode

-----------------------------------------------------------------------------
(***************************************************************************)
(* Snowflake.  The word is never behind an id that was given, and what a    *)
(* thread wants to store is ahead of what it has loaded.                   *)
(***************************************************************************)
Word == [ts : 0..MaxClock, seq : Nat]

Stamped(w) == <<w.ts, w.seq>>

NotBehind == \A i \in DOMAIN issued : issued[i] = Stamped(word) \/ Before(issued[i], Stamped(word))

SInv ==
  /\ wall \in (0 - 1)..MaxClock /\ word \in Word
  /\ caller \in [Callers -> [at : {"start", "timed", "swap"}, now : 0..MaxClock, old : Word]]
  /\ issued \in Seq(Nat \X Nat)
  /\ NotBehind /\ IdsGrow

\* What is stored is ahead of what was loaded, and its time fits the field.
LEMMA NewWordAhead ==
  ASSUME NEW old \in Word, NEW now \in 0..MaxClock
  PROVE  /\ NewWord(old, now) \in Word
         /\ Before(Stamped(old), Stamped(NewWord(old, now)))
         /\ IdOf(NewWord(old, now)) = Stamped(NewWord(old, now))
<1>1. NewWord(old, now) \in Word
  BY SnowflakeAssumption DEF NewWord, Word
<1>2. Before(Stamped(old), Stamped(NewWord(old, now)))
  BY SnowflakeAssumption DEF NewWord, Word, Before, Stamped
<1>3. \A t \in 0..MaxClock : t % TsSize = t
  BY SnowflakeAssumption
<1>4. IdOf(NewWord(old, now)) = Stamped(NewWord(old, now))
  BY <1>1, <1>3 DEF Word, IdOf, Stamped
<1>5. QED  BY <1>1, <1>2, <1>4

LEMMA SnowflakeStart == SInit => SInv
  BY SnowflakeAssumption DEF SInit, SInv, Waits, Word, NotBehind, IdsGrow

\* A swap that wins appends an id that is ahead of every one before it.
LEMMA SwapKeeps ==
  ASSUME SInv, NEW c \in Callers, Swap(c)
  PROVE  SInv'
<1> DEFINE new == NewWord(caller[c].old, caller[c].now)
<1>1. caller[c].old \in Word /\ caller[c].now \in 0..MaxClock
  BY DEF SInv
<1>2. /\ new \in Word /\ Before(Stamped(caller[c].old), Stamped(new))
      /\ IdOf(new) = Stamped(new)
  BY <1>1, NewWordAhead
<1>3. /\ wall' = wall
      /\ caller' \in [Callers -> [at : {"start", "timed", "swap"}, now : 0..MaxClock, old : Word]]
  BY SnowflakeAssumption DEF SInv, Swap, Waits, Word
<1>4. CASE UNCHANGED <<word, issued>>
  BY <1>3, <1>4 DEF SInv, NotBehind, IdsGrow
<1>5. CASE word = caller[c].old /\ word' = new /\ issued' = Append(issued, IdOf(new))
  <2> HIDE DEF new
  <2>1. word' \in Word /\ Stamped(new) \in Nat \X Nat /\ Stamped(word) \in Nat \X Nat
    BY <1>2, <1>5, SnowflakeAssumption DEF Word, Stamped, SInv
  <2>2. issued' = Append(issued, Stamped(new)) /\ issued' \in Seq(Nat \X Nat)
    BY <1>2, <1>5, <2>1 DEF SInv
  <2>3. ASSUME NEW i \in DOMAIN issued
        PROVE  Before(issued[i], Stamped(new))
    <3>1. issued[i] \in Nat \X Nat /\ (issued[i] = Stamped(word) \/ Before(issued[i], Stamped(word)))
      BY DEF SInv, NotBehind
    <3>2. Before(Stamped(word), Stamped(new))
      BY <1>2, <1>5
    <3>3. \A a, b, d \in Nat \X Nat : Before(a, b) /\ Before(b, d) => Before(a, d)
      BY DEF Before
    <3>4. QED  BY <3>1, <3>2, <3>3, <2>1
  <2>4. /\ DOMAIN issued' = 1..(Len(issued) + 1) /\ issued'[Len(issued) + 1] = Stamped(new)
        /\ \A i \in 1..Len(issued) : issued'[i] = issued[i]
        /\ DOMAIN issued = 1..Len(issued) /\ Len(issued) \in Nat
    BY <2>1, <2>2 DEF SInv
  <2>5. NotBehind'
    BY <1>5, <2>3, <2>4 DEF NotBehind, Before, Stamped
  <2>6. IdsGrow'
    <3> SUFFICES ASSUME NEW i \in DOMAIN issued', NEW j \in DOMAIN issued', i < j
                 PROVE  Before(issued'[i], issued'[j])
      BY DEF IdsGrow
    <3>1. i \in 1..Len(issued) /\ issued'[i] = issued[i]
      BY <2>4
    <3>2. CASE j \in 1..Len(issued)
      BY <3>1, <3>2, <2>4 DEF SInv, IdsGrow
    <3>3. CASE j = Len(issued) + 1
      BY <3>1, <3>3, <2>3, <2>4
    <3>4. QED  BY <3>2, <3>3, <2>4
  <2>7. QED  BY <1>3, <2>1, <2>2, <2>5, <2>6 DEF SInv
<1>6. QED  BY <1>4, <1>5 DEF Swap

LEMMA SnowflakeStep == SInv /\ [SNext]_svars => SInv'
<1> SUFFICES ASSUME SInv, [SNext]_svars PROVE SInv'
  OBVIOUS
<1>1. CASE ClockSteps
  BY <1>1 DEF ClockSteps, SInv, NotBehind, IdsGrow
<1>2. CASE \E c \in Callers : ReadClock(c)
  <2>1. PICK c \in Callers : ReadClock(c)
    BY <1>2
  <2>2. current_ts(wall) \in 0..MaxClock
    BY SnowflakeAssumption DEF SInv, current_ts
  <2>3. [Waits EXCEPT !.at = "timed", !.now = current_ts(wall)]
          \in [at : {"start", "timed", "swap"}, now : 0..MaxClock, old : Word]
    <3>1. Waits.old = [ts |-> 0, seq |-> 0] /\ Waits.old \in Word
      BY SnowflakeAssumption DEF Waits, Word
    <3>2. QED  BY <2>2, <3>1 DEF Waits
  <2>4. UNCHANGED <<wall, word, issued>>
        /\ caller' = [caller EXCEPT ![c] = [Waits EXCEPT !.at = "timed", !.now = current_ts(wall)]]
    BY <2>1 DEF ReadClock
  <2>5. QED  BY <2>3, <2>4 DEF SInv, NotBehind, IdsGrow
<1>3. CASE \E c \in Callers : Load(c)
  BY <1>3 DEF Load, SInv, NotBehind, IdsGrow
<1>4. CASE \E c \in Callers : Swap(c)
  BY <1>4, SwapKeeps
<1>5. CASE UNCHANGED svars
  BY <1>5 DEF svars, SInv, NotBehind, IdsGrow
<1>6. QED  BY <1>1, <1>2, <1>3, <1>4, <1>5 DEF SNext

\* generate (snowflake_id.rs:31) gives growing, hence distinct, ids to any
\* number of threads that race on the word, however the clock steps back and
\* forth, while the time field has not wrapped.
THEOREM IdsAlwaysGrow == SSpec => []IdsGrow
<1>1. SInv => IdsGrow  BY DEF SInv
<1>2. QED  BY <1>1, SnowflakeStart, SnowflakeStep, PTL DEF SSpec

-----------------------------------------------------------------------------
(***************************************************************************)
(* ConfigLoad.  Past the checks the file is valid, so no two entries share *)
(* an id; while the boot loads, every entry that is wanted is still to be  *)
(* loaded or stands in the table under its own path.                       *)
(***************************************************************************)
Dynamic == {i \in enabled_modules : ~cfg.modules[i].builtin}
Loaded(i) == cfg.modules[i].id \in DOMAIN registry_m /\ registry_m[cfg.modules[i].id] = cfg.modules[i].path

BootInv ==
  /\ phase \notin {"down", "failed"} => validate
  /\ phase \in {"load", "bind", "cleared", "serving"} =>
       todo \subseteq Dynamic /\ \A i \in Dynamic \ todo : Loaded(i)
  /\ phase \in {"bind", "cleared", "serving"} => todo = {}
  /\ phase = "cleared" => sock = "none"
  /\ phase # "in_use"

LEMMA BootStep == BootInv /\ [ConfigNext]_cvars => BootInv'
<1> SUFFICES ASSUME BootInv, [ConfigNext]_cvars PROVE BootInv'
  OBVIOUS
<1>0. cfg' = cfg => (validate <=> validate') /\ Dynamic' = Dynamic
  BY DEF validate, Dynamic, enabled_modules, ValidStorage, HasUrl, ValidModules, ValidMesh, Resolves, resolved
<1>1. CASE UNCHANGED cvars
  BY <1>0, <1>1 DEF cvars, BootInv, Loaded
<1>2. CASE load_config
  BY <1>0, <1>2 DEF load_config, Fail, BootInv
<1>3. CASE NewState
  BY <1>0, <1>3 DEF NewState, Fail, BootInv
<1>4. CASE register_builtin
  BY <1>0, <1>4 DEF register_builtin, Boot, BootInv, Dynamic
<1>5. CASE load_dynamic
  <2>1. PICK next \in todo :
          \/ /\ registry_m' = [i \in DOMAIN registry_m \cup {cfg.modules[next].id} |->
                                 IF i = cfg.modules[next].id THEN cfg.modules[next].path ELSE registry_m[i]]
             /\ todo' = todo \ {next}
             /\ UNCHANGED <<phase, sock>>
          \/ Fail
    BY <1>5 DEF load_dynamic
  <2>2. CASE Fail
    BY <1>0, <1>5, <2>2 DEF load_dynamic, Fail, BootInv
  <2>3. CASE ~Fail
    <3>1. /\ todo \subseteq Dynamic /\ next \in Dynamic
          /\ \A i, j \in DOMAIN cfg.modules : cfg.modules[i].id = cfg.modules[j].id => i = j
      BY <1>5, <2>1 DEF load_dynamic, BootInv, validate, ValidModules
    <3>2. ASSUME NEW i \in Dynamic, i \notin todo \/ i = next PROVE Loaded(i)'
      <4>1. i = next \/ (cfg.modules[i].id # cfg.modules[next].id /\ Loaded(i))
        BY <1>5, <3>1, <3>2 DEF load_dynamic, BootInv, Dynamic, enabled_modules
      <4>2. QED  BY <1>5, <2>1, <2>3, <4>1 DEF load_dynamic, Loaded
    <3>3. QED  BY <1>0, <1>5, <2>1, <2>3, <3>1, <3>2 DEF load_dynamic, BootInv
  <2>4. QED  BY <2>2, <2>3
<1>6. CASE into_router
  BY <1>0, <1>6 DEF into_router, Fail, BootInv, Loaded
<1>7. CASE clear_socket_path
  BY <1>0, <1>7 DEF clear_socket_path, Boot, BootInv, Loaded
<1>8. CASE bind
  BY <1>0, <1>8 DEF bind, BootInv, Loaded
<1>9. CASE Ends
  BY <1>0, <1>9 DEF Ends, BootInv
<1>10. ASSUME NEW s \in StationIds, OpenStation(s) PROVE BootInv'
  BY <1>0, <1>10 DEF OpenStation, BootInv, Loaded
<1>11. QED
  BY <1>1, <1>2, <1>3, <1>4, <1>5, <1>6, <1>7, <1>8, <1>9, <1>10 DEF ConfigNext

\* For any module ids and whatever file and environment a process starts with
\* (config.rs, api/modules.rs, serve.rs): a process that serves has loaded every
\* module that is enabled and allowed from its own path, is in the mesh only with
\* windows that make sense, and rebinds after any end.
THEOREM BootsAlwaysAsConfigured == ConfigSpec => []BootsAsConfigured
<1>1. ConfigInit => BootInv
  BY DEF ConfigInit, BootInv
<1>2. BootInv => BootsAsConfigured
  <2> SUFFICES ASSUME BootInv PROVE BootsAsConfigured
    OBVIOUS
  <2>1. LoadedAsConfigured
    BY DEF BootInv, LoadedAsConfigured, Loaded, Dynamic
  <2>2. MeshSound
    BY DEF BootInv, MeshSound, validate, ValidMesh
  <2>3. QED  BY <2>1, <2>2 DEF BootInv, Rebinds, BootsAsConfigured
<1>3. QED  BY <1>1, <1>2, BootStep, PTL DEF ConfigSpec

-----------------------------------------------------------------------------
(***************************************************************************)
(* ModuleHost, streams.  A running stream has handled or announced every   *)
(* number up to its receiver's place, and ends with that place or with an  *)
(* announcement; before its first event the receiver stands no later than  *)
(* the place at which the module opened the stream.                        *)
(***************************************************************************)
SseStates == {"idle", "subscribed", "open", "refused", "running", "ended", "answered"}

Handled(s) ==
  /\ \A i \in 1..Len(s.sent) : Number(s.sent[i]) <= s.rx
  /\ s.sent = <<>> => s.rx <= s.first
  /\ s.sent # <<>> /\ s.sent[Len(s.sent)] # Lag => Number(s.sent[Len(s.sent)]) = s.rx

InOrder(s) ==
  \A i \in 1..Len(s.sent) : s.sent[i] # Lag =>
     IF i = 1 THEN Number(s.sent[i]) <= s.first + 1
     ELSE IF s.sent[i-1] = Lag
            THEN \A j \in 1..(i-1) : s.sent[j] # Lag => Number(s.sent[j]) < Number(s.sent[i])
            ELSE Number(s.sent[i]) = Number(s.sent[i-1]) + 1

ViewerInv(s, end) ==
  /\ s.st \in SseStates /\ s.rx \in {NoRx} \cup (0..end) /\ s.first \in 0..end /\ s.sent \in Seq(Int)
  /\ s.st \in {"idle", "subscribed", "open", "refused"} => s.sent = <<>>
  /\ s.st \in {"open", "refused"} => s.rx <= s.first
  /\ s.st = "running" => s.rx # NoRx /\ Handled(s) /\ InOrder(s)

SseInv ==
  /\ tail \in Nat
  /\ DOMAIN sse = Viewers
  /\ \A v \in Viewers : ViewerInv(sse[v], tail)

\* One more event, of a number that follows the receiver's place or an
\* announcement of the place it is moved to.
LEMMA OneMoreEvent ==
  ASSUME NEW s, NEW end \in Nat, ViewerInv(s, end), s.st = "running",
         NEW r, NEW place \in 0..end, NEW e \in Int,
         r.st = "running" /\ r.first = s.first /\ r.rx = place /\ r.sent = Append(s.sent, e),
         \/ e = Lag /\ s.rx < place
         \/ e # Lag /\ Number(e) = place /\ place = s.rx + 1
  PROVE  ViewerInv(r, end)
<1>1. s.sent \in Seq(Int) /\ s.rx \in 0..end /\ s.first \in 0..end /\ Handled(s) /\ InOrder(s)
  BY DEF ViewerInv
<1>2. /\ r.sent \in Seq(Int) /\ Len(r.sent) = Len(s.sent) + 1 /\ r.sent[Len(s.sent) + 1] = e
      /\ \A i \in 1..Len(s.sent) : r.sent[i] = s.sent[i]
      /\ Len(s.sent) \in Nat
  BY <1>1
<1>3. Number(e) <= place
  BY DEF Number, Lag
<1>4. \A i \in 1..Len(s.sent) : Number(s.sent[i]) \in Int /\ Number(s.sent[i]) <= s.rx
  BY <1>1 DEF Handled, Number
<1>5. \A i \in 1..Len(r.sent) : Number(r.sent[i]) <= place
  <2>1. ASSUME NEW i \in 1..Len(r.sent) PROVE Number(r.sent[i]) <= place
    <3>1. CASE i = Len(s.sent) + 1
      BY <1>2, <1>3, <3>1
    <3>2. CASE i \in 1..Len(s.sent)
      BY <1>1, <1>2, <1>4, <3>2
    <3>3. QED  BY <1>2, <3>1, <3>2
  <2>2. QED  BY <2>1
<1>6. Handled(r)
  BY <1>2, <1>5 DEF Handled
<1>7. InOrder(r)
  <2> SUFFICES ASSUME NEW i \in 1..Len(r.sent), r.sent[i] # Lag
               PROVE  IF i = 1 THEN Number(r.sent[i]) <= r.first + 1
                      ELSE IF r.sent[i-1] = Lag
                        THEN \A j \in 1..(i-1) : r.sent[j] # Lag => Number(r.sent[j]) < Number(r.sent[i])
                        ELSE Number(r.sent[i]) = Number(r.sent[i-1]) + 1
    BY DEF InOrder
  <2>1. CASE i \in 1..Len(s.sent)
    BY <1>1, <1>2, <2>1 DEF InOrder
  <2>2. CASE i = Len(s.sent) + 1
    <3>1. Number(r.sent[i]) = s.rx + 1
      BY <1>2, <2>2
    <3>2. CASE i = 1
      BY <1>1, <1>2, <2>2, <3>1, <3>2 DEF Handled
    <3>3. CASE i # 1 /\ r.sent[i-1] = Lag
      <4>1. \A j \in 1..(i-1) : r.sent[j] = s.sent[j] /\ Number(s.sent[j]) <= s.rx /\ Number(s.sent[j]) \in Int
        BY <1>2, <1>4, <2>2
      <4>2. QED  BY <1>1, <3>1, <3>3, <4>1
    <3>4. CASE i # 1 /\ r.sent[i-1] # Lag
      <4>1. i - 1 = Len(s.sent) /\ r.sent[i-1] = s.sent[Len(s.sent)] /\ s.sent # <<>>
        BY <1>2, <2>2, <3>4
      <4>2. QED  BY <1>1, <3>1, <3>4, <4>1 DEF Handled
    <3>5. QED  BY <3>2, <3>3, <3>4
  <2>3. i \in 1..Len(s.sent) \/ i = Len(s.sent) + 1
    BY <1>2
  <2>4. QED  BY <2>1, <2>2, <2>3
<1>8. QED  BY <1>1, <1>2, <1>6, <1>7 DEF ViewerInv, SseStates, NoRx

LEMMA OldestIs == ASSUME tail \in Nat PROVE Oldest = IF tail > ChanCapacity THEN tail - ChanCapacity ELSE 0
<1>1. ChanCapacity \in Nat
  BY HostAssumption
<1> DEFINE o == IF tail > ChanCapacity THEN tail - ChanCapacity ELSE 0
<1>2. o \in {0, tail - ChanCapacity} /\ \A x \in {0, tail - ChanCapacity} : x <= o
  BY <1>1
<1>3. \A y \in {0, tail - ChanCapacity} : (\A x \in {0, tail - ChanCapacity} : x <= y) => y = o
  BY <1>1
<1>4. Oldest = CHOOSE y \in {0, tail - ChanCapacity} : \A x \in {0, tail - ChanCapacity} : x <= y
  BY DEF Oldest, Max
<1> HIDE DEF o
<1>5. Oldest = o
  BY <1>2, <1>3, <1>4
<1>6. QED  BY <1>5 DEF o

LEMMA SseStep == SseInv /\ [SseNext]_hvars => SseInv'
<1> SUFFICES ASSUME SseInv, [SseNext]_hvars PROVE SseInv'
  OBVIOUS
<1>0. tail \in Nat /\ DOMAIN sse = Viewers /\ \A v \in Viewers : ViewerInv(sse[v], tail)
  BY DEF SseInv
<1>1. CASE UNCHANGED hvars
  BY <1>1 DEF hvars, SseInv
<1>2. CASE publish_message
  <2>1. \A v \in Viewers : ViewerInv(sse[v], tail + 1)
    BY <1>0 DEF ViewerInv, NoRx
  <2>2. QED  BY <1>0, <1>2, <2>1 DEF publish_message, SseInv
<1>3. CASE drop_output
  BY <1>0, <1>3 DEF drop_output, SseInv
<1>a. ASSUME NEW v \in Viewers, NEW r, tail' = tail, sse' = [sse EXCEPT ![v] = r], ViewerInv(r, tail)
      PROVE  SseInv'
  BY <1>0, <1>a DEF SseInv
<1>4. ASSUME NEW v \in Viewers, subscribe(v) PROVE SseInv'
  <2>1. PICK x \in {tail, NoRx} : sse' = [sse EXCEPT ![v].st = "subscribed", ![v].rx = x]
    BY <1>4 DEF subscribe
  <2>2. sse' = [sse EXCEPT ![v] = [[sse[v] EXCEPT !.st = "subscribed"] EXCEPT !.rx = x]]
    BY <1>0, <2>1
  <2>3. ViewerInv([[sse[v] EXCEPT !.st = "subscribed"] EXCEPT !.rx = x], tail)
    BY <1>0, <1>4 DEF subscribe, ViewerInv, SseStates
  <2>4. QED  BY <1>4, <1>a, <2>2, <2>3 DEF subscribe
<1>5. ASSUME NEW v \in Viewers, stream(v) PROVE SseInv'
  <2>1. PICK y \in {"open", "refused"} : sse' = [sse EXCEPT ![v].st = y, ![v].first = tail]
    BY <1>5 DEF stream
  <2>2. sse' = [sse EXCEPT ![v] = [[sse[v] EXCEPT !.st = y] EXCEPT !.first = tail]]
    BY <1>0, <2>1
  <2>3. ViewerInv([[sse[v] EXCEPT !.st = y] EXCEPT !.first = tail], tail)
    BY <1>0, <1>5 DEF stream, ViewerInv, SseStates, NoRx
  <2>4. QED  BY <1>5, <1>a, <2>2, <2>3 DEF stream
<1>6. ASSUME NEW v \in Viewers, generator_starts(v) PROVE SseInv'
  <2>1. PICK y \in {"ended", "running"} :
          /\ sse' = [sse EXCEPT ![v].st = y]
          /\ y = "running" => sse[v].st = "open" /\ sse[v].rx # NoRx
    BY <1>6 DEF generator_starts
  <2>2. sse' = [sse EXCEPT ![v] = [sse[v] EXCEPT !.st = y]]
    BY <1>0, <2>1
  <2>3. ViewerInv([sse[v] EXCEPT !.st = y], tail)
    BY <1>0, <1>6, <2>1 DEF generator_starts, ViewerInv, SseStates, Handled, InOrder
  <2>4. QED  BY <1>6, <1>a, <2>2, <2>3 DEF generator_starts
<1>7. ASSUME NEW v \in Viewers, recv(v) PROVE SseInv'
  <2>1. /\ sse[v].st = "running" /\ ViewerInv(sse[v], tail) /\ sse[v].rx \in 0..tail /\ sse[v].rx < tail
        /\ sse[v].sent \in Seq(Int) /\ tail' = tail
    BY <1>0, <1>7 DEF recv, ViewerInv
  <2>2. PICK place \in 0..tail, e \in Int :
          /\ sse' = [sse EXCEPT ![v].rx = place, ![v].sent = Append(@, e)]
          /\ \/ e = Lag /\ sse[v].rx < place
             \/ e # Lag /\ Number(e) = place /\ place = sse[v].rx + 1
    <3>1. CASE sse[v].rx < Oldest
      <4>1. sse' = [sse EXCEPT ![v].rx = Oldest, ![v].sent = Append(@, Lag)]
        BY <1>7, <3>1 DEF recv
      <4>2. Oldest \in 0..tail /\ Lag \in Int
        BY <1>0, OldestIs, HostAssumption DEF Lag
      <4>3. QED  BY <3>1, <4>1, <4>2
    <3>2. CASE ~(sse[v].rx < Oldest)
      <4>1. PICK ans \in ffi_stream_push :
              sse' = [sse EXCEPT ![v].rx = sse[v].rx + 1,
                                 ![v].sent = Append(@, IF ans = "text" THEN sse[v].rx + 1 ELSE -(sse[v].rx + 1))]
        BY <1>7, <3>2 DEF recv, stream_push
      <4> DEFINE m == IF ans = "text" THEN sse[v].rx + 1 ELSE -(sse[v].rx + 1)
      <4>2. m \in Int /\ m # Lag /\ Number(m) = sse[v].rx + 1 /\ sse[v].rx + 1 \in 0..tail
        BY <1>0, <2>1 DEF Number, Lag
      <4>3. sse' = [sse EXCEPT ![v].rx = sse[v].rx + 1, ![v].sent = Append(@, m)]
        BY <4>1
      <4> HIDE DEF m
      <4>4. QED  BY <4>2, <4>3
    <3>3. QED  BY <3>1, <3>2
  <2> DEFINE r == [[sse[v] EXCEPT !.rx = place] EXCEPT !.sent = Append(sse[v].sent, e)]
  <2>3. sse' = [sse EXCEPT ![v] = r]
    BY <1>0, <2>2
  <2>4. r.st = "running" /\ r.first = sse[v].first /\ r.rx = place /\ r.sent = Append(sse[v].sent, e)
    BY <2>1
  <2> HIDE DEF r
  <2>5. ViewerInv(r, tail)
    BY <1>0, <2>1, <2>2, <2>4, OneMoreEvent
  <2>6. QED  BY <1>a, <2>1, <2>3, <2>5
<1>8. ASSUME NEW v \in Viewers, recv_closed(v) \/ disconnect(v) PROVE SseInv'
  <2>1. tail' = tail /\ sse' = [sse EXCEPT ![v] = [sse[v] EXCEPT !.st = "ended"]]
    BY <1>8 DEF recv_closed, disconnect
  <2>2. ViewerInv([sse[v] EXCEPT !.st = "ended"], tail)
    BY <1>0 DEF ViewerInv, SseStates
  <2>3. QED  BY <1>a, <2>1, <2>2
<1>9. ASSUME NEW v \in Viewers, module_route_handler(v) PROVE SseInv'
  <2>1. PICK c : sse' = [sse EXCEPT ![v].st = "answered", ![v].code = c]
    BY <1>9 DEF module_route_handler
  <2>2. sse' = [sse EXCEPT ![v] = [[sse[v] EXCEPT !.st = "answered"] EXCEPT !.code = c]]
    BY <1>0, <2>1
  <2>3. ViewerInv([[sse[v] EXCEPT !.st = "answered"] EXCEPT !.code = c], tail)
    BY <1>0 DEF ViewerInv, SseStates
  <2>4. QED  BY <1>9, <1>a, <2>2, <2>3 DEF module_route_handler
<1>10. QED
  BY <1>1, <1>2, <1>3, <1>4, <1>5, <1>6, <1>7, <1>8, <1>9 DEF SseNext

LEMMA SseStart == SseInit => SseInv
<1>1. ViewerInv(Idle, 0)
  BY DEF ViewerInv, Idle, SseStates, NoRx
<1>2. QED  BY <1>1 DEF SseInit, SseInv

LEMMA SseShows == SseInv => GapsAnnounced
  BY DEF SseInv, ViewerInv, Handled, InOrder, GapsAnnounced

-----------------------------------------------------------------------------
(***************************************************************************)
(* ModuleHost, pages.  Wherever an id stands with a page - in the index,   *)
(* in the copy of the index a set is about to write, with the data, in a   *)
(* call under way - a set of that page began at that clock.                *)
(***************************************************************************)
Begins(e, B) == <<e[2], e[1]>> \in B
Named(ent, B) == ent \in Seq(Int \X Nat) /\ \A i \in DOMAIN ent : Begins(ent[i], B)

PagerInv(c, B) ==
  /\ c.at \in {"rest", "read", "index", "data", "found", "got"}
  /\ c.at # "rest" => <<c.id, c.page>> \in B /\ c.page \in Int /\ c.id \in Nat
  /\ c.at = "index" => Named(c.ent, B)
  /\ c.at = "got" /\ c.ans # 0 => <<c.id, c.ans>> \in B

PageInv ==
  /\ micros \in Nat /\ begun \subseteq Nat \X Int
  /\ Named(index.ent, begun)
  /\ \A id \in DOMAIN data : <<id, data[id].page>> \in begun
  /\ DOMAIN pager = Pagers /\ \A t \in Pagers : PagerInv(pager[t], begun)

LEMMA LowerBoundType ==
  ASSUME NEW ent, NEW p, ent \in Seq(Int \X Nat)
  PROVE  lower_bound(ent, p) \in 1..(Len(ent) + 1)
<1> DEFINE below == {i \in DOMAIN ent : ent[i][1] < p}
<1>1. PICK n \in Nat : n = Len(ent) /\ DOMAIN ent = 1..n
  OBVIOUS
<1>2. IsFiniteSet(1..n) /\ Cardinality(1..n) = n
  BY FS_Interval
<1>3. IsFiniteSet(below) /\ Cardinality(below) <= n /\ Cardinality(below) \in Nat
  BY <1>1, <1>2, FS_Subset, FS_CardinalityType
<1>4. lower_bound(ent, p) = Cardinality(below) + 1
  BY DEF lower_bound
<1> HIDE DEF below
<1>5. QED  BY <1>1, <1>3, <1>4

LEMMA Joined ==
  ASSUME NEW S, NEW s \in Seq(S), NEW t \in Seq(S)
  PROVE  /\ s \o t \in Seq(S) /\ Len(s \o t) = Len(s) + Len(t)
         /\ \A i \in 1..Len(s) : (s \o t)[i] = s[i]
         /\ \A i \in 1..Len(t) : (s \o t)[Len(s) + i] = t[i]
  OBVIOUS

LEMMA SubSeqIs ==
  ASSUME NEW S, NEW s \in Seq(S), NEW a \in Nat, NEW b \in Nat, 1 <= a, b <= Len(s), a <= b + 1
  PROVE  /\ SubSeq(s, a, b) \in Seq(S) /\ Len(SubSeq(s, a, b)) = b - a + 1
         /\ \A i \in 1..(b - a + 1) : SubSeq(s, a, b)[i] = s[a + i - 1]
  OBVIOUS

\* What InsertAt inserts: nothing is lost and nothing else comes in.
LEMMA Inserted ==
  ASSUME NEW S, NEW s \in Seq(S), NEW e \in S, NEW k \in 1..(Len(s) + 1)
  PROVE  /\ InsertAt(s, k, e) \in Seq(S) /\ Len(InsertAt(s, k, e)) = Len(s) + 1
         /\ \A i \in 1..(Len(s) + 1) : InsertAt(s, k, e)[i] = e \/ \E j \in 1..Len(s) : InsertAt(s, k, e)[i] = s[j]
<1>1. PICK n \in Nat : n = Len(s)
  OBVIOUS
<1> DEFINE a == SubSeq(s, 1, k - 1)
           b == SubSeq(s, k, n)
<1>2. k \in Nat /\ k >= 1 /\ k <= n + 1 /\ k - 1 \in Nat
  BY <1>1
<1>3. a \in Seq(S) /\ Len(a) = k - 1 /\ \A i \in 1..(k - 1) : a[i] = s[i]
  BY <1>1, <1>2, SubSeqIs
<1>4. b \in Seq(S) /\ Len(b) = n - k + 1 /\ \A i \in 1..(n - k + 1) : b[i] = s[k + i - 1]
  <2>1. k \in Nat /\ n \in Nat /\ 1 <= k /\ n <= Len(s) /\ k <= n + 1 /\ s \in Seq(S)
    BY <1>1, <1>2
  <2>2. QED  BY <2>1, SubSeqIs
<1>5. InsertAt(s, k, e) = (a \o <<e>>) \o b
  BY <1>1 DEF InsertAt
<1> HIDE DEF a, b
<1>6. <<e>> \in Seq(S) /\ Len(<<e>>) = 1 /\ <<e>>[1] = e
  OBVIOUS
<1>7. /\ a \o <<e>> \in Seq(S) /\ Len(a \o <<e>>) = k
      /\ \A i \in 1..(k - 1) : (a \o <<e>>)[i] = s[i]
      /\ (a \o <<e>>)[k] = e
  <2>1. /\ a \o <<e>> \in Seq(S) /\ Len(a \o <<e>>) = Len(a) + 1
        /\ \A i \in 1..Len(a) : (a \o <<e>>)[i] = a[i]
        /\ (a \o <<e>>)[Len(a) + 1] = e
    BY <1>3, <1>6, Joined
  <2>2. Len(a) + 1 = k /\ Len(a) = k - 1
    BY <1>2, <1>3
  <2>3. QED  BY <1>3, <2>1, <2>2
<1>8. /\ InsertAt(s, k, e) \in Seq(S) /\ Len(InsertAt(s, k, e)) = n + 1
      /\ \A i \in 1..k : InsertAt(s, k, e)[i] = (a \o <<e>>)[i]
      /\ \A i \in 1..(n - k + 1) : InsertAt(s, k, e)[k + i] = b[i]
  <2> DEFINE head == a \o <<e>>
  <2>1. head \in Seq(S) /\ Len(head) = k
    BY <1>7
  <2> HIDE DEF head
  <2>2. /\ head \o b \in Seq(S) /\ Len(head \o b) = Len(head) + Len(b)
        /\ \A i \in 1..Len(head) : (head \o b)[i] = head[i]
        /\ \A i \in 1..Len(b) : (head \o b)[Len(head) + i] = b[i]
    <3>1. head \in Seq(S) /\ b \in Seq(S)
      BY <1>4, <2>1
    <3>2. QED  BY ONLY <3>1, Joined
  <2>3. k + (n - k + 1) = n + 1
    BY <1>2
  <2>4. InsertAt(s, k, e) = head \o b
    BY <1>5 DEF head
  <2>5. QED  BY <1>4, <2>1, <2>2, <2>3, <2>4 DEF head
<1>9. ASSUME NEW i \in 1..(n + 1)
      PROVE InsertAt(s, k, e)[i] = e \/ \E j \in 1..n : InsertAt(s, k, e)[i] = s[j]
  <2>1. CASE i = k
    BY <1>2, <1>7, <1>8, <2>1
  <2>2. CASE i < k
    <3>1. i \in 1..k /\ i \in 1..(k - 1) /\ i \in 1..n
      BY <1>2, <2>2
    <3>2. QED  BY <1>7, <1>8, <3>1
  <2>3. CASE i > k
    <3>1. i - k \in 1..(n - k + 1) /\ k + (i - k) = i /\ k + (i - k) - 1 \in 1..n
      BY <1>2, <2>3
    <3>2. QED  BY <1>4, <1>8, <3>1
  <2>4. QED  BY <1>2, <2>1, <2>2, <2>3
<1>10. QED  BY <1>1, <1>8, <1>9

\* A set that finds no entry of its page puts one in: every entry of the new
\* index was in the old one or is its own.
LEMMA EntryInserted ==
  ASSUME NEW ent, Named(ent, begun), NEW p \in Int, NEW id \in Nat, <<id, p>> \in begun
  PROVE  Named(InsertAt(ent, lower_bound(ent, p), <<p, id>>), begun)
<1> DEFINE new == InsertAt(ent, lower_bound(ent, p), <<p, id>>)
<1>1. ent \in Seq(Int \X Nat) /\ \A i \in 1..Len(ent) : Begins(ent[i], begun)
  BY DEF Named
<1>2. Begins(<<p, id>>, begun) /\ <<p, id>> \in Int \X Nat
  BY DEF Begins
<1>3. /\ new \in Seq(Int \X Nat) /\ Len(new) = Len(ent) + 1
      /\ \A i \in 1..(Len(ent) + 1) : new[i] = <<p, id>> \/ \E j \in 1..Len(ent) : new[i] = ent[j]
  <2>1. lower_bound(ent, p) \in 1..(Len(ent) + 1)
    BY <1>1, LowerBoundType
  <2> DEFINE S == Int \X Nat
             e == <<p, id>>
             k == lower_bound(ent, p)
  <2>2. ent \in Seq(S) /\ e \in S /\ k \in 1..(Len(ent) + 1)
    BY <1>1, <1>2, <2>1
  <2> HIDE DEF S, e, k
  <2>3. /\ InsertAt(ent, k, e) \in Seq(S) /\ Len(InsertAt(ent, k, e)) = Len(ent) + 1
        /\ \A i \in 1..(Len(ent) + 1) : InsertAt(ent, k, e)[i] = e \/ \E j \in 1..Len(ent) : InsertAt(ent, k, e)[i] = ent[j]
    BY ONLY <2>2, Inserted
  <2>4. QED  BY <2>3 DEF S, e, k
<1> HIDE DEF new
<1>4. DOMAIN new = 1..(Len(ent) + 1)
  BY <1>3
<1>5. \A i \in DOMAIN new : Begins(new[i], begun)
  BY <1>1, <1>2, <1>3, <1>4
<1>6. QED  BY <1>3, <1>5 DEF Named, new

\* More sets that began take nothing away.
LEMMA BegunGrows ==
  ASSUME NEW B, NEW C, B \subseteq C
  PROVE  /\ \A s : Named(s, B) => Named(s, C)
         /\ \A c : PagerInv(c, B) => PagerInv(c, C)
  BY DEF Named, Begins, PagerInv

LEMMA PageStep == PageInv /\ [PageNext]_pgvars => PageInv'
<1> SUFFICES ASSUME PageInv, [PageNext]_pgvars PROVE PageInv'
  OBVIOUS
<1>0. /\ micros \in Nat /\ begun \subseteq Nat \X Int /\ Named(index.ent, begun) /\ Named(<<>>, begun)
      /\ \A id \in DOMAIN data : <<id, data[id].page>> \in begun
      /\ DOMAIN pager = Pagers /\ \A t \in Pagers : PagerInv(pager[t], begun)
  BY DEF PageInv, Named
<1>1. CASE UNCHANGED pgvars
  BY <1>0, <1>1, BegunGrows DEF pgvars, PageInv
<1>2. CASE time_passes
  BY <1>0, <1>2, BegunGrows DEF time_passes, PageInv
<1>a. ASSUME NEW t \in Pagers, NEW c, pager' = [pager EXCEPT ![t] = c], UNCHANGED <<micros, begun>>,
             PagerInv(c, begun), Named(index'.ent, begun),
             \A id \in DOMAIN data' : <<id, data'[id].page>> \in begun
      PROVE  PageInv'
  <2>1. \A u \in Pagers : PagerInv(pager'[u], begun)
    BY <1>0, <1>a
  <2>2. QED  BY <1>0, <1>a, <2>1 DEF PageInv
<1>3. ASSUME NEW t \in Pagers, NEW p \in Pages, set_begin(t, p) PROVE PageInv'
  <2> DEFINE c == [Resting EXCEPT !.at = "read", !.page = p, !.id = micros]
  <2>1. c.at = "read" /\ c.page = p /\ c.id = micros
    BY DEF Resting
  <2> HIDE DEF c
  <2>2. pager' = [pager EXCEPT ![t] = c] /\ begun' = begun \cup {<<micros, p>>} /\ UNCHANGED <<micros, index, data>>
    BY <1>3 DEF set_begin, c
  <2>3. begun \subseteq begun' /\ begun' \subseteq Nat \X Int /\ DOMAIN pager' = Pagers /\ p \in Int
    BY <1>0, <2>2, HostAssumption
  <2>4. ASSUME NEW u \in Pagers PROVE PagerInv(pager'[u], begun')
    <3>1. PagerInv(c, begun')
      BY <1>0, <2>1, <2>2, <2>3 DEF PagerInv
    <3>2. pager'[u] = IF u = t THEN c ELSE pager[u]
      BY <1>0, <2>2
    <3>3. PagerInv(pager[u], begun')
      BY <1>0, <2>3, BegunGrows
    <3>4. CASE u = t
      BY <3>1, <3>2, <3>4
    <3>5. CASE u # t
      BY <3>2, <3>3, <3>5
    <3>6. QED  BY <3>4, <3>5
  <2>5. Named(index'.ent, begun') /\ \A id \in DOMAIN data' : <<id, data'[id].page>> \in begun'
    BY <1>0, <2>2, <2>3, BegunGrows
  <2>6. QED  BY <1>0, <2>2, <2>3, <2>4, <2>5 DEF PageInv
<1>c. Named(IndexNow, begun)
  BY <1>0 DEF IndexNow
<1>4. ASSUME NEW t \in Pagers, set_index(t) PROVE PageInv'
  <2> DEFINE pos == lower_bound(IndexNow, pager[t].page)
             found == pos <= Len(IndexNow) /\ IndexNow[pos][1] = pager[t].page
  <2>1. /\ pager[t].at = "read" /\ PagerInv(pager[t], begun)
        /\ <<pager[t].id, pager[t].page>> \in begun /\ pager[t].page \in Int /\ pager[t].id \in Nat
    BY <1>0, <1>4 DEF set_index, PagerInv
  <2>2. CASE found
    <3> DEFINE c == [[pager[t] EXCEPT !.at = "data"] EXCEPT !.id = IndexNow[pos][2]]
    <3>1. pager' = [pager EXCEPT ![t] = c] /\ UNCHANGED <<micros, index, data, begun>>
      BY <1>0, <1>4, <2>2 DEF set_index
    <3>2. pos \in DOMAIN IndexNow
      BY <1>c, <2>1, <2>2, LowerBoundType DEF Named
    <3>3. Begins(IndexNow[pos], begun) /\ IndexNow[pos] \in Int \X Nat
      BY <1>c, <3>2 DEF Named
    <3>4. PagerInv(c, begun)
      BY <2>1, <2>2, <3>3 DEF PagerInv, Begins
    <3> HIDE DEF c
    <3>5. QED  BY <1>0, <1>a, <3>1, <3>4
  <2>3. CASE ~found
    <3> DEFINE new == InsertAt(IndexNow, pos, <<pager[t].page, pager[t].id>>)
               c == [[pager[t] EXCEPT !.at = "index"] EXCEPT !.ent = new]
    <3>1. pager' = [pager EXCEPT ![t] = c] /\ UNCHANGED <<micros, index, data, begun>>
      BY <1>0, <1>4, <2>3 DEF set_index
    <3>2. Named(new, begun)
      BY <1>c, <2>1, EntryInserted
    <3> HIDE DEF new
    <3>3. PagerInv(c, begun)
      BY <2>1, <3>2 DEF PagerInv
    <3> HIDE DEF c
    <3>4. QED  BY <1>0, <1>a, <3>1, <3>3
  <2>4. QED  BY <2>2, <2>3
<1>5. ASSUME NEW t \in Pagers, set_write_index(t) PROVE PageInv'
  <2> DEFINE c == [pager[t] EXCEPT !.at = "data"]
  <2>1. /\ pager' = [pager EXCEPT ![t] = c] /\ UNCHANGED <<micros, data, begun>> /\ index'.ent = pager[t].ent
        /\ pager[t].at = "index" /\ PagerInv(pager[t], begun)
    BY <1>0, <1>5 DEF set_write_index
  <2>2. PagerInv(c, begun) /\ Named(index'.ent, begun)
    BY <2>1 DEF PagerInv
  <2> HIDE DEF c
  <2>3. QED  BY <1>0, <1>a, <2>1, <2>2
<1>d. PagerInv(Resting, begun)
  BY DEF PagerInv, Resting
<1>6. ASSUME NEW t \in Pagers, set_write_data(t) PROVE PageInv'
  <2>1. /\ pager' = [pager EXCEPT ![t] = Resting] /\ UNCHANGED <<micros, index, begun>>
        /\ data' = Put(data, pager[t].id, [page |-> pager[t].page, exp |-> micros + PageTtl])
        /\ <<pager[t].id, pager[t].page>> \in begun
    BY <1>0, <1>6 DEF set_write_data, PagerInv
  <2>2. \A id \in DOMAIN data' : <<id, data'[id].page>> \in begun
    BY <1>0, <2>1 DEF Put
  <2>3. QED  BY <1>0, <1>a, <1>d, <2>1, <2>2
<1>7. ASSUME NEW t \in Pagers, NEW p \in Pages, page_index(t, p) PROVE PageInv'
  <2> DEFINE hits == {i \in DOMAIN IndexNow : IndexNow[i][1] = p /\ Alive(IndexNow[i][2])}
             k == CHOOSE i \in hits : \A j \in hits : i <= j
             c == [Resting EXCEPT !.at = "found", !.page = p, !.id = IndexNow[k][2]]
  <2>1. pager' = [pager EXCEPT ![t] = c] /\ UNCHANGED <<micros, index, data, begun>> /\ hits # {}
    BY <1>7 DEF page_index
  <2>2. hits \in SUBSET Nat
    BY <1>c DEF Named
  <2>3. k \in hits
    BY <2>1, <2>2, LeastOf
  <2>4. Begins(IndexNow[k], begun) /\ IndexNow[k] \in Int \X Nat /\ IndexNow[k][1] = p
    BY <1>c, <2>3 DEF Named
  <2> HIDE DEF k
  <2>5. c.at = "found" /\ c.page = p /\ c.id = IndexNow[k][2]
    BY DEF Resting
  <2> HIDE DEF c
  <2>6. PagerInv(c, begun)
    BY <2>4, <2>5 DEF PagerInv, Begins
  <2>7. QED  BY <1>0, <1>a, <2>1, <2>6
<1>8. ASSUME NEW t \in Pagers, page_get(t) PROVE PageInv'
  <2> DEFINE a == IF Alive(pager[t].id) THEN data[pager[t].id].page ELSE 0
             c == [[pager[t] EXCEPT !.at = "got"] EXCEPT !.ans = a]
  <2>1. /\ pager' = [pager EXCEPT ![t] = c] /\ UNCHANGED <<micros, index, data, begun>>
        /\ pager[t].at = "found" /\ PagerInv(pager[t], begun)
    BY <1>0, <1>8 DEF page_get
  <2>2. a # 0 => <<pager[t].id, a>> \in begun
    BY <1>0 DEF Alive
  <2> HIDE DEF a
  <2>3. PagerInv(c, begun)
    BY <2>1, <2>2 DEF PagerInv
  <2> HIDE DEF c
  <2>4. QED  BY <1>0, <1>a, <2>1, <2>3
<1>9. ASSUME NEW t \in Pagers, page_done(t) PROVE PageInv'
  BY <1>0, <1>9, <1>a, <1>d DEF page_done
<1>10. QED
  BY <1>1, <1>2, <1>3, <1>4, <1>5, <1>6, <1>7, <1>8, <1>9 DEF PageNext

LEMMA PageStart == PageInit => PageInv
<1>1. PagerInv(Resting, begun)
  BY DEF PagerInv, Resting
<1>2. Named(<<>>, begun)
  BY DEF Named
<1>3. QED  BY <1>1, <1>2 DEF PageInit, PageInv, NoIndex

LEMMA PageShows == PageInv => PageOwn
  BY DEF PageInv, PagerInv, PageOwn

-----------------------------------------------------------------------------
(***************************************************************************)
(* ModuleHost, database.  The scanner of the MySQL rewriting and a server  *)
(* that reads the text itself agree, character by character, on what lies  *)
(* in a literal: they differ only between the two halves of a doubled      *)
(* quote.  So they find the same marks, in the same order.                 *)
(***************************************************************************)
Stepwise(n, V, start, G) ==
  \E f \in [0..n -> V] : f[0] = start /\ \A i \in 1..n : f[i] = G[<<f[i - 1], i>>]

\* A function over 0..n whose value at i is a step from the one at i - 1.
LEMMA StepwiseExists ==
  ASSUME NEW n \in Nat, NEW V, NEW start \in V, NEW G, \A x \in V, i \in 1..n : G[<<x, i>>] \in V
  PROVE  Stepwise(n, V, start, G)
<1> DEFINE Built(m) == \E f \in [0..m -> V] : f[0] = start /\ \A i \in 1..m : f[i] = G[<<f[i - 1], i>>]
           Missing == {m \in 0..n : ~Built(m)}
<1>1. Built(0)
  <2> DEFINE f == [i \in 0..0 |-> start]
  <2>1. f \in [0..0 -> V] /\ f[0] = start /\ \A i \in 1..0 : f[i] = G[<<f[i - 1], i>>]
    OBVIOUS
  <2>2. QED  BY <2>1
<1>2. ASSUME NEW m \in 1..n, Built(m - 1) PROVE Built(m)
  <2>1. PICK f \in [0..(m - 1) -> V] : f[0] = start /\ \A i \in 1..(m - 1) : f[i] = G[<<f[i - 1], i>>]
    BY <1>2
  <2> DEFINE g == [i \in 0..m |-> IF i = m THEN G[<<f[m - 1], m>>] ELSE f[i]]
  <2>2. f[m - 1] \in V /\ G[<<f[m - 1], m>>] \in V
    BY <2>1
  <2>3. g \in [0..m -> V]
    BY <2>1, <2>2
  <2>4. g[0] = start
    BY <2>1
  <2>5. ASSUME NEW i \in 1..m PROVE g[i] = G[<<g[i - 1], i>>]
    <3>1. i - 1 \in 0..m /\ i - 1 # m /\ i \in 0..m
      OBVIOUS
    <3>2. g[i - 1] = f[i - 1]
      BY <3>1
    <3>3. QED  BY <2>1, <3>1, <3>2
  <2> HIDE DEF g
  <2>6. QED  BY <2>3, <2>4, <2>5
<1>3. CASE Missing = {}
  <2>1. n \in 0..n /\ n \notin Missing
    BY <1>3
  <2>2. Built(n)
    BY <2>1
  <2>3. QED  BY <2>2 DEF Stepwise
<1>4. CASE Missing # {}
  <2>1. Missing \in SUBSET Nat
    OBVIOUS
  <2>2. PICK m \in Missing : \A k \in Missing : m <= k
    BY <1>4, <2>1, LeastOf
  <2>3. m \in 0..n /\ ~Built(m) /\ m # 0
    BY <1>1, <2>2
  <2>4. m \in 1..n /\ m - 1 \in 0..n /\ m - 1 \notin Missing
    <3>1. m \in 1..n /\ m - 1 \in 0..n /\ ~(m <= m - 1)
      BY <2>3
    <3> HIDE DEF Missing
    <3>2. QED  BY <2>2, <3>1
  <2>5. Built(m - 1)
    BY <2>4
  <2>6. QED  BY <1>2, <2>3, <2>4, <2>5
<1>5. QED  BY <1>3, <1>4

\* What is so at 0 and goes over from one place to the next is so at all.
LEMMA AlongIs ==
  ASSUME NEW n \in Nat, NEW Good \in SUBSET Nat, 0 \in Good,
         \A i \in 1..n : i - 1 \in Good => i \in Good
  PROVE  \A i \in 0..n : i \in Good
<1> DEFINE Bad == (0..n) \ Good
<1>1. CASE Bad = {}
  BY <1>1
<1>2. CASE Bad # {}
  <2>1. Bad \in SUBSET Nat
    OBVIOUS
  <2>2. PICK m \in Bad : \A k \in Bad : m <= k
    BY <1>2, <2>1, LeastOf
  <2>3. m \in 1..n /\ m - 1 \notin Bad /\ m - 1 \in 0..n
    BY <2>2
  <2>4. QED  BY <2>2, <2>3
<1>3. QED  BY <1>1, <1>2

Texts == Seq(-2..3)
Params == Seq(JsonKinds)
ScanStates == [marks : Nat, ordered : Params, quote : {0} \cup Quotes, skip : BOOLEAN, err : BOOLEAN]

LEMMA ScanType ==
  ASSUME NEW sql \in Texts, NEW params \in Params, NEW acc \in ScanStates, NEW i \in 1..Len(sql)
  PROVE  Scan(sql, params, acc, i) \in ScanStates
<1>1. sql[i] \in -2..3 /\ sql[i] \in Int /\ Len(params) \in Nat /\ \A k \in 1..Len(params) : params[k] \in JsonKinds
  BY DEF Texts, Params
<1>2. acc.marks \in Nat /\ acc.ordered \in Params /\ acc.quote \in {0} \cup Quotes /\ acc.skip \in BOOLEAN /\ acc.err \in BOOLEAN
  BY DEF ScanStates
<1>3. ASSUME sql[i] > 0, sql[i] <= Len(params)
      PROVE [acc EXCEPT !.marks = @ + 1, !.ordered = Append(@, params[sql[i]])] \in ScanStates
  <2>1. Append(acc.ordered, params[sql[i]]) \in Params
    BY <1>1, <1>2, <1>3 DEF Params
  <2> DEFINE longer == Append(acc.ordered, params[sql[i]])
             more == acc.marks + 1
  <2>2. longer \in Params /\ more \in Nat
    BY <1>2, <2>1
  <2> HIDE DEF longer, more
  <2>3. [acc EXCEPT !.marks = more, !.ordered = longer] \in ScanStates
    BY <2>2 DEF ScanStates
  <2>4. QED  BY <2>3 DEF longer, more
<1>4. /\ [acc EXCEPT !.skip = FALSE] \in ScanStates /\ [acc EXCEPT !.skip = TRUE] \in ScanStates
      /\ [acc EXCEPT !.quote = 0] \in ScanStates /\ [acc EXCEPT !.err = TRUE] \in ScanStates
      /\ (sql[i] \in Quotes => [acc EXCEPT !.quote = sql[i]] \in ScanStates)
  BY DEF ScanStates
<1>5. QED  BY <1>1, <1>2, <1>3, <1>4 DEF Scan

LEMMA ScannedIs ==
  ASSUME NEW sql \in Texts, NEW params \in Params
  PROVE  /\ Scanned(sql, params) \in [0..Len(sql) -> ScanStates]
         /\ Scanned(sql, params)[0] = Scan0
         /\ \A i \in 1..Len(sql) : Scanned(sql, params)[i] = Scan(sql, params, Scanned(sql, params)[i - 1], i)
<1>1. Len(sql) \in Nat
  BY DEF Texts
<1> DEFINE G == [x \in ScanStates \X (1..Len(sql)) |-> Scan(sql, params, x[1], x[2])]
<1>2. \A x \in ScanStates, i \in 1..Len(sql) : G[<<x, i>>] = Scan(sql, params, x, i) /\ G[<<x, i>>] \in ScanStates
  BY ScanType
<1>3. Scan0 \in ScanStates
  <2>1. <<>> \in Params
    BY DEF Params
  <2>2. QED  BY <2>1 DEF Scan0, ScanStates
<1> HIDE DEF G
<1>4. PICK f \in [0..Len(sql) -> ScanStates] : f[0] = Scan0 /\ \A i \in 1..Len(sql) : f[i] = G[<<f[i - 1], i>>]
  <2>1. \A x \in ScanStates, i \in 1..Len(sql) : G[<<x, i>>] \in ScanStates
    BY <1>2
  <2>2. Stepwise(Len(sql), ScanStates, Scan0, G)
    BY ONLY <1>1, <1>3, <2>1, StepwiseExists
  <2>3. QED  BY <2>2 DEF Stepwise
<1>5. ASSUME NEW i \in 1..Len(sql) PROVE f[i] = Scan(sql, params, f[i - 1], i)
  <2>1. f[i - 1] \in ScanStates
    BY <1>1, <1>4
  <2>2. QED  BY <1>2, <1>4, <2>1
<1> DEFINE Step(g) == [i \in 0..Len(sql) |-> IF i = 0 THEN Scan0 ELSE Scan(sql, params, g[i - 1], i)]
<1>6. f = Step(f)
  <2>1. ASSUME NEW i \in 0..Len(sql) PROVE f[i] = Step(f)[i]
    BY <1>1, <1>4, <1>5, <2>1
  <2>2. DOMAIN Step(f) = 0..Len(sql) /\ DOMAIN f = 0..Len(sql) /\ f = [i \in 0..Len(sql) |-> f[i]]
    BY <1>4
  <2>3. QED  BY <2>1, <2>2
<1>7. Scanned(sql, params) = CHOOSE g : g = Step(g)
  BY DEF Scanned
<1>8. Scanned(sql, params) = Step(Scanned(sql, params))
  BY <1>6, <1>7
<1> DEFINE h == Scanned(sql, params)
<1>9. h[0] = Scan0 /\ \A i \in 1..Len(sql) : h[i] = Scan(sql, params, h[i - 1], i)
  BY <1>1, <1>8
<1> HIDE DEF Step
<1>10. h \in [0..Len(sql) -> ScanStates]
  <2> DEFINE Good == {i \in 0..Len(sql) : h[i] \in ScanStates}
  <2>1. 0 \in Good
    BY <1>1, <1>3, <1>9
  <2>2. ASSUME NEW i \in 1..Len(sql), i - 1 \in Good PROVE i \in Good
    BY <1>1, <1>9, <2>2, ScanType
  <2>3. Good \in SUBSET Nat
    OBVIOUS
  <2> HIDE DEF Good
  <2>4. \A i \in 0..Len(sql) : i \in Good
    BY ONLY <1>1, <2>1, <2>2, <2>3, AlongIs
  <2>5. h = [i \in 0..Len(sql) |-> h[i]]
    BY <1>8 DEF Step
  <2>6. QED  BY <2>4, <2>5 DEF Good
<1>11. QED  BY <1>9, <1>10

LEMMA InLiteralIs ==
  ASSUME NEW sql \in Texts
  PROVE  /\ InLiteral(sql)[0] = 0
         /\ \A i \in 1..Len(sql) : InLiteral(sql)[i] =
              LET before == InLiteral(sql)[i - 1] IN
              IF before = 0 THEN (IF sql[i] \in Quotes THEN sql[i] ELSE 0)
              ELSE IF sql[i] = before THEN 0 ELSE before
<1>1. Len(sql) \in Nat
  BY DEF Texts
<1> DEFINE Read(x, i) == IF x = 0 THEN (IF sql[i] \in Quotes THEN sql[i] ELSE 0)
                         ELSE IF sql[i] = x THEN 0 ELSE x
           V == {0} \cup Quotes
           G == [x \in V \X (1..Len(sql)) |-> Read(x[1], x[2])]
<1>2. \A x \in V, i \in 1..Len(sql) : G[<<x, i>>] = Read(x, i) /\ G[<<x, i>>] \in V
  OBVIOUS
<1>3. 0 \in V
  OBVIOUS
<1> HIDE DEF G, V
<1>4. Stepwise(Len(sql), V, 0, G)
  <2>1. \A x \in V, i \in 1..Len(sql) : G[<<x, i>>] \in V
    BY <1>2
  <2>2. QED  BY ONLY <1>1, <1>3, <2>1, StepwiseExists
<1>5. PICK f \in [0..Len(sql) -> V] : f[0] = 0 /\ \A i \in 1..Len(sql) : f[i] = G[<<f[i - 1], i>>]
  BY <1>4 DEF Stepwise
<1> DEFINE Step(g) == [i \in 0..Len(sql) |-> IF i = 0 THEN 0
                         ELSE IF g[i-1] = 0 THEN (IF sql[i] \in Quotes THEN sql[i] ELSE 0)
                         ELSE IF sql[i] = g[i-1] THEN 0 ELSE g[i-1]]
<1>6. f = Step(f)
  <2>1. ASSUME NEW i \in 0..Len(sql) PROVE f[i] = Step(f)[i]
    <3>1. i # 0 => i \in 1..Len(sql) /\ i - 1 \in 0..Len(sql)
      BY <1>1
    <3>2. i # 0 => f[i] = Read(f[i - 1], i)
      BY <1>2, <1>5, <3>1
    <3>3. QED  BY <1>5, <3>2
  <2>2. DOMAIN Step(f) = 0..Len(sql) /\ f = [i \in 0..Len(sql) |-> f[i]]
    BY <1>5
  <2>3. QED  BY <2>1, <2>2
<1>7. InLiteral(sql) = CHOOSE g : g = Step(g)
  BY DEF InLiteral
<1> HIDE DEF Step
<1>8. InLiteral(sql) = Step(InLiteral(sql))
  BY <1>6, <1>7
<1>9. QED  BY <1>1, <1>8 DEF Step

\* $n at place i of the text, outside of any literal.
IsMark(sql, i) == sql[i] > 0 /\ InLiteral(sql)[i - 1] = 0

LEMMA MarksIs ==
  ASSUME NEW sql \in Texts
  PROVE  /\ Marks(sql) \in [0..Len(sql) -> Seq(Nat)]
         /\ Marks(sql)[0] = <<>>
         /\ \A i \in 1..Len(sql) : Marks(sql)[i] =
              IF IsMark(sql, i) THEN Append(Marks(sql)[i - 1], i) ELSE Marks(sql)[i - 1]
<1>1. Len(sql) \in Nat
  BY DEF Texts
<1> DEFINE Found(x, i) == IF IsMark(sql, i) THEN Append(x, i) ELSE x
           V == Seq(Nat)
           G == [x \in V \X (1..Len(sql)) |-> Found(x[1], x[2])]
<1>2. ASSUME NEW x \in V, NEW i \in 1..Len(sql)
      PROVE G[<<x, i>>] = Found(x, i) /\ G[<<x, i>>] \in V
  <2>1. G[<<x, i>>] = Found(x, i)
    OBVIOUS
  <2>2. Append(x, i) \in V /\ x \in V
    BY <1>1
  <2>3. QED  BY <2>1, <2>2
<1>3. <<>> \in V
  OBVIOUS
<1> HIDE DEF G, V
<1>4. Stepwise(Len(sql), V, <<>>, G)
  <2>1. \A x \in V, i \in 1..Len(sql) : G[<<x, i>>] \in V
    BY <1>2
  <2>2. QED  BY ONLY <1>1, <1>3, <2>1, StepwiseExists
<1>5. PICK f \in [0..Len(sql) -> V] : f[0] = <<>> /\ \A i \in 1..Len(sql) : f[i] = G[<<f[i - 1], i>>]
  BY <1>4 DEF Stepwise
<1> DEFINE Step(g) == [i \in 0..Len(sql) |-> IF i = 0 THEN <<>>
                         ELSE IF IsMark(sql, i) THEN Append(g[i-1], i) ELSE g[i-1]]
<1>a. \A i \in 1..Len(sql) : i - 1 \in 0..Len(sql) /\ i \in 0..Len(sql) /\ i # 0
  BY <1>1
<1>6. f = Step(f)
  <2>1. ASSUME NEW i \in 0..Len(sql) PROVE f[i] = Step(f)[i]
    <3>1. i # 0 => i \in 1..Len(sql) /\ i - 1 \in 0..Len(sql)
      BY <1>1
    <3>2. i # 0 => f[i] = Found(f[i - 1], i)
      BY <1>2, <1>5, <3>1
    <3>3. QED  BY <1>5, <3>2
  <2>2. DOMAIN Step(f) = 0..Len(sql) /\ f = [i \in 0..Len(sql) |-> f[i]]
    BY <1>5
  <2>3. QED  BY <2>1, <2>2
<1>7. Marks(sql) = CHOOSE g : g = Step(g)
  BY DEF Marks, IsMark
<1> HIDE DEF Step
<1> DEFINE h == Marks(sql)
<1>8. h = Step(h)
  BY <1>6, <1>7
<1> HIDE DEF h
<1>9. h[0] = <<>> /\ \A i \in 1..Len(sql) : h[i] = Found(h[i - 1], i)
  <2>1. ASSUME NEW i \in 1..Len(sql) PROVE h[i] = Found(h[i - 1], i)
    <3>1. Step(h)[i] = Found(h[i - 1], i)
      BY <1>a DEF Step
    <3>2. QED  BY <1>8, <3>1
  <2>2. Step(h)[0] = <<>>
    BY <1>1 DEF Step
  <2>3. QED  BY <1>8, <2>1, <2>2
<1>10. h = [i \in 0..Len(sql) |-> h[i]]
  BY <1>8 DEF Step
<1>11. h \in [0..Len(sql) -> V]
  <2> DEFINE Good == {i \in 0..Len(sql) : h[i] \in V}
  <2>1. 0 \in Good
    BY <1>1, <1>3, <1>9
  <2>2. ASSUME NEW i \in 1..Len(sql), i - 1 \in Good PROVE i \in Good
    <3>1. h[i - 1] \in V
      BY <2>2
    <3>2. Found(h[i - 1], i) \in V
      BY <1>2, <3>1
    <3>3. QED  BY <1>a, <1>9, <3>2
  <2>3. Good \in SUBSET Nat
    OBVIOUS
  <2> HIDE DEF Good
  <2>4. \A i \in 0..Len(sql) : i \in Good
    BY ONLY <1>1, <2>1, <2>2, <2>3, AlongIs
  <2>5. QED  BY <1>10, <2>4 DEF Good
<1>12. QED  BY <1>9, <1>11 DEF h, V

\* No mark is left out.
LEMMA MarksComplete ==
  ASSUME NEW sql \in Texts
  PROVE  \A j \in 1..Len(sql) : IsMark(sql, j) => \E k \in 1..Len(Marks(sql)[Len(sql)]) : Marks(sql)[Len(sql)][k] = j
<1>1. Len(sql) \in Nat
  BY DEF Texts
<1> DEFINE Has(i, j) == \E k \in 1..Len(Marks(sql)[i]) : Marks(sql)[i][k] = j
           Good == {i \in 0..Len(sql) : \A j \in 1..i : IsMark(sql, j) => Has(i, j)}
<1>2. ASSUME NEW i \in 1..Len(sql), i - 1 \in Good, NEW j \in 1..i, IsMark(sql, j) PROVE Has(i, j)
  <2>1. Marks(sql)[i - 1] \in Seq(Nat) /\ i \in Nat
    BY <1>1, MarksIs
  <2>2. Marks(sql)[i] = IF IsMark(sql, i) THEN Append(Marks(sql)[i - 1], i) ELSE Marks(sql)[i - 1]
    BY MarksIs
  <2>3. CASE j = i
    <3>1. /\ Len(Marks(sql)[i]) = Len(Marks(sql)[i - 1]) + 1 /\ Len(Marks(sql)[i - 1]) \in Nat
          /\ Marks(sql)[i][Len(Marks(sql)[i - 1]) + 1] = i
      BY <1>2, <2>1, <2>2, <2>3
    <3>2. QED  BY <2>3, <3>1
  <2>4. CASE j # i
    <3>1. PICK k \in 1..Len(Marks(sql)[i - 1]) : Marks(sql)[i - 1][k] = j
      BY <1>1, <1>2, <2>4
    <3>2. k \in 1..Len(Marks(sql)[i]) /\ Marks(sql)[i][k] = j
      BY <2>1, <2>2, <3>1
    <3>3. QED  BY <3>2
  <2>5. QED  BY <2>3, <2>4
<1>3. 0 \in Good /\ Good \in SUBSET Nat /\ \A i \in 1..Len(sql) : i \in 0..Len(sql)
  BY <1>1
<1>4. ASSUME NEW i \in 1..Len(sql), i - 1 \in Good PROVE i \in Good
  <2> HIDE DEF Has
  <2>1. \A j \in 1..i : IsMark(sql, j) => Has(i, j)
    BY <1>2, <1>4
  <2>2. QED  BY <1>3, <2>1
<1> HIDE DEF Good
<1>5. \A i \in 0..Len(sql) : i \in Good
  BY ONLY <1>1, <1>3, <1>4, AlongIs
<1>6. QED  BY <1>1, <1>5 DEF Good

\* What the scanner and the server know after i characters of a text whose
\* marks all have a parameter.
Agree(sql, params, i) ==
  LET acc == Scanned(sql, params)[i]
      marks == Marks(sql)[i]
  IN  /\ ~acc.err
      /\ acc.skip => /\ i < Len(sql) /\ sql[i + 1] = acc.quote /\ acc.quote # 0
                     /\ InLiteral(sql)[i] = 0
      /\ ~acc.skip => InLiteral(sql)[i] = acc.quote
      /\ acc.marks = Len(marks) /\ Len(acc.ordered) = Len(marks)
      /\ \A k \in 1..Len(marks) :
           /\ marks[k] \in 1..i /\ IsMark(sql, marks[k])
           /\ acc.ordered[k] = params[sql[marks[k]]]

LEMMA NextAgrees ==
  ASSUME NEW sql \in Texts, NEW params \in Params, NEW i \in 1..Len(sql), Agree(sql, params, i - 1),
         IsMark(sql, i) => sql[i] <= Len(params)
  PROVE  Agree(sql, params, i)
<1> DEFINE acc == Scanned(sql, params)[i - 1]
           now == Scanned(sql, params)[i]
           marks == Marks(sql)[i - 1]
           next == Marks(sql)[i]
           c == sql[i]
<1>1. /\ Len(sql) \in Nat /\ c \in -2..3 /\ c \in Int /\ i \in Nat /\ i - 1 \in 0..Len(sql) /\ i \in 0..Len(sql)
      /\ Len(params) \in Nat /\ \A k \in 1..Len(params) : params[k] \in JsonKinds
  BY DEF Texts, Params
<1>2. acc \in ScanStates /\ marks \in Seq(Nat)
  BY <1>1, ScannedIs, MarksIs
<1>3. now = Scan(sql, params, acc, i)
  BY ScannedIs
<1>4. next = IF IsMark(sql, i) THEN Append(marks, i) ELSE marks
  BY MarksIs
<1>5. InLiteral(sql)[i] = LET before == InLiteral(sql)[i - 1] IN
              IF before = 0 THEN (IF c \in Quotes THEN c ELSE 0)
              ELSE IF c = before THEN 0 ELSE before
  BY InLiteralIs
<1>6. /\ ~acc.err /\ acc.marks = Len(marks) /\ Len(acc.ordered) = Len(marks)
      /\ acc.skip => /\ c = acc.quote /\ acc.quote # 0 /\ InLiteral(sql)[i - 1] = 0
      /\ ~acc.skip => InLiteral(sql)[i - 1] = acc.quote
      /\ \A k \in 1..Len(marks) :
           /\ marks[k] \in 1..(i - 1) /\ IsMark(sql, marks[k])
           /\ acc.ordered[k] = params[sql[marks[k]]]
  BY <1>1 DEF Agree
<1>7. /\ acc.quote \in {0} \cup Quotes /\ acc.skip \in BOOLEAN /\ acc.ordered \in Params /\ acc.marks \in Nat
      /\ (c \in Quotes => ~(c > 0)) /\ \A q \in Quotes : q # 0 /\ q \in Int
  BY <1>2 DEF ScanStates, Quotes
<1> HIDE DEF acc, now, marks, next, c
<1>8. IsMark(sql, i) <=> c > 0 /\ ~acc.skip /\ acc.quote = 0
  BY <1>6, <1>7 DEF IsMark, c
<1>9. CASE ~IsMark(sql, i)
  <2>1. next = marks
    BY <1>4, <1>9
  <2>2. /\ ~now.err /\ now.marks = acc.marks /\ now.ordered = acc.ordered
        /\ now.skip => i < Len(sql) /\ sql[i + 1] = now.quote /\ now.quote # 0 /\ InLiteral(sql)[i] = 0
        /\ ~now.skip => InLiteral(sql)[i] = now.quote
    <3>1. CASE acc.skip
      <4>1. now = [acc EXCEPT !.skip = FALSE]
        BY <1>3, <1>6, <1>7, <3>1 DEF Scan
      <4>2. now.err = acc.err /\ now.marks = acc.marks /\ now.ordered = acc.ordered /\ now.quote = acc.quote /\ ~now.skip
        BY <1>2, <4>1 DEF ScanStates
      <4>3. c \in Quotes /\ InLiteral(sql)[i] = c
        BY <1>5, <1>6, <1>7, <3>1
      <4>4. QED  BY <1>6, <3>1, <4>2, <4>3
    <3>2. CASE ~acc.skip /\ acc.quote # 0
      <4>1. CASE c # acc.quote
        <5>1. now = acc
          BY <1>3, <1>6, <3>2, <4>1 DEF Scan, c
        <5>2. InLiteral(sql)[i] = acc.quote
          BY <1>5, <1>6, <3>2, <4>1
        <5>3. QED  BY <1>6, <3>2, <5>1, <5>2
      <4>2. CASE c = acc.quote /\ i < Len(sql) /\ sql[i + 1] = c
        <5>1. now = [acc EXCEPT !.skip = TRUE]
          BY <1>3, <1>6, <3>2, <4>2 DEF Scan, c
        <5>2. now.err = acc.err /\ now.marks = acc.marks /\ now.ordered = acc.ordered /\ now.quote = acc.quote /\ now.skip
          BY <1>2, <5>1 DEF ScanStates
        <5>3. InLiteral(sql)[i] = 0
          BY <1>5, <1>6, <3>2, <4>2
        <5>4. QED  BY <1>6, <3>2, <4>2, <5>2, <5>3
      <4>3. CASE c = acc.quote /\ ~(i < Len(sql) /\ sql[i + 1] = c)
        <5>1. now = [acc EXCEPT !.quote = 0]
          BY <1>3, <1>6, <3>2, <4>3 DEF Scan, c
        <5>2. now.err = acc.err /\ now.marks = acc.marks /\ now.ordered = acc.ordered /\ now.quote = 0 /\ ~now.skip
          BY <1>2, <3>2, <5>1 DEF ScanStates
        <5>3. InLiteral(sql)[i] = 0
          BY <1>5, <1>6, <3>2, <4>3
        <5>4. QED  BY <1>6, <5>2, <5>3
      <4>4. QED  BY <4>1, <4>2, <4>3
    <3>3. CASE ~acc.skip /\ acc.quote = 0
      <4>1. CASE c \in Quotes
        <5>1. now = [acc EXCEPT !.quote = c]
          BY <1>3, <1>6, <1>7, <3>3, <4>1 DEF Scan, c
        <5>2. now.err = acc.err /\ now.marks = acc.marks /\ now.ordered = acc.ordered /\ now.quote = c /\ ~now.skip
          BY <1>2, <3>3, <5>1 DEF ScanStates
        <5>3. InLiteral(sql)[i] = c
          BY <1>5, <1>6, <3>3, <4>1
        <5>4. QED  BY <1>6, <5>2, <5>3
      <4>2. CASE c \notin Quotes
        <5>1. now = acc
          BY <1>3, <1>6, <1>8, <1>9, <3>3, <4>2 DEF Scan, c
        <5>2. InLiteral(sql)[i] = 0
          BY <1>5, <1>6, <3>3, <4>2
        <5>3. QED  BY <1>6, <3>3, <5>1, <5>2
      <4>3. QED  BY <4>1, <4>2
    <3>4. QED  BY <1>7, <3>1, <3>2, <3>3
  <2>3. \A k \in 1..Len(next) : next[k] \in 1..i /\ IsMark(sql, next[k]) /\ now.ordered[k] = params[sql[next[k]]]
    BY <1>1, <1>6, <2>1, <2>2
  <2>4. QED  BY <1>6, <2>1, <2>2, <2>3 DEF Agree, now, next
<1>10. CASE IsMark(sql, i)
  <2>1. c > 0 /\ ~acc.skip /\ acc.quote = 0 /\ c \in 1..Len(params)
    BY <1>1, <1>8, <1>10 DEF c
  <2> DEFINE longer == Append(acc.ordered, params[c])
             more == acc.marks + 1
  <2>2. now = [acc EXCEPT !.marks = more, !.ordered = longer]
    BY <1>1, <1>3, <1>6, <1>7, <2>1 DEF Scan, c
  <2>3. /\ acc.ordered \in Seq(JsonKinds) /\ params[c] \in JsonKinds
    BY <1>1, <1>7, <2>1 DEF Params
  <2>4. /\ Len(longer) = Len(acc.ordered) + 1 /\ longer[Len(acc.ordered) + 1] = params[c]
        /\ \A k \in 1..Len(acc.ordered) : longer[k] = acc.ordered[k]
    BY <2>3
  <2>5. /\ Len(next) = Len(marks) + 1 /\ next[Len(marks) + 1] = i /\ Len(marks) \in Nat
        /\ \A k \in 1..Len(marks) : next[k] = marks[k]
    BY <1>1, <1>2, <1>4, <1>10
  <2> HIDE DEF longer
  <2>6. /\ ~now.err /\ now.marks = acc.marks + 1 /\ now.ordered = longer /\ now.quote = 0 /\ ~now.skip
    BY <1>2, <1>6, <2>1, <2>2 DEF ScanStates
  <2>7. InLiteral(sql)[i] = 0
    BY <1>5, <1>6, <1>7, <2>1
  <2>8. ASSUME NEW k \in 1..Len(next)
        PROVE next[k] \in 1..i /\ IsMark(sql, next[k]) /\ now.ordered[k] = params[sql[next[k]]]
    <3>1. CASE k = Len(marks) + 1
      BY <1>1, <1>6, <1>10, <2>4, <2>5, <2>6, <3>1 DEF c
    <3>2. CASE k \in 1..Len(marks)
      <4>1. next[k] = marks[k] /\ now.ordered[k] = acc.ordered[k]
        BY <1>6, <2>4, <2>5, <2>6, <3>2
      <4>2. marks[k] \in 1..(i - 1) /\ IsMark(sql, marks[k]) /\ acc.ordered[k] = params[sql[marks[k]]]
        BY <1>6, <3>2
      <4>3. marks[k] \in 1..i
        BY <1>1, <4>2
      <4>4. QED  BY <4>1, <4>2, <4>3
    <3>3. QED  BY <2>5, <3>1, <3>2
  <2>9. QED  BY <1>6, <2>4, <2>5, <2>6, <2>7, <2>8 DEF Agree, now, next
<1>11. QED  BY <1>9, <1>10

\* For a text of any length.
LEMMA AllAgree ==
  ASSUME NEW sql \in Texts, NEW params \in Params,
         \A i \in 1..Len(sql) : IsMark(sql, i) => sql[i] <= Len(params)
  PROVE  Agree(sql, params, Len(sql))
<1>1. Len(sql) \in Nat
  BY DEF Texts
<1> DEFINE Good == {i \in 0..Len(sql) : Agree(sql, params, i)}
<1>2. Agree(sql, params, 0)
  BY ScannedIs, MarksIs, InLiteralIs DEF Agree, Scan0
<1>3. ASSUME NEW i \in 1..Len(sql), i - 1 \in Good PROVE i \in Good
  BY <1>1, <1>3, NextAgrees
<1>4. 0 \in Good /\ Good \in SUBSET Nat
  BY <1>1, <1>2
<1> HIDE DEF Good
<1>5. \A i \in 0..Len(sql) : i \in Good
  BY ONLY <1>1, <1>3, <1>4, AlongIs
<1>6. QED  BY <1>1, <1>5 DEF Good

LEMMA StatementMeansOneThing ==
  ASSUME NEW sql \in Texts, NEW params \in Params
  PROVE  /\ query_numbered(sql, params)[1] = "ok" => query_mysql(sql, params) = query_numbered(sql, params)
         /\ query_numbered(sql, params)[1] = "ok" \/ query_numbered(sql, params)[1] = "refused"
<1> DEFINE marks == Marks(sql)[Len(sql)]
           given == [i \in DOMAIN params |-> bind_value(params[i])]
           asks == [i \in DOMAIN marks |-> given[sql[marks[i]]]]
           r == Scanned(sql, params)[Len(sql)]
           bound == [i \in DOMAIN r.ordered |-> bind_value(r.ordered[i])]
           refused == "error" \in Range(given) \/ \E i \in Range(marks) : sql[i] > Len(params)
<1>1. query_numbered(sql, params) = IF refused THEN <<"refused">> ELSE <<"ok">> \o ReadBack(asks)
  BY DEF query_numbered
<1>2. query_mysql(sql, params) = IF r.err \/ "error" \in Range(bound) \/ Len(bound) # r.marks
                                 THEN <<"refused">> ELSE <<"ok">> \o ReadBack(bound)
  BY DEF query_mysql, rewrite_placeholders_mysql
<1>3. /\ Len(sql) \in Nat /\ Len(params) \in Nat /\ DOMAIN params = 1..Len(params)
      /\ \A i \in 1..Len(sql) : sql[i] \in Int
  BY DEF Texts, Params
<1>4. r \in ScanStates /\ marks \in Seq(Nat) /\ r.ordered \in Seq(JsonKinds)
  BY <1>3, ScannedIs, MarksIs DEF ScanStates, Params
<1>5. DOMAIN marks = 1..Len(marks) /\ DOMAIN r.ordered = 1..Len(r.ordered) /\ Len(r.ordered) \in Nat
  BY <1>4
<1>6. ASSUME ~refused
      PROVE  query_mysql(sql, params) = <<"ok">> \o ReadBack(asks)
  <2>1. \A i \in 1..Len(sql) : IsMark(sql, i) => sql[i] <= Len(params)
    <3>1. ASSUME NEW i \in 1..Len(sql), IsMark(sql, i) PROVE ~(sql[i] > Len(params))
      <4>1. PICK k \in 1..Len(marks) : marks[k] = i
        BY <3>1, MarksComplete
      <4>2. i \in Range(marks)
        BY <1>5, <4>1 DEF Range
      <4>3. QED  BY <1>6, <4>2
    <3>2. QED  BY <1>3, <3>1
  <2>2. Agree(sql, params, Len(sql))
    BY <2>1, AllAgree
  <2>3. /\ ~r.err /\ r.marks = Len(marks) /\ Len(r.ordered) = Len(marks)
        /\ \A k \in 1..Len(marks) :
             marks[k] \in 1..Len(sql) /\ IsMark(sql, marks[k]) /\ r.ordered[k] = params[sql[marks[k]]]
    BY <2>2 DEF Agree
  <2> HIDE DEF r, marks
  <2>4. \A k \in 1..Len(marks) : sql[marks[k]] \in 1..Len(params)
    <3>1. ASSUME NEW k \in 1..Len(marks) PROVE sql[marks[k]] \in 1..Len(params)
      <4>1. marks[k] \in 1..Len(sql) /\ IsMark(sql, marks[k])
        BY <2>3
      <4>2. sql[marks[k]] > 0 /\ sql[marks[k]] <= Len(params) /\ sql[marks[k]] \in Int
        BY <1>3, <2>1, <4>1 DEF IsMark
      <4>3. QED  BY <1>3, <4>2
    <3>2. QED  BY <3>1
  <2>5. DOMAIN asks = 1..Len(marks) /\ DOMAIN bound = 1..Len(marks)
    BY <1>5, <2>3
  <2>6. ASSUME NEW k \in 1..Len(marks) PROVE bound[k] = asks[k] /\ bound[k] # "error"
    <3>1. bound[k] = bind_value(params[sql[marks[k]]])
      BY <1>5, <2>3
    <3>2. asks[k] = bind_value(params[sql[marks[k]]])
      BY <1>3, <1>5, <2>4
    <3>3. asks[k] \in Range(given)
      BY <1>3, <1>5, <2>4 DEF Range
    <3>4. QED  BY <1>6, <3>1, <3>2, <3>3
  <2>7. bound = asks
    <3>1. bound = [k \in 1..Len(marks) |-> bound[k]] /\ asks = [k \in 1..Len(marks) |-> asks[k]]
      BY <1>5, <2>3
    <3> HIDE DEF bound, asks
    <3>2. QED  BY <2>6, <3>1
  <2>8. "error" \notin Range(bound)
    <3> HIDE DEF bound
    <3>1. QED  BY <2>5, <2>6 DEF Range
  <2>9. Len(bound) = r.marks
    <3>1. Len(marks) \in Nat
      BY <1>4
    <3>2. Len(bound) = Len(r.ordered)
      BY <1>5
    <3>3. QED  BY <2>3, <3>2
  <2> HIDE DEF bound, asks
  <2>10. QED  BY <1>2, <2>3, <2>7, <2>8, <2>9
<1>7. (<<"ok">> \o ReadBack(asks))[1] = "ok"
  <2>1. ReadBack(asks) = [i \in 1..Len(marks) |-> row_to_json(asks[i])] /\ Len(marks) \in Nat
    BY <1>4, <1>5 DEF ReadBack
  <2>2. QED  BY <2>1
<1> HIDE DEF refused, asks
<1>8. QED  BY <1>1, <1>6, <1>7

DbInv == asked.sql \in Texts /\ SameOnEveryPool

LEMMA DbStep == DbInv /\ [DbNext]_dbvars => DbInv'
<1> SUFFICES ASSUME DbInv, [DbNext]_dbvars PROVE DbInv'
  OBVIOUS
<1>1. CASE UNCHANGED dbvars
  BY <1>1 DEF dbvars, DbInv, SameOnEveryPool
<1>2. CASE db_query
  <2>1. PICK c \in -2..3, params \in [1..2 -> JsonKinds] :
          asked' = [sql |-> Append(asked.sql, c), mysql |-> query_mysql(Append(asked.sql, c), params),
                    numbered |-> query_numbered(Append(asked.sql, c), params)]
    BY <1>2 DEF db_query
  <2>2. Append(asked.sql, c) \in Texts /\ params \in Params
    <3>1. Append(asked.sql, c) \in Texts
      BY DEF DbInv, Texts
    <3>2. params \in Params
      <4>1. ASSUME NEW n \in Nat, NEW f \in [1..n -> JsonKinds] PROVE f \in Seq(JsonKinds)
        OBVIOUS
      <4>2. QED  BY ONLY <4>1, params \in [1..2 -> JsonKinds] DEF Params
    <3>3. QED  BY <3>1, <3>2
  <2> DEFINE sql == Append(asked.sql, c)
  <2> HIDE DEF sql
  <2>3. asked'.sql = sql /\ asked'.mysql = query_mysql(sql, params) /\ asked'.numbered = query_numbered(sql, params)
    BY <2>1 DEF sql
  <2>4. sql \in Texts
    BY <2>2 DEF sql
  <2>5. QED  BY <2>2, <2>3, <2>4, StatementMeansOneThing DEF DbInv, SameOnEveryPool
<1>3. QED  BY <1>1, <1>2 DEF DbNext

LEMMA DbStart == DbInit => DbInv
  BY DEF DbInit, DbInv, Texts, SameOnEveryPool

\* What the host promises, for any number of viewers, modules and page tasks,
\* any channel capacity and ttl and statements of any length (api/modules.rs,
\* ffi.rs, cache.rs, db.rs): a stream announces every gap, a page is answered
\* with its own data, and a statement means the same on every kind of pool.
THEOREM HostAlwaysSound == HostSpec => []HostSound
<1>1. SseInit /\ PageInit /\ DbInit => SseInv /\ PageInv /\ DbInv
  BY SseStart, PageStart, DbStart
<1>2. SseInv /\ PageInv /\ DbInv => HostSound
  BY SseShows, PageShows DEF DbInv, HostSound
<1>3. SseInv /\ UNCHANGED hvars => SseInv'
  BY SseStep
<1>4. PageInv /\ UNCHANGED pgvars => PageInv'
  BY PageStep
<1>5. DbInv /\ UNCHANGED dbvars => DbInv'
  BY DbStep
<1>6. /\ SseInv /\ PageInv /\ DbInv
      /\ [\/ SseNext /\ UNCHANGED <<pgvars, dbvars>>
          \/ PageNext /\ UNCHANGED <<hvars, dbvars>>
          \/ DbNext /\ UNCHANGED <<hvars, pgvars>>]_<<hvars, pgvars, dbvars>>
      => (SseInv /\ PageInv /\ DbInv)'
  BY <1>3, <1>4, <1>5, SseStep, PageStep, DbStep
<1>7. QED  BY <1>1, <1>2, <1>6, PTL DEF HostSpec
=============================================================================
