----------------------------- MODULE NodeStatus -----------------------------
(***************************************************************************)
(* How a node's fault becomes part of the status: the node tasks report    *)
(* events, the event handler of the server (opsense/src/api/mod.rs)        *)
(* records them in NodeErrors, and Runtime::topology serves a snapshot     *)
(* from a cache (opsense-mlib/src/vector/runtime/engine.rs).  The handler, *)
(* the status calls and reload meet at one tokio RwLock around the         *)
(* runtime.                                                                *)
(***************************************************************************)
EXTENDS Integers, Sequences, FiniteSets

CONSTANTS
  Names,          \* node names
  NoFault, NoCache,
  MaxSlot,        \* bound: slots handed out
  MaxGeneration,  \* bound: reloads
  MaxEvents,      \* bound: events reported in a behaviour
  Cap             \* capacity of the event channel (100 in the code)

ASSUME StatusAssumption ==
  /\ MaxSlot \in Nat /\ MaxGeneration \in Nat \ {0}
  /\ MaxEvents \in Nat /\ Cap \in Nat \ {0}
  /\ IsFiniteSet(Names)

NoSlot == -1
Slot == 0 .. MaxSlot - 1
Kind == {"Minor", "Major", "Recovered"}

\* What is kept of a fault: its kind and the slot that reported it.
Fault == [kind : Kind \ {"Recovered"}, slot : Slot]

VARIABLES
  nodes,        \* name -> slot
  inc,          \* next fresh slot
  generation,
  by_node,      \* name -> last fault
  counts,       \* name -> how often set was called
  rev,          \* NodeErrors::rev
  cache,        \* topology_cache
  events,       \* the event channel
  reported,     \* events reported so far (bound)
  queue,        \* requests waiting for the lock, in order
  holders,      \* requests that hold it
  handler,      \* where the event handler is
  event,        \* the event it works on
  name,         \* the node name it looked up
  status,       \* where the status call is
  view          \* what the status call has read so far

vars == <<nodes, inc, generation, by_node, counts, rev, cache, events, reported,
          queue, holders, handler, event, name, status, view>>
graphVars == <<nodes, inc, generation>>
errVars == <<by_node, counts, rev>>
hVars == <<handler, event, name>>
sVars == <<status, view, cache>>

(***************************************************************************)
(* tokio::sync::RwLock: requests are served in the order they came, so a   *)
(* reader waits behind a writer that is itself waiting.                    *)
(***************************************************************************)
Compatible(r) == IF r = "reload" THEN holders = {} ELSE "reload" \notin holders

grant ==
  /\ queue # <<>> /\ Compatible(Head(queue))
  /\ holders' = holders \cup {Head(queue)}
  /\ queue' = Tail(queue)
  /\ UNCHANGED <<graphVars, errVars, sVars, hVars, events, reported>>

(***************************************************************************)
(* The node tasks: an event carries the slot of the task, which may have   *)
(* been removed in the meantime; a full channel holds the task up.         *)
(***************************************************************************)
report_event(i, kind) ==
  /\ i < inc
  /\ Len(events) < Cap /\ reported < MaxEvents
  /\ events' = Append(events, [kind |-> kind, slot |-> i])
  /\ reported' = reported + 1
  /\ UNCHANGED <<graphVars, errVars, sVars, hVars, queue, holders>>

(***************************************************************************)
(* The event handler.  The guard of the first read() lives until the end   *)
(* of the `if let` body, in which the handler asks for a second one.       *)
(***************************************************************************)
receive_event ==
  /\ handler = "idle" /\ events # <<>>
  /\ event' = Head(events) /\ events' = Tail(events)
  /\ handler' = "lookup"
  /\ queue' = Append(queue, "first")
  /\ UNCHANGED <<graphVars, errVars, sVars, name, reported, holders>>

\* Mutant of node_name: the first guard is dropped before the second is asked for.
node_name_DropsGuard ==
  /\ handler = "lookup" /\ "first" \in holders
  /\ holders' = holders \ {"first"}
  /\ \/ \E n \in Names :
          /\ nodes[n] = event.slot
          /\ name' = n
          /\ handler' = "report"
          /\ queue' = Append(queue, "second")
     \/ /\ \A n \in Names : nodes[n] # event.slot
        /\ handler' = "idle"
        /\ UNCHANGED <<name, queue>>
  /\ UNCHANGED <<graphVars, errVars, sVars, event, events, reported>>

node_name ==
  /\ handler = "lookup" /\ "first" \in holders
  /\ \/ \E n \in Names :
          /\ nodes[n] = event.slot
          /\ name' = n
          /\ handler' = "report"
          /\ queue' = Append(queue, "second")
          /\ UNCHANGED holders
     \/ /\ \A n \in Names : nodes[n] # event.slot
        /\ handler' = "idle"
        /\ holders' = holders \ {"first"}
        /\ UNCHANGED <<name, queue>>
  /\ UNCHANGED <<graphVars, errVars, sVars, event, events, reported>>

\* NodeErrors::set: the map, the counter and the revision one after the other.
\* The revision only moves when an entry appears or disappears.
set_by_node ==
  /\ handler = "report" /\ "second" \in holders
  /\ LET new == IF event.kind = "Recovered" THEN NoFault
                ELSE [kind |-> event.kind, slot |-> event.slot]
     IN  /\ by_node' = [by_node EXCEPT ![name] = new]
         /\ handler' = IF (by_node[name] = NoFault) # (new = NoFault)
                         THEN "bump_changed" ELSE "count"
  /\ UNCHANGED <<graphVars, counts, rev, sVars, event, name, events, reported, queue, holders>>

set_count ==
  /\ handler \in {"count", "bump_changed"}
  /\ counts' = [counts EXCEPT ![name] = @ + 1]
  /\ IF handler = "count"
       THEN handler' = "idle" /\ holders' = holders \ {"first", "second"}
       ELSE handler' = "bump" /\ UNCHANGED holders
  /\ UNCHANGED <<graphVars, by_node, rev, sVars, event, name, events, reported, queue>>

\* Mutant of set_rev: the revision does not move.
set_rev_Forgotten ==
  /\ handler = "bump"
  /\ handler' = "idle" /\ holders' = holders \ {"first", "second"}
  /\ UNCHANGED <<graphVars, errVars, sVars, event, name, events, reported, queue>>

set_rev ==
  /\ handler = "bump"
  /\ rev' = rev + 1
  /\ handler' = "idle" /\ holders' = holders \ {"first", "second"}
  /\ UNCHANGED <<graphVars, by_node, counts, sVars, event, name, events, reported, queue>>

(***************************************************************************)
(* A status call: read lock, then topology().                              *)
(***************************************************************************)
call_status ==
  /\ status = "idle"
  /\ status' = "load"
  /\ queue' = Append(queue, "status")
  /\ UNCHANGED <<graphVars, errVars, view, cache, hVars, events, reported, holders>>

Hit == cache # NoCache /\ cache.generation = generation /\ cache.rev = rev

topology_load ==
  /\ status = "load" /\ "status" \in holders
  /\ IF Hit THEN status' = "idle" /\ holders' = holders \ {"status"} /\ UNCHANGED view
     ELSE /\ status' = "errors"
          /\ view' = [generation |-> generation, rev |-> rev, nodes |-> nodes,
                      errors |-> by_node, counts |-> counts]
          /\ UNCHANGED holders
  /\ UNCHANGED <<graphVars, errVars, cache, hVars, events, reported, queue>>

\* build_topology copies the fault map and reads the counters afterwards.
build_errors ==
  /\ status = "errors"
  /\ view' = [view EXCEPT !.nodes = nodes, !.errors = by_node]
  /\ status' = "counts"
  /\ UNCHANGED <<graphVars, errVars, cache, hVars, events, reported, queue, holders>>

build_counts ==
  /\ status = "counts"
  /\ view' = [view EXCEPT !.counts = counts]
  /\ status' = "publish"
  /\ UNCHANGED <<graphVars, errVars, cache, hVars, events, reported, queue, holders>>

topology_publish ==
  /\ status = "publish"
  /\ cache' = IF view.generation = generation /\ view.rev = rev THEN view ELSE cache
  /\ status' = "idle" /\ holders' = holders \ {"status"}
  /\ UNCHANGED <<graphVars, errVars, view, hVars, events, reported, queue>>

(***************************************************************************)
(* reload under the write lock.  What it does to names and slots is the    *)
(* part of PipelineReload the status depends on: a name that stays keeps   *)
(* its slot, a new one gets a fresh slot.                                  *)
(***************************************************************************)
call_reload ==
  /\ "reload" \notin holders /\ \A k \in DOMAIN queue : queue[k] # "reload"
  /\ generation < MaxGeneration
  /\ queue' = Append(queue, "reload")
  /\ UNCHANGED <<graphVars, errVars, sVars, hVars, events, reported, holders>>

Registered == { n \in Names : nodes[n] # NoSlot }

reload(keep) ==
  /\ "reload" \in holders
  /\ LET new == keep \ Registered
     IN  /\ inc + Cardinality(new) <= MaxSlot
         /\ \E slot \in [new -> inc .. inc + Cardinality(new) - 1] :
              /\ \A m, n \in new : slot[m] = slot[n] => m = n
              /\ nodes' = [ n \in Names |-> IF n \in new THEN slot[n]
                                            ELSE IF n \in keep THEN nodes[n] ELSE NoSlot ]
         /\ inc' = inc + Cardinality(new)
  /\ generation' = generation + 1
  /\ holders' = holders \ {"reload"}
  /\ UNCHANGED <<errVars, sVars, hVars, events, reported, queue>>

(***************************************************************************)
(* Specification.                                                          *)
(***************************************************************************)
Init ==
  /\ nodes = [ n \in Names |-> NoSlot ] /\ inc = 0 /\ generation = 1
  /\ by_node = [ n \in Names |-> NoFault ]
  /\ counts = [ n \in Names |-> 0 ]
  /\ rev = 0
  /\ cache = NoCache
  /\ events = <<>> /\ reported = 0
  /\ queue = <<>> /\ holders = {}
  /\ handler = "idle" /\ event = [kind |-> "Recovered", slot |-> 0]
  /\ name \in Names
  /\ status = "idle" /\ view = NoCache

handle_event == receive_event \/ node_name \/ set_by_node \/ set_count \/ set_rev
topology == topology_load \/ build_errors \/ build_counts \/ topology_publish

Next ==
  \/ grant
  \/ \E i \in Slot, kind \in Kind : report_event(i, kind)
  \/ handle_event
  \/ call_status \/ topology
  \/ call_reload
  \/ \E keep \in SUBSET Names : reload(keep)

\* The lock is handed over when it is free, and whoever holds it goes on.
Fairness ==
  /\ WF_vars(grant)
  /\ WF_vars(handle_event)
  /\ WF_vars(topology)
  /\ WF_vars(\E keep \in SUBSET Names : reload(keep))

Spec == Init /\ [][Next]_vars /\ Fairness

(***************************************************************************)
(* Properties.                                                             *)
(***************************************************************************)
Settled == handler \in {"idle", "lookup", "report"}

\* A snapshot that would be served now lists exactly the registered nodes and
\* marks exactly the nodes that have a fault, although faults are recorded in
\* three steps while it is being built and published.
CachedPresence ==
  Settled /\ Hit =>
    /\ cache.nodes = nodes
    /\ \A n \in Names : (cache.errors[n] = NoFault) <=> (by_node[n] = NoFault)

\* A fault is booked on the node whose task reported it: the slot of an event
\* is turned into a name only later, when the slot may have been removed and
\* its name been given to another node.
RightNode ==
  [][ \A n \in Names : by_node'[n] # by_node[n] => nodes[n] = event.slot ]_vars

(***************************************************************************)
(* What comments of the code say and the code does not keep.               *)
(***************************************************************************)

\* The handler only reads the lock to look up a name "and then drops it ... it
\* is not a deadlock": an event that is being handled gets handled.
HandlerReturns == handler = "report" ~> handler = "idle"
=============================================================================
