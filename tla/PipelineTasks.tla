---------------------------- MODULE PipelineTasks ----------------------------
(***************************************************************************)
(* Runtime::reload one function at a time, interleaved with the node tasks *)
(* (Bootstrap::execute), start and shutdown                                *)
(* (opsense-mlib/src/vector/runtime/engine.rs).                            *)
(*                                                                         *)
(* reload runs under the write lock of the runtime, but the node tasks do  *)
(* not take that lock: they read the tables it is changing.  A task waits  *)
(* for a permit, reads its component and its senders once, and reads them  *)
(* again only after its own watch signal.                                  *)
(*                                                                         *)
(* The effect of a whole reload is the atomic one of PipelineReload: that  *)
(* is the refinement Atomic below.                                         *)
(***************************************************************************)
EXTENDS PipelineReload, Sequences

CONSTANT NoReload

VARIABLES
  call,        \* the reload under way, or NoReload
  started,     \* is_started
  permits,     \* free permits of the boot semaphore
  queue,       \* tasks waiting for a permit, in order
  tk,          \* slot -> where its task is
  own,         \* slot -> the component its Bootstrap holds
  seen,        \* slot -> the component its task works with
  outs,        \* slot -> the slots its task sends to
  signal,      \* slots whose watch signal is pending
  cancelled,   \* slots whose cancellation token fired
  shutdown     \* wait_for_shutdown: "no", "returned"

taskVars == <<queue, tk, seen, outs>>
ctlVars == <<started, permits, shutdown>>
allVars == <<vars, call, taskVars, own, signal, cancelled, ctlVars>>

\* A task is spawned, waits for a permit, reads its component, then the sinks
\* table, then the channels; it runs, sleeps after an error, and ends well or
\* with an error.  "none" is a slot whose task was never spawned.
TaskState == {"none", "spawned", "queued", "component", "mapping", "fanout",
              "run", "sleep", "ok", "err"}

Ended(i) == tk[i] \in {"ok", "err"}

\* The tables as they were when the reload under way began.
Snapshot ==
  [nodes |-> nodes, bootstraps |-> bootstraps, tasks |-> tasks, senders |-> senders,
   inputs |-> inputs, outputs |-> outputs, sources |-> sources, sinks |-> sinks, inc |-> inc]

TableRows ==
  [nodes : [Ids -> Idx \cup {NoIdx}], bootstraps : [Idx -> Component \cup {NoComp}],
   tasks : SUBSET Idx, senders : SUBSET Idx, inputs : SUBSET Idx, outputs : SUBSET Idx,
   sources : [Idx -> SUBSET Idx], sinks : [Idx -> SUBSET Idx], inc : 0 .. MaxIdx]

ReloadIn(phases, todos) ==
  [phase : phases, plan : Plans, adds : SUBSET Component, diffs : SUBSET Component,
   dels : SUBSET Idx, todo : SUBSET todos, before : TableRows]

Reload == ReloadIn({"add", "change"}, Component) \cup ReloadIn({"remove", "permits"}, Idx)

ASSUME NoReloadAssumption == NoReload \notin Reload

(***************************************************************************)
(* reload, one function after the other.  todo is what the loop of the     *)
(* current function has left.                                              *)
(***************************************************************************)
\* The server loads its configuration, starts the runtime under the same write
\* guard, and takes further reloads only then (opsense/src/api/mod.rs).
MayReload == call = NoReload /\ shutdown = "no" /\ (started \/ result = "none")

begin_reload(plan) ==
  /\ MayReload
  /\ Valid(plan)
  /\ generation < MaxGeneration
  /\ inc + Cardinality(Adds(plan)) <= MaxIdx
  /\ call' = [phase |-> "add", plan |-> plan, adds |-> Adds(plan), diffs |-> Diffs(plan),
              dels |-> Dels(plan), todo |-> Adds(plan), before |-> Snapshot]
  /\ UNCHANGED <<vars, taskVars, own, signal, cancelled, ctlVars>>

reject_reload(plan) ==
  /\ MayReload
  /\ reload_rejected(plan)
  /\ UNCHANGED <<call, taskVars, own, signal, cancelled, ctlVars>>

In(phase) == call # NoReload /\ call.phase = phase

Proceed(phase, todo) == call' = [call EXCEPT !.phase = phase, !.todo = todo]

\* One turn of add_new_nodes: the node enters every table and its task is
\* spawned, or its prepare fails and the reload returns half-way.
add_node(comp) ==
  /\ In("add") /\ comp \in call.todo
  /\ nodes' = [nodes EXCEPT ![comp.id] = inc]
  /\ bootstraps' = [bootstraps EXCEPT ![inc] = comp]
  /\ own' = [own EXCEPT ![inc] = comp]
  /\ senders' = senders \cup {inc}
  /\ inputs' = IF comp.type = "Input" THEN inputs \cup {inc} ELSE inputs
  /\ outputs' = IF comp.type = "Output" THEN outputs \cup {inc} ELSE outputs
  /\ inc' = inc + 1
  /\ UNCHANGED <<sources, sinks, generation, queue, seen, outs, signal, cancelled, ctlVars>>
  /\ \/ /\ Proceed("add", call.todo \ {comp})
        /\ tasks' = tasks \cup {inc}
        /\ tk' = [tk EXCEPT ![inc] = "spawned"]
        /\ UNCHANGED result
     \/ /\ comp.id \in Fragile
        /\ call' = NoReload
        /\ result' = "failed"
        /\ UNCHANGED <<tasks, tk>>

\* configure_links_after_adding_new_nodes and _after_changing_nodes.
link(phase, touched, next, todo) ==
  /\ In(phase)
  /\ sources' = LinkSources(touched, nodes)
  /\ sinks' = LinkSinks(touched, nodes)
  /\ Proceed(next, todo)
  /\ UNCHANGED <<nodes, bootstraps, tasks, senders, inputs, outputs, inc, generation, result,
                 taskVars, own, signal, cancelled, ctlVars>>

configure_links_after_adding_new_nodes ==
  In("add") /\ call.todo = {} /\ link("add", call.adds, "change", call.diffs)

configure_links_after_changing_nodes ==
  In("change") /\ call.todo = {} /\ link("change", call.diffs, "remove", call.dels)

\* Mutant of update_node: the component is stored and nobody is told.
update_node_NoSignal(comp) ==
  /\ In("change") /\ comp \in call.todo
  /\ bootstraps' = [bootstraps EXCEPT ![nodes[comp.id]] = comp]
  /\ own' = [own EXCEPT ![nodes[comp.id]] = comp]
  /\ Proceed("change", call.todo \ {comp})
  /\ UNCHANGED <<nodes, tasks, senders, inputs, outputs, sources, sinks, inc, generation,
                 result, taskVars, signal, cancelled, ctlVars>>

\* One turn of update_changing_nodes: Bootstrap::reload stores the component
\* and signals the task while it still holds the component's lock.
update_node(comp) ==
  /\ In("change") /\ comp \in call.todo
  /\ bootstraps' = [bootstraps EXCEPT ![nodes[comp.id]] = comp]
  /\ own' = [own EXCEPT ![nodes[comp.id]] = comp]
  /\ signal' = signal \cup {nodes[comp.id]}
  /\ Proceed("change", call.todo \ {comp})
  /\ UNCHANGED <<nodes, tasks, senders, inputs, outputs, sources, sinks, inc, generation,
                 result, taskVars, cancelled, ctlVars>>

\* Mutant of remove_node: the name stays registered.
remove_node_KeepsName(i) ==
  /\ In("remove") /\ i \in call.todo
  /\ cancelled' = cancelled \cup {i}
  /\ bootstraps' = [bootstraps EXCEPT ![i] = NoComp]
  /\ tasks' = tasks \ {i}
  /\ inputs' = inputs \ {i}
  /\ outputs' = outputs \ {i}
  /\ Proceed("remove", call.todo \ {i})
  /\ UNCHANGED <<nodes, senders, sources, sinks, inc, generation, result, taskVars, own, signal,
                 ctlVars>>

\* One turn of remove_oudated_nodes.
remove_node(i) ==
  /\ In("remove") /\ i \in call.todo
  /\ cancelled' = cancelled \cup {i}
  /\ nodes' = [nodes EXCEPT ![bootstraps[i].id] = NoIdx]
  /\ bootstraps' = [bootstraps EXCEPT ![i] = NoComp]
  /\ tasks' = tasks \ {i}
  /\ inputs' = inputs \ {i}
  /\ outputs' = outputs \ {i}
  /\ Proceed("remove", call.todo \ {i})
  /\ UNCHANGED <<senders, sources, sinks, inc, generation, result, taskVars, own, signal, ctlVars>>

configure_links_after_remove_oudated_nodes ==
  /\ In("remove") /\ call.todo = {}
  /\ sources' = UnlinkSources(sources, call.dels)
  /\ sinks' = UnlinkSinks(sources, sinks, call.dels)
  /\ senders' = senders \ call.dels
  /\ Proceed("permits", {})
  /\ UNCHANGED <<nodes, bootstraps, tasks, inputs, outputs, inc, generation, result,
                 taskVars, own, signal, cancelled, ctlVars>>

\* The end of reload: a permit for every registered node, again.
add_permits ==
  /\ In("permits")
  /\ permits' = IF started THEN permits + Cardinality(Live) ELSE permits
  /\ generation' = generation + 1
  /\ result' = "ok"
  /\ call' = NoReload
  /\ UNCHANGED <<nodes, bootstraps, tasks, senders, inputs, outputs, sources, sinks, inc,
                 taskVars, own, signal, cancelled, started, shutdown>>

start ==
  /\ call = NoReload /\ ~started /\ result = "ok"
  /\ permits' = permits + Cardinality(Live)
  /\ started' = TRUE
  /\ UNCHANGED <<vars, call, taskVars, own, signal, cancelled, shutdown>>

\* serve.rs calls stop, a reload of nothing, and then wait_for_shutdown, which
\* awaits the tasks still in the tasks table.
wait_for_shutdown ==
  /\ call = NoReload /\ started /\ shutdown = "no"
  /\ Live = {} /\ result = "ok"
  /\ \A i \in tasks : Ended(i)
  /\ tasks' = {}
  /\ shutdown' = "returned"
  /\ UNCHANGED <<nodes, bootstraps, senders, inputs, outputs, sources, sinks, inc, generation,
                 result, call, taskVars, own, signal, cancelled, started, permits>>

(***************************************************************************)
(* Bootstrap::execute, the task of one slot.                               *)
(***************************************************************************)
TaskOnly == UNCHANGED <<vars, call, own, cancelled, started, shutdown>>

Goto(i, s) == tk' = [tk EXCEPT ![i] = s]

poll(i) ==
  /\ tk[i] = "spawned"
  /\ Goto(i, "queued") /\ queue' = Append(queue, i)
  /\ TaskOnly /\ UNCHANGED <<seen, outs, signal, permits>>

acquire(i) ==
  /\ permits > 0 /\ queue # <<>> /\ Head(queue) = i
  /\ permits' = permits - 1 /\ queue' = Tail(queue)
  /\ Goto(i, "component")
  /\ TaskOnly /\ UNCHANGED <<seen, outs, signal>>

\* The channel of a node removed before it got its permit may be closed by
\* then: the task returns at once and its permit goes back.
acquire_closed(i) ==
  /\ permits > 0 /\ queue # <<>> /\ Head(queue) = i
  /\ i \notin senders
  /\ queue' = Tail(queue)
  /\ Goto(i, "err")
  /\ TaskOnly /\ UNCHANGED <<seen, outs, signal, permits>>

read_component(i) ==
  /\ tk[i] = "component"
  /\ seen' = [seen EXCEPT ![i] = own[i]]
  /\ Goto(i, "mapping")
  /\ TaskOnly /\ UNCHANGED <<queue, outs, signal, permits>>

\* get_senders copies the row of the sinks table, lets that lock go, and then
\* looks every entry up in the channel table.
read_mapping(i) ==
  /\ tk[i] = "mapping"
  /\ outs' = [outs EXCEPT ![i] = sinks[i]]
  /\ Goto(i, "fanout")
  /\ TaskOnly /\ UNCHANGED <<queue, seen, signal, permits>>

\* A channel is closed once the task that owned its receiver has ended, or its
\* Bootstrap went before it had a task.
Closed(j) == Ended(j) \/ (tk[j] = "none" /\ j \in cancelled)

Usable(i) ==
  /\ \A j \in outs[i] : j \in senders /\ ~Closed(j)
  /\ seen[i].type = "Output" => i \in outputs

\* Ending in any way gives the permit back.
end(i, how) ==
  /\ Goto(i, how)
  /\ permits' = permits + 1

read_fanout(i) ==
  /\ tk[i] = "fanout"
  /\ \/ Usable(i) /\ Goto(i, "run") /\ UNCHANGED permits
     \/ ~Usable(i) /\ end(i, "err")
  /\ TaskOnly /\ UNCHANGED <<queue, seen, outs, signal>>

\* run returns Err or panics: Event::Major, a second of sleep, and again with
\* what the task already holds.
run_failed(i) ==
  /\ tk[i] = "run"
  /\ Goto(i, "sleep")
  /\ TaskOnly /\ UNCHANGED <<queue, seen, outs, signal, permits>>

wake(i) ==
  /\ tk[i] = "sleep"
  /\ Goto(i, "run")
  /\ TaskOnly /\ UNCHANGED <<queue, seen, outs, signal, permits>>

\* A clock returns Ok as soon as one of its channels is closed.
run_ended(i) ==
  /\ tk[i] = "run"
  /\ seen[i].type = "Source"
  /\ \E j \in outs[i] : Closed(j)
  /\ end(i, "ok")
  /\ TaskOnly /\ UNCHANGED <<queue, seen, outs, signal>>

run_cancelled(i) ==
  /\ tk[i] = "run" /\ i \in cancelled
  /\ end(i, "ok")
  /\ TaskOnly /\ UNCHANGED <<queue, seen, outs, signal>>

\* Mutant of run_signalled: the signal is never marked as seen.
run_signalled_Unseen(i) ==
  /\ tk[i] = "run" /\ i \in signal
  /\ Goto(i, "component")
  /\ TaskOnly /\ UNCHANGED <<queue, seen, outs, signal, permits>>

run_signalled(i) ==
  /\ tk[i] = "run" /\ i \in signal
  /\ signal' = signal \ {i}
  /\ Goto(i, "component")
  /\ TaskOnly /\ UNCHANGED <<queue, seen, outs, permits>>

execute(i) ==
  \/ poll(i) \/ acquire(i) \/ acquire_closed(i) \/ read_component(i) \/ read_mapping(i) \/ read_fanout(i)
  \/ run_failed(i) \/ wake(i) \/ run_ended(i) \/ run_cancelled(i) \/ run_signalled(i)

(***************************************************************************)
(* Specification.                                                          *)
(***************************************************************************)
TaskInit ==
  /\ Init
  /\ call = NoReload
  /\ started = FALSE
  /\ permits = 0
  /\ queue = <<>>
  /\ tk = [ i \in Idx |-> "none" ]
  /\ own = [ i \in Idx |-> NoComp ]
  /\ seen = [ i \in Idx |-> NoComp ]
  /\ outs = [ i \in Idx |-> {} ]
  /\ signal = {}
  /\ cancelled = {}
  /\ shutdown = "no"

reload_step ==
  \/ \E comp \in IF call = NoReload THEN {} ELSE call.adds : add_node(comp)
  \/ configure_links_after_adding_new_nodes
  \/ \E comp \in IF call = NoReload THEN {} ELSE call.diffs : update_node(comp)
  \/ configure_links_after_changing_nodes
  \/ \E i \in Idx : remove_node(i)
  \/ configure_links_after_remove_oudated_nodes
  \/ add_permits

TaskNext ==
  \/ \E plan \in Plans : begin_reload(plan) \/ reject_reload(plan)
  \/ reload_step
  \/ start
  \/ wait_for_shutdown
  \/ \E i \in Idx : execute(i)

\* reload is plain synchronous code and does not stop half-way; a task that can
\* take a step is polled again; select! picks a ready branch at random, so a
\* branch that keeps being ready is taken in the end (strong fairness).
Fairness ==
  /\ WF_allVars(reload_step)
  /\ WF_allVars(start)
  /\ \A i \in Idx :
       /\ WF_allVars(poll(i)) /\ WF_allVars(acquire(i))
       /\ WF_allVars(read_component(i)) /\ WF_allVars(read_mapping(i)) /\ WF_allVars(read_fanout(i))
       /\ WF_allVars(wake(i))
       /\ SF_allVars(run_cancelled(i)) /\ SF_allVars(run_signalled(i))

TaskSpec == TaskInit /\ [][TaskNext]_allVars /\ Fairness

(***************************************************************************)
(* Properties.                                                             *)
(***************************************************************************)

\* The functions of reload, in their order and one element at a time, add up
\* to the atomic reload of PipelineReload: seen from outside, the tables jump
\* from what they were at its beginning to what install says.
Held(field, now) == IF call = NoReload THEN now ELSE call.before[field]

Atomic == INSTANCE PipelineReload WITH
  nodes <- Held("nodes", nodes), bootstraps <- Held("bootstraps", bootstraps),
  tasks <- Held("tasks", tasks),
  senders <- Held("senders", senders), inputs <- Held("inputs", inputs),
  outputs <- Held("outputs", outputs), sources <- Held("sources", sources),
  sinks <- Held("sinks", sinks), inc <- Held("inc", inc)

AtomicSpec == Atomic!Spec

\* A change is never lost on the way to its task: a task that is running and
\* has no signal waiting runs the component its Bootstrap holds, wherever in
\* boot, fetch, error sleep or run the change met it.
ComponentFresh ==
  \A i \in Idx : tk[i] \in {"run", "sleep"} /\ i \notin signal => seen[i] = own[i]

\* Once the runtime is started, every node an accepted reload leaves behind
\* gets its turn: its task leaves the permit queue, also when it was added
\* later or queued behind tasks of nodes that were removed before they ran.
\* (A reload whose prepare fails hands out no permits for what it spawned.)
BootsEventually ==
  \A i \in Idx :
    [](started /\ call = NoReload /\ result = "ok" /\ i \in tasks =>
         <>(tk[i] \notin {"spawned", "queued"} \/ i \in cancelled))

\* The task of a removed node ends once it has booted, whatever it was doing:
\* reading its wiring, running, or asleep after an error.
RemovedEnds ==
  \A i \in Idx : [](i \in cancelled /\ tk[i] \notin {"none", "spawned", "queued"} => <>Ended(i))

\* A changed component is picked up, or the task is gone.  (A node whose prepare
\* failed is left in the tables without a task; nobody takes up its change.)
ChangeArrives ==
  \A i \in Idx : [](started /\ i \in tasks /\ i \in signal => <>(i \notin signal \/ Ended(i)))

\* What a user who edits a running pipeline sees in the end: every node runs,
\* every change is taken up, every removed node is gone.
TasksFollow == BootsEventually /\ RemovedEnds /\ ChangeArrives

=============================================================================
