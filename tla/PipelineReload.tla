--------------------------- MODULE PipelineReload ---------------------------
(***************************************************************************)
(* The pipeline graph of the vector runtime and Runtime::reload, the one   *)
(* operation that changes it (opsense-mlib/src/vector/runtime/engine.rs).  *)
(*                                                                         *)
(* reload takes the complete list of components that should run, splits    *)
(* it against the running ones into additions, changes and removals,       *)
(* validates the three groups and then applies them.  Callers hold the     *)
(* write lock of the runtime, so a reload is one step here; what the node  *)
(* tasks see between its parts is the subject of PipelineTasks.            *)
(*                                                                         *)
(* A list is a set of components with distinct ids: the order of a list    *)
(* only decides how slot numbers are handed out, which is left open.       *)
(***************************************************************************)
EXTENDS Integers, FiniteSets

CONSTANTS
  Ids,        \* node names of the configuration
  Plans,      \* the component lists a caller may submit
  Fragile,    \* ids of components whose prepare may fail (no built-in one's does,
              \* unless its thread or its runtime cannot be made)
  MaxIdx,     \* bound: how many slots the counter `inc` may hand out
  MaxGeneration, \* bound: the last value of `generation` (a u64 in the code)
  NoComp      \* an empty slot

ComponentType == {"Source", "Input", "Transform", "Sink", "Output"}

\* A component as reload sees it.  get_inputs is None exactly for sources and
\* inputs, whose input set is empty; `ver` stands for the rest of the config
\* and `terminal` for is_terminal, a node that serves its own station.
Component ==
  { c \in [id : Ids, type : ComponentType, inputs : SUBSET Ids,
           terminal : BOOLEAN, ver : {0, 1}] :
      c.type \in {"Source", "Input"} => c.inputs = {} }

ASSUME ReloadAssumption ==
  /\ Fragile \subseteq Ids
  /\ MaxIdx \in Nat
  /\ MaxGeneration \in Nat \ {0}
  /\ NoComp \notin Component
  /\ Plans \subseteq SUBSET Component
  /\ \A plan \in Plans :
       /\ IsFiniteSet(plan)
       /\ \A c, d \in plan : c.id = d.id => c = d

Idx == 0 .. (MaxIdx - 1)
NoIdx == -1

VARIABLES
  nodes,        \* id -> slot
  bootstraps,   \* slot -> component, NoComp when the slot is empty
  tasks,        \* slots with a spawned task
  senders,      \* slots whose channel can be sent to
  inputs,       \* slots an external caller may inject into
  outputs,      \* slots an external caller may subscribe to
  sources,      \* slot -> the slots it receives from
  sinks,        \* slot -> the slots it sends to
  inc,          \* next fresh slot
  generation,   \* bumped after every applied reload
  result        \* what the last reload returned

vars == <<nodes, bootstraps, tasks, senders, inputs, outputs, sources, sinks,
          inc, generation, result>>

TypeOK ==
  /\ nodes \in [Ids -> Idx \cup {NoIdx}]
  /\ bootstraps \in [Idx -> Component \cup {NoComp}]
  /\ tasks \subseteq Idx
  /\ senders \subseteq Idx
  /\ inputs \subseteq Idx
  /\ outputs \subseteq Idx
  /\ sources \in [Idx -> SUBSET Idx]
  /\ sinks \in [Idx -> SUBSET Idx]
  /\ inc \in 0 .. MaxIdx
  /\ generation \in 1 .. MaxGeneration
  /\ result \in {"none", "ok", "rejected", "failed"}

Live == { i \in Idx : bootstraps[i] # NoComp }

(***************************************************************************)
(* The three groups of a list.                                             *)
(***************************************************************************)

Adds(plan) == { c \in plan : nodes[c.id] = NoIdx }

\* Mutant of Diffs: compare looks at the inputs and not at the settings.
Diffs_InputsOnly(plan) ==
  { c \in plan : nodes[c.id] # NoIdx /\ bootstraps[nodes[c.id]].inputs # c.inputs }

Diffs(plan) == { c \in plan : nodes[c.id] # NoIdx /\ bootstraps[nodes[c.id]] # c }

Dels(plan) == { i \in Live : \A c \in plan : nodes[c.id] # i }

IdsOf(cs) == { c.id : c \in cs }

(***************************************************************************)
(* Validation.                                                             *)
(***************************************************************************)
validate_if_adding_new_nodes(adds, diffs) ==
  \A c \in adds :
    /\ c.type \notin {"Source", "Input"} => c.inputs # {}
    /\ \A x \in c.inputs : nodes[x] # NoIdx \/ x \in IdsOf(adds)
    /\ \A a \in adds :
         a.id \in c.inputs => a.type \notin {"Sink", "Output"}
    \* an added node nobody reads must be an end of the graph
    /\ \/ \E d \in adds \cup diffs : c.id \in d.inputs
       \/ c.type \in {"Sink", "Output"}
       \/ c.terminal

validate_if_changing_nodes(diffs, adds) ==
  \A c \in diffs : \A x \in c.inputs :
    /\ nodes[x] # NoIdx \/ x \in IdsOf(adds)
    /\ x # c.id

\* The slots a changed node will receive from, as far as they exist already.
InputIndices(c) == { nodes[x] : x \in c.inputs } \ {NoIdx}

validate_if_remove_outdated_nodes(dels, adds, diffs) ==
  \A d \in dels :
    LET receivers == sinks[d] \ dels
        changing  == { c \in diffs : nodes[c.id] \in receivers }
        sent_by   == sources[d] \ UNION { InputIndices(c) : c \in changing }
    IN  /\ \A c \in adds : d \notin InputIndices(c)
        /\ \A r \in receivers :
             \E c \in changing : nodes[c.id] = r /\ d \notin InputIndices(c)
        /\ \A n \in sent_by \ dels : Cardinality(sinks[n]) # 1

\* Mutant of Edges: the wired inputs of survivors are left out.
Edges_NoSurvivors(plan) ==
  [ id \in Ids |-> UNION { c.inputs : c \in { c \in Adds(plan) \cup Diffs(plan) : c.id = id } } ]

\* Declared inputs of the graph this reload installs: survivors keep their
\* wired inputs, additions and changes override with what they declare.
Edges(plan) ==
  LET adds == Adds(plan)  diffs == Diffs(plan)  dels == Dels(plan)
  IN  [ id \in Ids |->
          IF id \in IdsOf(adds \cup diffs)
            THEN UNION { c.inputs : c \in { c \in adds \cup diffs : c.id = id } }
            ELSE IF nodes[id] = NoIdx \/ nodes[id] \in dels
              THEN {}
              ELSE { x \in Ids : nodes[x] # NoIdx /\ nodes[x] \in sources[nodes[id]] } ]

\* A finite graph has a cycle iff some non-empty set of nodes feeds itself.
\* CycleSearch has the depth-first search of the code and that it finds these.
HasCycle(e) ==
  \E S \in SUBSET Ids : S # {} /\ \A n \in S : e[n] \cap S # {}

validate_no_cycles(plan) == ~HasCycle(Edges(plan))

Valid(plan) ==
  LET adds == Adds(plan)  diffs == Diffs(plan)  dels == Dels(plan)
  IN  /\ validate_if_adding_new_nodes(adds, diffs)
      /\ validate_if_changing_nodes(diffs, adds)
      /\ validate_if_remove_outdated_nodes(dels, adds, diffs)
      /\ validate_no_cycles(plan)

(***************************************************************************)
(* Application.  `slot` gives the added components their slot numbers.     *)
(***************************************************************************)
\* Mutant of Slots: numbers of removed nodes are used again.
Slots_Reused(adds) ==
  { s \in [adds -> Idx \ Live] : \A c, d \in adds : s[c] = s[d] => c = d }

Slots(adds) ==
  { s \in [adds -> inc .. (inc + Cardinality(adds) - 1)] :
      \A c, d \in adds : s[c] = s[d] => c = d }

NewNodes(adds, slot) ==
  [ id \in Ids |-> IF id \in IdsOf(adds)
                     THEN slot[CHOOSE c \in adds : c.id = id]
                     ELSE nodes[id] ]

NewBootstraps(adds, slot) ==
  [ i \in Idx |-> IF \E c \in adds : slot[c] = i
                    THEN CHOOSE c \in adds : slot[c] = i
                    ELSE bootstraps[i] ]

\* add_new_nodes registers a node completely, runs its prepare and spawns its
\* task last; `registered` and `spawned` differ when a prepare fails.
add_new_nodes(registered, spawned, slot) ==
  /\ nodes' = NewNodes(registered, slot)
  /\ bootstraps' = NewBootstraps(registered, slot)
  /\ senders' = senders \cup { slot[c] : c \in registered }
  /\ inputs' = inputs \cup { slot[c] : c \in { c \in registered : c.type = "Input" } }
  /\ outputs' = outputs \cup { slot[c] : c \in { c \in registered : c.type = "Output" } }
  /\ tasks' = tasks \cup { slot[c] : c \in spawned }
  /\ inc' = inc + Cardinality(registered)

\* Slots the components of a group will receive from, in the name table nn.
Wired(c, nn) == { nn[x] : x \in c.inputs } \ {NoIdx}

\* configure_links_after_adding_new_nodes and _after_changing_nodes: both set
\* the inputs of a touched slot and mirror the change in the senders' rows.
LinkSources(touched, nn) ==
  [ i \in Idx |->
      IF \E c \in touched : nn[c.id] = i
        THEN Wired(CHOOSE c \in touched : nn[c.id] = i, nn)
        ELSE sources[i] ]

\* Mutant of LinkSinks: a changed node stays in the rows it no longer reads.
LinkSinks_NoRetain(touched, nn) ==
  LET src == LinkSources(touched, nn)
      ts  == { nn[c.id] : c \in touched }
  IN  [ s \in Idx |-> sinks[s] \cup { i \in ts : s \in src[i] } ]

LinkSinks(touched, nn) ==
  LET src == LinkSources(touched, nn)
      ts  == { nn[c.id] : c \in touched }
  IN  [ s \in Idx |->
          (sinks[s] \ { i \in ts : s \in sources[i] /\ s \notin src[i] })
            \cup { i \in ts : s \in src[i] /\ s \notin sources[i] } ]

\* configure_links_after_remove_oudated_nodes: a removed slot leaves the rows
\* of the slots it received from and loses its own rows; nobody looks for it
\* in the rows of the slots it sent to.
UnlinkSources(src, dels) == [ i \in Idx |-> IF i \in dels THEN {} ELSE src[i] ]

UnlinkSinks(src, snk, dels) ==
  [ s \in Idx |-> IF s \in dels THEN {} ELSE snk[s] \ { d \in dels : s \in src[d] } ]

\* The whole application: additions, their links, changes, their links,
\* removals, their links.
install(plan, slot) ==
  LET adds == Adds(plan)  diffs == Diffs(plan)  dels == Dels(plan)
      touched == adds \cup diffs
      nn  == NewNodes(adds, slot)
      nb  == NewBootstraps(adds, slot)
      src == LinkSources(touched, nn)
      snk == LinkSinks(touched, nn)
      new(cs) == { slot[c] : c \in cs }
  IN  /\ nodes' = [ id \in Ids |-> IF nn[id] \in dels THEN NoIdx ELSE nn[id] ]
      /\ bootstraps' =
           [ i \in Idx |->
               IF i \in dels THEN NoComp
               ELSE IF \E c \in diffs : nodes[c.id] = i
                 THEN CHOOSE c \in diffs : nodes[c.id] = i
                 ELSE nb[i] ]
      /\ tasks' = (tasks \cup new(adds)) \ dels
      /\ senders' = (senders \cup new(adds)) \ dels
      /\ inputs' = (inputs \cup new({ c \in adds : c.type = "Input" })) \ dels
      /\ outputs' = (outputs \cup new({ c \in adds : c.type = "Output" })) \ dels
      /\ sources' = UnlinkSources(src, dels)
      /\ sinks' = UnlinkSinks(src, snk, dels)
      /\ inc' = inc + Cardinality(adds)

reload_ok(plan) ==
  /\ generation < MaxGeneration
  /\ result' = "ok"
  /\ generation' = generation + 1
  /\ Valid(plan)
  /\ inc + Cardinality(Adds(plan)) <= MaxIdx
  /\ \E slot \in Slots(Adds(plan)) : install(plan, slot)

\* A prepare fails while the additions are being registered: everything
\* before it, and the failing node itself up to its task, stays.
reload_prepare_failed(plan) ==
  /\ result' = "failed"
  /\ Valid(plan)
  /\ \E registered \in SUBSET Adds(plan) : \E bad \in registered :
       /\ bad.id \in Fragile
       /\ inc + Cardinality(registered) <= MaxIdx
       /\ \E slot \in Slots(registered) :
            /\ slot[bad] = inc + Cardinality(registered) - 1
            /\ add_new_nodes(registered, registered \ {bad}, slot)
  /\ UNCHANGED <<sources, sinks, generation>>

reload_rejected(plan) ==
  /\ result' = "rejected"
  /\ ~Valid(plan)
  /\ UNCHANGED <<nodes, bootstraps, tasks, senders, inputs, outputs, sources,
                 sinks, inc, generation>>

\* Mutant of Init: the generation starts at zero, the value of an empty cache.
Init_ZeroGeneration ==
  /\ nodes = [ id \in Ids |-> NoIdx ]
  /\ bootstraps = [ i \in Idx |-> NoComp ]
  /\ tasks = {} /\ senders = {} /\ inputs = {} /\ outputs = {}
  /\ sources = [ i \in Idx |-> {} ]
  /\ sinks = [ i \in Idx |-> {} ]
  /\ inc = 0
  /\ generation = 0
  /\ result = "none"

Init ==
  /\ nodes = [ id \in Ids |-> NoIdx ]
  /\ bootstraps = [ i \in Idx |-> NoComp ]
  /\ tasks = {} /\ senders = {} /\ inputs = {} /\ outputs = {}
  /\ sources = [ i \in Idx |-> {} ]
  /\ sinks = [ i \in Idx |-> {} ]
  /\ inc = 0
  /\ generation = 1
  /\ result = "none"

Next ==
  \E plan \in Plans :
    \/ reload_ok(plan)
    \/ reload_prepare_failed(plan)
    \/ reload_rejected(plan)

Spec == Init /\ [][Next]_vars

(***************************************************************************)
(* Safety.                                                                 *)
(***************************************************************************)

\* The name table and the slot table agree: a name points at a live slot that
\* holds the component of that name, every live slot is reachable by its
\* name, and exactly the live slots can be sent to.  reload, inject, topology
\* and remove_oudated_nodes each go from one table to the other and turn a
\* miss into "Failed to get bootstrap".
Registry ==
  /\ \A id \in Ids : nodes[id] # NoIdx =>
       /\ nodes[id] \in Live
       /\ bootstraps[nodes[id]].id = id
  /\ \A i \in Live : nodes[bootstraps[i].id] = i
  /\ senders = Live
  /\ tasks \cup inputs \cup outputs \subseteq Live

\* The two link tables are mirror images: a slot sends to j exactly when j
\* lists it as a source.  The code updates the two maps separately in three
\* functions; only the row of a removed sender may lack its mirror.
LinkMirror ==
  \A i, j \in Idx :
    /\ j \in sinks[i] => i \in sources[j]
    /\ i \in Live /\ i \in sources[j] => j \in sinks[i]

\* Nobody is told to send to a slot that is gone: get_senders finds a channel
\* for every entry of a live slot's row, so a task never dies of "Sender not
\* found for downstream node".
SinksLive == \A i \in Idx : sinks[i] \subseteq senders

\* The graph that is wired, not just the one declared by the last list, has
\* no cycle, whatever sequence of reloads built it ("every tick would chase
\* its own tail", validate_no_cycles).
WiredAcyclic ==
  ~ \E S \in SUBSET Idx : S # {} /\ \A i \in S : sources[i] \cap S # {}

\* A slot belongs to one node for ever: its number is never given to another
\* node, even after a removal, so a link, event or sender that still carries
\* the number of a removed node cannot reach a different one.
SlotOwner ==
  [][ \A i \in Idx :
        /\ i < inc /\ bootstraps[i] = NoComp => bootstraps'[i] = NoComp
        /\ bootstraps[i] # NoComp /\ bootstraps'[i] # NoComp
             => bootstraps'[i].id = bootstraps[i].id ]_vars

\* A reload that was accepted leaves exactly the submitted list registered,
\* whatever mixture of additions, changes and removals led there.
ReloadInstalls ==
  [][ \A plan \in Plans : reload_ok(plan) =>
        { bootstraps'[i] : i \in Idx } \ {NoComp} = plan ]_vars

\* A slot that is not live has no links of its own, and no row mentions a
\* slot number that was not handed out yet.
RowsClean ==
  \A i \in Idx :
    /\ i \notin Live => sources[i] = {} /\ sinks[i] = {}
    /\ i >= inc => i \notin Live
    /\ \A j \in sources[i] : j < inc

\* The tables a node task and a later reload look things up in agree with one
\* another after every reload, also after one whose prepare failed half-way.
Tables == Registry /\ LinkMirror /\ SinksLive /\ RowsClean

\* The inductive invariant behind the properties above.
IInv == TypeOK /\ Registry /\ LinkMirror /\ RowsClean

(***************************************************************************)
(* What the code or its documents say and the code does not keep.          *)
(***************************************************************************)

=============================================================================
