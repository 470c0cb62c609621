------------------------- MODULE PipelineTasksProofs -------------------------
(***************************************************************************)
(* Theorems about PipelineTasks: the functions of a reload, one element at *)
(* a time and seen by the tasks at every point in between, add up to the   *)
(* single step of PipelineReload; and a task never goes on with a          *)
(* component that was replaced.                                            *)
(***************************************************************************)
EXTENDS PipelineTasks, FiniteSetTheorems, TLAPS

(***************************************************************************)
(* How far a reload has come: the components it has registered, the ones   *)
(* it has changed, the slots it has emptied.                               *)
(***************************************************************************)
Done == IF call.phase = "add" THEN call.adds \ call.todo ELSE call.adds

Changed == IF call.phase = "add" THEN {}
           ELSE IF call.phase = "change" THEN call.diffs \ call.todo ELSE call.diffs

Removed == IF call.phase \in {"add", "change"} THEN {}
           ELSE IF call.phase = "remove" THEN call.dels \ call.todo ELSE call.dels

Old == call.before

\* The name table once the additions are in, before the removals.
Names == [ id \in Ids |-> IF id \in IdsOf(Done) THEN nodes[id] ELSE Old.nodes[id] ]

\* LinkSources and LinkSinks of PipelineReload for given link tables.
SourcesOf(src, touched, nn) ==
  [ i \in Idx |-> IF \E c \in touched : nn[c.id] = i
                    THEN Wired(CHOOSE c \in touched : nn[c.id] = i, nn)
                    ELSE src[i] ]

SinksOf(src, snk, touched, nn) ==
  LET new == SourcesOf(src, touched, nn)
      ts  == { nn[c.id] : c \in touched }
  IN  [ s \in Idx |-> (snk[s] \ { i \in ts : s \in src[i] /\ s \notin new[i] })
                        \cup { i \in ts : s \in new[i] /\ s \notin src[i] } ]

(***************************************************************************)
(* The inductive invariant.                                                *)
(***************************************************************************)
\* The name table and the slot table agree, at every point of a reload too.
NamesAgree(nd, bs, n) ==
  /\ \A id \in Ids : nd[id] # NoIdx => bs[nd[id]] # NoComp /\ bs[nd[id]].id = id
  /\ \A i \in Idx : bs[i] # NoComp => nd[bs[i].id] = i /\ i < n

Groups ==
  /\ call.adds = { c \in call.plan : Old.nodes[c.id] = NoIdx }
  /\ call.diffs = { c \in call.plan : Old.nodes[c.id] # NoIdx /\ Old.bootstraps[Old.nodes[c.id]] # c }
  /\ call.dels = { i \in Idx : Old.bootstraps[i] # NoComp /\ \A c \in call.plan : Old.nodes[c.id] # i }
  /\ call.phase = "add" => call.todo \subseteq call.adds
  /\ call.phase = "change" => call.todo \subseteq call.diffs
  /\ call.phase \in {"remove", "permits"} => call.todo \subseteq call.dels

\* The tables of names, slots and channels, as far as the reload has come.
SlotsSoFar ==
  /\ inc = Old.inc + Cardinality(Done)
  /\ \A c \in Done : nodes[c.id] \in Old.inc .. (inc - 1) /\ bootstraps[nodes[c.id]] = c
  /\ \A id \in Ids \ IdsOf(Done) :
       nodes[id] = IF Old.nodes[id] \in Removed THEN NoIdx ELSE Old.nodes[id]
  /\ \A c \in Changed : bootstraps[Old.nodes[c.id]] = c
  /\ \A i \in Removed : bootstraps[i] = NoComp
  /\ \A i \in Idx : \/ i \in Removed
                    \/ \E c \in Done : nodes[c.id] = i
                    \/ \E c \in Changed : Old.nodes[c.id] = i
                    \/ bootstraps[i] = Old.bootstraps[i]
  /\ tasks = (Old.tasks \cup { nodes[c.id] : c \in Done }) \ Removed
  /\ inputs = (Old.inputs \cup { nodes[c.id] : c \in { c \in Done : c.type = "Input" } }) \ Removed
  /\ outputs = (Old.outputs \cup { nodes[c.id] : c \in { c \in Done : c.type = "Output" } }) \ Removed
  /\ senders = (Old.senders \cup { nodes[c.id] : c \in Done })
                 \ (IF call.phase = "permits" THEN call.dels ELSE {})

\* The link tables, as far as the reload has come.
LinksSoFar ==
  LET touched == call.adds \cup call.diffs
      src == SourcesOf(Old.sources, touched, Names)
      snk == SinksOf(Old.sources, Old.sinks, touched, Names)
  IN  /\ call.phase = "add" => sources = Old.sources /\ sinks = Old.sinks
      /\ call.phase = "change" => /\ sources = SourcesOf(Old.sources, call.adds, Names)
                                  /\ sinks = SinksOf(Old.sources, Old.sinks, call.adds, Names)
      /\ call.phase = "remove" => sources = src /\ sinks = snk
      /\ call.phase = "permits" => /\ sources = UnlinkSources(src, call.dels)
                                   /\ sinks = UnlinkSinks(src, snk, call.dels)

Accepted ==
  /\ Atomic!Valid(call.plan)
  /\ generation < MaxGeneration
  /\ Old.inc + Cardinality(call.adds) <= MaxIdx

TaskInv ==
  /\ TypeOK
  /\ call \in Reload \cup {NoReload}
  /\ NamesAgree(nodes, bootstraps, inc)
  /\ tasks \subseteq Live
  /\ call # NoReload =>
       /\ NamesAgree(Old.nodes, Old.bootstraps, Old.inc)
       /\ Groups /\ Accepted /\ SlotsSoFar /\ LinksSoFar

-----------------------------------------------------------------------------
\* The instance counts with its own copy of Cardinality.
LEMMA SameCardinality == ASSUME NEW S PROVE Atomic!Cardinality(S) = Cardinality(S)
  BY DEF Atomic!Cardinality, Cardinality

\* Outside a reload the abstract tables are the tables.
LEMMA ValidIdle ==
  ASSUME call = NoReload, NEW plan
  PROVE  Atomic!Valid(plan) <=> Valid(plan)
  <1>1. /\ Held("nodes", nodes) = nodes /\ Held("bootstraps", bootstraps) = bootstraps
        /\ Held("sources", sources) = sources /\ Held("sinks", sinks) = sinks
    BY DEF Held
  <1>2. Atomic!Adds(plan) = Adds(plan) /\ Atomic!Diffs(plan) = Diffs(plan)
        /\ Atomic!Dels(plan) = Dels(plan) /\ Atomic!Edges(plan) = Edges(plan)
    BY <1>1 DEF Atomic!Adds, Adds, Atomic!Diffs, Diffs, Atomic!Dels, Dels, Atomic!Live, Live, Atomic!NoIdx, NoIdx,
       Atomic!Edges, Edges, Atomic!IdsOf, IdsOf, Atomic!Idx, Idx
  <1> QED
    BY <1>1, <1>2, SameCardinality DEF Atomic!Valid, Valid, Atomic!validate_if_adding_new_nodes, validate_if_adding_new_nodes,
       Atomic!validate_if_changing_nodes, validate_if_changing_nodes, Atomic!validate_if_remove_outdated_nodes,
       validate_if_remove_outdated_nodes, Atomic!validate_no_cycles, validate_no_cycles, Atomic!HasCycle, HasCycle,
       Atomic!InputIndices, InputIndices, Atomic!IdsOf, IdsOf, Atomic!NoIdx, NoIdx

\* What a reload was accepted for does not change while it is under way.
LEMMA ValidKept ==
  ASSUME Held("nodes", nodes)' = Held("nodes", nodes), Held("sinks", sinks)' = Held("sinks", sinks),
         Held("bootstraps", bootstraps)' = Held("bootstraps", bootstraps),
         Held("sources", sources)' = Held("sources", sources), NEW plan
  PROVE  Atomic!Valid(plan)' <=> Atomic!Valid(plan)
  <1>2. Atomic!Adds(plan)' = Atomic!Adds(plan) /\ Atomic!Diffs(plan)' = Atomic!Diffs(plan)
        /\ Atomic!Dels(plan)' = Atomic!Dels(plan)
    BY DEF Atomic!Adds, Atomic!Diffs, Atomic!Dels, Atomic!Live, Atomic!NoIdx, Atomic!Idx
  <1>3. Atomic!Edges(plan)' = Atomic!Edges(plan)
    BY <1>2 DEF Atomic!Edges, Atomic!IdsOf, Atomic!Idx, Atomic!NoIdx
  <1> QED
    BY <1>2, <1>3 DEF Atomic!Valid, Atomic!validate_if_adding_new_nodes,
       Atomic!validate_if_changing_nodes, Atomic!validate_if_remove_outdated_nodes,
       Atomic!validate_no_cycles, Atomic!HasCycle,
       Atomic!InputIndices, Atomic!IdsOf, Atomic!NoIdx

-----------------------------------------------------------------------------
\* The reload under way is a record of the right shape.
LEMMA CallShape ==
  ASSUME call \in Reload
  PROVE  /\ call = [phase |-> call.phase, plan |-> call.plan, adds |-> call.adds,
                    diffs |-> call.diffs, dels |-> call.dels, todo |-> call.todo,
                    before |-> call.before]
         /\ call.phase \in {"add", "change", "remove", "permits"}
         /\ call.plan \in Plans /\ call.adds \subseteq Component /\ call.diffs \subseteq Component
         /\ call.dels \subseteq Idx
         /\ Old.nodes \in [Ids -> Idx \cup {NoIdx}]
         /\ Old.bootstraps \in [Idx -> Component \cup {NoComp}]
         /\ Old.tasks \subseteq Idx /\ Old.senders \subseteq Idx
         /\ Old.inputs \subseteq Idx /\ Old.outputs \subseteq Idx
         /\ Old.sources \in [Idx -> SUBSET Idx] /\ Old.sinks \in [Idx -> SUBSET Idx]
         /\ Old.inc \in 0 .. MaxIdx
  BY DEF Reload, ReloadIn, TableRows, Old

\* The groups of a list are finite sets of components with distinct names,
\* and touch different slots.
LEMMA GroupFacts ==
  ASSUME call \in Reload, Groups, NamesAgree(Old.nodes, Old.bootstraps, Old.inc)
  PROVE  /\ \A c \in call.plan : c \in Component /\ c # NoComp /\ c.id \in Ids /\ c.inputs \subseteq Ids
         /\ \A c, d \in call.plan : c.id = d.id => c = d
         /\ IsFiniteSet(call.adds)
         /\ call.adds \subseteq call.plan /\ call.diffs \subseteq call.plan
         /\ call.adds \cap call.diffs = {}
         /\ \A c \in call.diffs : /\ Old.nodes[c.id] \in Idx /\ Old.nodes[c.id] < Old.inc
                                  /\ Old.nodes[c.id] \notin call.dels
         /\ \A i \in call.dels : i \in Idx /\ i < Old.inc
         /\ Done \subseteq call.adds /\ Changed \subseteq call.diffs /\ Removed \subseteq call.dels
         /\ IsFiniteSet(Done) /\ Cardinality(Done) \in Nat
         /\ Cardinality(Done) <= Cardinality(call.adds) /\ Cardinality(call.adds) \in Nat
  <1>1. /\ call.plan \subseteq Component /\ IsFiniteSet(call.plan) /\ NoComp \notin Component
        /\ \A c, d \in call.plan : c.id = d.id => c = d
    BY CallShape, ReloadAssumption
  <1>2. \A c \in call.plan : c \in Component /\ c # NoComp /\ c.id \in Ids /\ c.inputs \subseteq Ids
    BY <1>1 DEF Component
  <1>3. call.adds \subseteq call.plan /\ call.diffs \subseteq call.plan /\ call.adds \cap call.diffs = {}
    BY DEF Groups
  <1>4. \A c \in call.diffs : /\ Old.nodes[c.id] \in Idx /\ Old.nodes[c.id] < Old.inc
                              /\ Old.nodes[c.id] \notin call.dels
    BY <1>2, <1>3, CallShape DEF Groups, NamesAgree
  <1>5. \A i \in call.dels : i \in Idx /\ i < Old.inc
    BY DEF Groups, NamesAgree
  <1>6. Done \subseteq call.adds /\ Changed \subseteq call.diffs /\ Removed \subseteq call.dels
    BY DEF Done, Changed, Removed
  <1>7. IsFiniteSet(call.adds) /\ Cardinality(call.adds) \in Nat
    BY <1>1, <1>3, FS_Subset, FS_CardinalityType
  <1>8. IsFiniteSet(Done) /\ Cardinality(Done) \in Nat /\ Cardinality(Done) <= Cardinality(call.adds)
    BY <1>6, <1>7, FS_Subset, FS_CardinalityType
  <1> QED
    BY <1>1, <1>2, <1>3, <1>4, <1>5, <1>6, <1>7, <1>8

-----------------------------------------------------------------------------
(***************************************************************************)
(* The invariant, one action at a time.                                    *)
(***************************************************************************)
\* A step of a task, start and a rejected list leave the tables alone.
LEMMA QuietStep ==
  ASSUME TaskInv, result' \in {"none", "ok", "rejected", "failed"},
         UNCHANGED <<nodes, bootstraps, tasks, senders, inputs, outputs, sources, sinks, inc,
                     generation, call>>
  PROVE  TaskInv'
  <1>1. TypeOK' /\ (call \in Reload \cup {NoReload})' /\ NamesAgree(nodes, bootstraps, inc)'
        /\ (tasks \subseteq Live)'
    BY DEF TaskInv, TypeOK, NamesAgree, Live
  <1>2. ASSUME call # NoReload
        PROVE  (NamesAgree(Old.nodes, Old.bootstraps, Old.inc) /\ Groups /\ SlotsSoFar /\ LinksSoFar)'
    <2>1. /\ Done' = Done /\ Changed' = Changed /\ Removed' = Removed /\ Old' = Old
      BY DEF Done, Changed, Removed, Old
    <2>2. Names' = Names
      BY <2>1 DEF Names
    <2>3. NamesAgree(Old.nodes, Old.bootstraps, Old.inc)' /\ Groups'
      BY <1>2, <2>1 DEF TaskInv, NamesAgree, Groups
    <2>4. SlotsSoFar'
      BY <1>2, <2>1 DEF TaskInv, SlotsSoFar
    <2>5. LinksSoFar'
      BY <1>2, <2>1, <2>2 DEF TaskInv, LinksSoFar
    <2> QED
      BY <2>3, <2>4, <2>5
  <1>3. ASSUME call # NoReload PROVE Accepted'
    <2>1. Atomic!Valid(call.plan)' <=> Atomic!Valid(call.plan)
      BY <1>3, ValidKept DEF Held
    <2>2. QED
      BY <1>3, <2>1 DEF TaskInv, Accepted, Old
  <1> QED
    BY <1>1, <1>2, <1>3 DEF TaskInv

LEMMA BeginStep ==
  ASSUME TaskInv, NEW plan \in Plans, begin_reload(plan)
  PROVE  TaskInv'
  <1> DEFINE rec == [phase |-> "add", plan |-> plan, adds |-> Adds(plan), diffs |-> Diffs(plan),
                     dels |-> Dels(plan), todo |-> Adds(plan), before |-> Snapshot]
  <1>1. call = NoReload /\ call' = rec /\ UNCHANGED vars
    BY DEF begin_reload, MayReload
  <1>2. plan \subseteq Component /\ \A c \in plan : c.id \in Ids
    BY ReloadAssumption DEF Component
  <1>3. Snapshot \in TableRows
    BY DEF TaskInv, TypeOK, Snapshot, TableRows
  <1>4. Adds(plan) \subseteq Component /\ Diffs(plan) \subseteq Component /\ Dels(plan) \subseteq Idx
    BY <1>2 DEF Adds, Diffs, Dels, Live
  <1>5. rec \in Reload
    BY <1>3, <1>4 DEF Reload, ReloadIn
  <1>6. call' \in Reload /\ call' # NoReload
    BY <1>1, <1>5, NoReloadAssumption
  <1>7. /\ Old' = Snapshot /\ Done' = {} /\ Changed' = {} /\ Removed' = {}
        /\ call'.plan = plan /\ call'.phase = "add" /\ call'.todo = call'.adds
        /\ call'.adds = Adds(plan) /\ call'.diffs = Diffs(plan) /\ call'.dels = Dels(plan)
    BY <1>1 DEF Old, Done, Changed, Removed
  <1>8. /\ Old'.nodes = nodes /\ Old'.bootstraps = bootstraps /\ Old'.inc = inc /\ Old'.tasks = tasks
        /\ Old'.senders = senders /\ Old'.inputs = inputs /\ Old'.outputs = outputs
        /\ Old'.sources = sources /\ Old'.sinks = sinks
    BY <1>7 DEF Snapshot
  <1>9. UNCHANGED <<nodes, bootstraps, tasks, senders, inputs, outputs, sources, sinks, inc,
                    generation, result>>
    BY <1>1 DEF vars
  <1>10. TypeOK' /\ NamesAgree(nodes, bootstraps, inc)' /\ (tasks \subseteq Live)'
         /\ NamesAgree(Old.nodes, Old.bootstraps, Old.inc)'
    BY <1>8, <1>9 DEF TaskInv, TypeOK, NamesAgree, Live
  <1>11. Groups'
    BY <1>7, <1>8 DEF Groups, Adds, Diffs, Dels, Live
  <1>12. Accepted'
    <2>1. Atomic!Valid(plan) <=> Valid(plan)
      BY <1>1, ValidIdle
    <2>2. Atomic!Valid(plan)' <=> Atomic!Valid(plan)
      <3>1. call'.before = Snapshot
        BY <1>7 DEF Old
      <3>2. QED
        BY <1>1, <1>6, <3>1, ValidKept DEF Held, Snapshot
    <2>3. Valid(plan) /\ generation < MaxGeneration /\ inc + Cardinality(Adds(plan)) <= MaxIdx
      BY DEF begin_reload
    <2> QED
      BY <1>7, <1>8, <1>9, <2>1, <2>2, <2>3 DEF Accepted
  <1>13. SlotsSoFar'
    <2>1. Cardinality({}) = 0 /\ inc \in Int
      BY FS_EmptySet DEF TaskInv, TypeOK
    <2>2. IdsOf({}) = {}
      BY DEF IdsOf
    <2> QED
      BY <1>7, <1>8, <1>9, <2>1, <2>2 DEF SlotsSoFar
  <1>14. LinksSoFar'
    BY <1>7, <1>8, <1>9 DEF LinksSoFar
  <1> QED
    BY <1>6, <1>10, <1>11, <1>12, <1>13, <1>14 DEF TaskInv

\* A function of reload that goes on keeps what the reload was begun with.
LEMMA ProceedShape ==
  ASSUME call \in Reload, NEW phase, NEW todo, Proceed(phase, todo),
         \/ phase \in {"add", "change"} /\ todo \subseteq Component
         \/ phase \in {"remove", "permits"} /\ todo \subseteq Idx
  PROVE  /\ call' \in Reload /\ call' # NoReload
         /\ call'.phase = phase /\ call'.todo = todo
         /\ call'.plan = call.plan /\ call'.adds = call.adds /\ call'.diffs = call.diffs
         /\ call'.dels = call.dels /\ call'.before = call.before /\ Old' = Old
  <1>1. call' = [phase |-> phase, plan |-> call.plan, adds |-> call.adds,
                 diffs |-> call.diffs, dels |-> call.dels, todo |-> todo, before |-> call.before]
    BY CallShape DEF Proceed
  <1>2. call' \in Reload
    BY <1>1 DEF Reload, ReloadIn
  <1> QED
    BY <1>1, <1>2, NoReloadAssumption DEF Old

LEMMA ProceedAccepted ==
  ASSUME call # NoReload, call' # NoReload, Accepted, call'.before = call.before, Old' = Old,
         call'.plan = call.plan, call'.adds = call.adds, generation' = generation
  PROVE  Accepted'
  <1>1. Atomic!Valid(call.plan)' <=> Atomic!Valid(call.plan)
    BY ValidKept DEF Held
  <1> QED
    BY <1>1 DEF Accepted

-----------------------------------------------------------------------------
\* Before a component is registered its name is free and there is a slot left.
LEMMA AddFacts ==
  ASSUME TaskInv, NEW comp, In("add"), comp \in call.todo
  PROVE  /\ comp \in call.adds /\ comp \notin Done /\ comp \in Component /\ comp.id \in Ids
         /\ comp.id \notin IdsOf(Done) /\ comp.id \notin IdsOf(call.diffs)
         /\ nodes[comp.id] = NoIdx /\ Old.nodes[comp.id] = NoIdx
         /\ inc \in Idx /\ bootstraps[inc] = NoComp
         /\ Changed = {} /\ Removed = {} /\ Done = call.adds \ call.todo
         /\ IsFiniteSet(Done) /\ Cardinality(Done \cup {comp}) = Cardinality(Done) + 1
         /\ Cardinality(Done) \in Nat /\ inc = Old.inc + Cardinality(Done)
         /\ inc + 1 <= MaxIdx
         /\ \A c \in Done : c \in call.adds /\ c.id \in Ids
         /\ \A c \in Done : nodes[c.id] \in Idx /\ nodes[c.id] < inc
  <1>1. call \in Reload /\ call.phase = "add" /\ Groups /\ SlotsSoFar /\ Accepted
        /\ NamesAgree(Old.nodes, Old.bootstraps, Old.inc) /\ NamesAgree(nodes, bootstraps, inc)
    BY DEF In, TaskInv
  <1>2. comp \in call.adds /\ Done = call.adds \ call.todo /\ Changed = {} /\ Removed = {}
    BY <1>1 DEF Groups, Done, Changed, Removed
  <1>3. comp \in call.plan /\ comp \in Component /\ comp.id \in Ids /\ comp \notin Done
        /\ Old.nodes[comp.id] = NoIdx
    BY <1>1, <1>2, GroupFacts DEF Groups
  <1>4. comp.id \notin IdsOf(Done) /\ comp.id \notin IdsOf(call.diffs)
    BY <1>1, <1>2, <1>3, GroupFacts DEF IdsOf
  <1>5. nodes[comp.id] = NoIdx
    BY <1>1, <1>2, <1>3, <1>4 DEF SlotsSoFar
  <1>6. IsFiniteSet(Done) /\ Cardinality(Done) \in Nat
        /\ Cardinality(Done \cup {comp}) = Cardinality(Done) + 1
    BY <1>1, <1>3, GroupFacts, FS_AddElement
  <1>7. Cardinality(Done \cup {comp}) <= Cardinality(call.adds)
    BY <1>1, <1>2, GroupFacts, FS_Subset
  <1>8. Cardinality(call.adds) \in Nat /\ Old.inc \in Nat /\ MaxIdx \in Nat
    BY <1>1, GroupFacts, CallShape, ReloadAssumption
  <1>9. inc = Old.inc + Cardinality(Done) /\ inc + 1 <= MaxIdx /\ inc \in Idx
    BY <1>1, <1>6, <1>7, <1>8 DEF SlotsSoFar, Accepted, Idx
  <1>10. bootstraps[inc] = NoComp
    BY <1>1, <1>6, <1>8, <1>9 DEF NamesAgree
  <1>11. \A c \in Done : c \in call.adds /\ c.id \in Ids
    BY <1>1, GroupFacts
  <1>12. \A c \in Done : nodes[c.id] \in Idx /\ nodes[c.id] < inc
    BY <1>1, <1>8, <1>9 DEF SlotsSoFar, Idx
  <1> QED
    BY <1>2, <1>3, <1>4, <1>5, <1>6, <1>9, <1>10, <1>11, <1>12

\* A registration leaves the tables well-formed, whether its prepare fails or not.
LEMMA AddTables ==
  ASSUME TaskInv, NEW comp, add_node(comp)
  PROVE  /\ TypeOK' /\ NamesAgree(nodes, bootstraps, inc)' /\ (tasks \subseteq Live)'
         /\ \A c \in Done : nodes'[c.id] = nodes[c.id] /\ bootstraps'[nodes[c.id]] = c
         /\ nodes'[comp.id] = inc /\ bootstraps'[inc] = comp
  <1>1. In("add") /\ comp \in call.todo /\ TypeOK /\ NamesAgree(nodes, bootstraps, inc)
        /\ SlotsSoFar /\ tasks \subseteq Live
    BY DEF In, add_node, TaskInv
  <1>2. tasks' \in {tasks, tasks \cup {inc}} /\ result' \in {result, "failed"}
    BY DEF add_node
  <1>5. /\ nodes' = [nodes EXCEPT ![comp.id] = inc] /\ bootstraps' = [bootstraps EXCEPT ![inc] = comp]
        /\ senders' = senders \cup {inc} /\ inc' = inc + 1
        /\ inputs' = IF comp.type = "Input" THEN inputs \cup {inc} ELSE inputs
        /\ outputs' = IF comp.type = "Output" THEN outputs \cup {inc} ELSE outputs
        /\ UNCHANGED <<sources, sinks, generation>>
    BY DEF add_node
  <1>a. /\ comp \in Component /\ comp # NoComp /\ comp.id \in Ids /\ inc \in Idx /\ inc \in Int
        /\ inc + 1 \in 0 .. MaxIdx /\ nodes[comp.id] = NoIdx /\ bootstraps[inc] = NoComp
        /\ comp.id \notin IdsOf(Done) /\ Changed = {} /\ Removed = {}
    <2>1. /\ comp \in Component /\ comp.id \in Ids /\ inc \in Idx
          /\ inc + 1 <= MaxIdx /\ nodes[comp.id] = NoIdx /\ bootstraps[inc] = NoComp
          /\ comp.id \notin IdsOf(Done) /\ Changed = {} /\ Removed = {}
      BY <1>1, AddFacts
    <2> QED
      BY <2>1, ReloadAssumption DEF Idx
  <1>b. \A c \in Done : c.id \in Ids /\ nodes[c.id] \in Idx /\ nodes[c.id] # inc /\ c.id # comp.id
    <2>1. \A c \in Done : c.id \in Ids /\ nodes[c.id] \in Idx /\ nodes[c.id] < inc
      BY <1>1, AddFacts
    <2> QED
      BY <1>a, <2>1 DEF Idx, IdsOf
  <1>7. TypeOK'
    BY <1>a, <1>1, <1>2, <1>5 DEF TypeOK
  <1>8. NamesAgree(nodes, bootstraps, inc)'
    <2>2. \A i \in Idx : bootstraps[i] # NoComp => bootstraps[i].id \in Ids
      BY <1>1 DEF TypeOK, Component
    <2>3. inc \in Int /\ \A i \in Idx : i \in Int
      BY <1>1 DEF TypeOK, Idx
    <2>4. \A id \in Ids : nodes[id] # inc
      <3>1. inc # NoIdx
        BY <1>a DEF Idx, NoIdx
      <3> QED
        BY <1>a, <1>1, <3>1 DEF NamesAgree
    <2> QED
      <3>1. ASSUME NEW id \in Ids, nodes'[id] # NoIdx
            PROVE  bootstraps'[nodes'[id]] # NoComp /\ bootstraps'[nodes'[id]].id = id
        BY <1>a, <1>1, <1>5, <2>4, <3>1 DEF NamesAgree, TypeOK
      <3>2. ASSUME NEW i \in Idx, bootstraps'[i] # NoComp
            PROVE  nodes'[bootstraps'[i].id] = i /\ i < inc'
        <4>1. CASE i = inc
          BY <1>a, <1>1, <1>5, <4>1 DEF TypeOK
        <4>2. CASE i # inc
          <5>1. bootstraps'[i] = bootstraps[i]
            BY <1>a, <1>1, <1>5, <4>2 DEF TypeOK
          <5>2. nodes[bootstraps[i].id] = i /\ i < inc /\ bootstraps[i].id \in Ids
            BY <1>1, <2>2, <3>2, <5>1 DEF NamesAgree
          <5>3. bootstraps[i].id # comp.id
            <6>1. i # NoIdx
              BY <2>3 DEF Idx, NoIdx
            <6> QED
              BY <1>a, <5>2, <6>1
          <5> QED
            BY <1>a, <1>1, <1>5, <2>3, <5>1, <5>2, <5>3 DEF TypeOK
        <4> QED
          BY <4>1, <4>2
      <3> QED
        BY <3>1, <3>2 DEF NamesAgree
  <1>9. (tasks \subseteq Live)'
    <2> QED
      BY <1>a, <1>1, <1>2, <1>5 DEF Live, TypeOK
  <1>10. \A c \in Done : nodes'[c.id] = nodes[c.id] /\ bootstraps'[nodes[c.id]] = c
    BY <1>a, <1>b, <1>1, <1>5 DEF TypeOK, SlotsSoFar
  <1>11. nodes'[comp.id] = inc /\ bootstraps'[inc] = comp
    BY <1>a, <1>1, <1>5 DEF TypeOK
  <1> QED
    BY <1>7, <1>8, <1>9, <1>10, <1>11

LEMMA AddStep ==
  ASSUME TaskInv, NEW comp, In("add"), comp \in call.todo, add_node(comp), call' # NoReload
  PROVE  TaskInv'
  <1>1. call \in Reload /\ call # NoReload /\ call.phase = "add" /\ Groups /\ SlotsSoFar /\ Accepted /\ TypeOK
        /\ NamesAgree(Old.nodes, Old.bootstraps, Old.inc) /\ NamesAgree(nodes, bootstraps, inc)
        /\ LinksSoFar /\ tasks \subseteq Live
    BY DEF In, TaskInv
  <1>2. Proceed("add", call.todo \ {comp}) /\ tasks' = tasks \cup {inc} /\ UNCHANGED result
    BY DEF add_node
  <1>3. call.todo \subseteq Component
    BY <1>1, CallShape DEF Groups
  <1>4. /\ call' \in Reload /\ call' # NoReload
        /\ call'.phase = "add" /\ call'.todo = call.todo \ {comp}
        /\ call'.plan = call.plan /\ call'.adds = call.adds /\ call'.diffs = call.diffs
        /\ call'.dels = call.dels /\ call'.before = call.before /\ Old' = Old
    BY <1>1, <1>2, <1>3, ProceedShape
  <1>5. /\ nodes' = [nodes EXCEPT ![comp.id] = inc] /\ bootstraps' = [bootstraps EXCEPT ![inc] = comp]
        /\ senders' = senders \cup {inc} /\ inc' = inc + 1
        /\ inputs' = IF comp.type = "Input" THEN inputs \cup {inc} ELSE inputs
        /\ outputs' = IF comp.type = "Output" THEN outputs \cup {inc} ELSE outputs
        /\ UNCHANGED <<sources, sinks, generation>>
    BY DEF add_node
  <1>6. Done' = Done \cup {comp} /\ Changed' = {} /\ Removed' = {}
    BY <1>4, AddFacts DEF Done, Changed, Removed
  <1>a. /\ comp \in Component /\ comp # NoComp /\ comp.id \in Ids /\ inc \in Idx /\ inc \in Int
        /\ inc + 1 \in 0 .. MaxIdx /\ nodes[comp.id] = NoIdx /\ bootstraps[inc] = NoComp
        /\ comp.id \notin IdsOf(Done) /\ Changed = {} /\ Removed = {}
    <2>1. /\ comp \in Component /\ comp.id \in Ids /\ inc \in Idx
          /\ inc + 1 <= MaxIdx /\ nodes[comp.id] = NoIdx /\ bootstraps[inc] = NoComp
          /\ comp.id \notin IdsOf(Done) /\ Changed = {} /\ Removed = {}
      BY AddFacts
    <2> QED
      BY <2>1, ReloadAssumption DEF Idx
  <1>b. \A c \in Done : c.id \in Ids /\ nodes[c.id] \in Idx /\ nodes[c.id] # inc /\ c.id # comp.id
    <2>1. \A c \in Done : c.id \in Ids /\ nodes[c.id] \in Idx /\ nodes[c.id] < inc
      BY AddFacts
    <2> QED
      BY <1>a, <2>1 DEF Idx, IdsOf
  <1>7. TypeOK' /\ NamesAgree(nodes, bootstraps, inc)' /\ (tasks \subseteq Live)'
    BY AddTables
  <1>10. Groups' /\ NamesAgree(Old.nodes, Old.bootstraps, Old.inc)'
    BY <1>1, <1>4 DEF Groups, NamesAgree
  <1>11. Accepted'
    BY <1>1, <1>4, <1>5, ProceedAccepted
  <1>12. LinksSoFar'
    BY <1>1, <1>4, <1>5 DEF LinksSoFar
  <1>13. SlotsSoFar'
    <2>1. \A c \in Done : nodes'[c.id] = nodes[c.id] /\ bootstraps'[nodes[c.id]] = bootstraps[nodes[c.id]]
      BY <1>a, <1>b, <1>1, <1>5 DEF TypeOK
    <2>2. nodes'[comp.id] = inc /\ bootstraps'[inc] = comp
      BY <1>1, <1>5, AddFacts DEF TypeOK
    <2>3. IdsOf(Done') = IdsOf(Done) \cup {comp.id}
      BY <1>6 DEF IdsOf
    <2>4. inc' = Old.inc + Cardinality(Done') /\ Old.inc \in Int
      BY <1>1, <1>5, <1>6, AddFacts, CallShape
    <2>5. \A c \in Done' : nodes'[c.id] \in Old.inc .. (inc' - 1) /\ bootstraps'[nodes'[c.id]] = c
      BY <1>1, <1>5, <1>6, <2>1, <2>2, <2>4, AddFacts DEF SlotsSoFar, Idx
    <2>6. \A id \in Ids \ IdsOf(Done') : nodes'[id] = IF Old.nodes[id] \in Removed' THEN NoIdx ELSE Old.nodes[id]
      BY <1>1, <1>5, <1>6, <2>3, AddFacts DEF SlotsSoFar, TypeOK
    <2>7. \A i \in Idx : (\E c \in Done' : nodes'[c.id] = i) \/ bootstraps'[i] = Old.bootstraps[i]
      <3>1. \A i \in Idx : (\E c \in Done : nodes[c.id] = i) \/ bootstraps[i] = Old.bootstraps[i]
        BY <1>a, <1>1 DEF SlotsSoFar
      <3>2. \A i \in Idx : i # inc => bootstraps'[i] = bootstraps[i]
        BY <1>a, <1>1, <1>5 DEF TypeOK
      <3> QED
        BY <1>6, <2>1, <2>2, <3>1, <3>2
    <2>8. { nodes'[c.id] : c \in Done' } = { nodes[c.id] : c \in Done } \cup {inc}
      BY <1>6, <2>1, <2>2
    <2>9. { nodes'[c.id] : c \in { c \in Done' : c.type = "Input" } }
            = { nodes[c.id] : c \in { c \in Done : c.type = "Input" } } \cup (IF comp.type = "Input" THEN {inc} ELSE {})
      BY <1>6, <2>1, <2>2
    <2>10. { nodes'[c.id] : c \in { c \in Done' : c.type = "Output" } }
            = { nodes[c.id] : c \in { c \in Done : c.type = "Output" } } \cup (IF comp.type = "Output" THEN {inc} ELSE {})
      BY <1>6, <2>1, <2>2
    <2>11. tasks' = (Old.tasks \cup { nodes'[c.id] : c \in Done' }) \ Removed'
      BY <1>1, <1>2, <1>6, <2>8, AddFacts DEF SlotsSoFar
    <2>12. inputs' = (Old.inputs \cup { nodes'[c.id] : c \in { c \in Done' : c.type = "Input" } }) \ Removed'
      BY <1>1, <1>5, <1>6, <2>9, AddFacts DEF SlotsSoFar
    <2>13. outputs' = (Old.outputs \cup { nodes'[c.id] : c \in { c \in Done' : c.type = "Output" } }) \ Removed'
      BY <1>1, <1>5, <1>6, <2>10, AddFacts DEF SlotsSoFar
    <2>14. senders' = (Old.senders \cup { nodes'[c.id] : c \in Done' }) \ {}
      BY <1>1, <1>5, <1>6, <2>8, AddFacts DEF SlotsSoFar
    <2> QED
      BY <1>4, <1>6, <2>4, <2>5, <2>6, <2>7, <2>11, <2>12, <2>13, <2>14 DEF SlotsSoFar
  <1> QED
    BY <1>4, <1>7, <1>10, <1>11, <1>12, <1>13 DEF TaskInv

-----------------------------------------------------------------------------
\* Until the removals start, the name table is the one the links are made by.
LEMMA NamesNow ==
  ASSUME TaskInv, call # NoReload, Removed = {}
  PROVE  Names = nodes
  <1>1. \A id \in Ids \ IdsOf(Done) : nodes[id] = Old.nodes[id]
    BY DEF TaskInv, SlotsSoFar
  <1> QED
    BY <1>1 DEF TaskInv, TypeOK, Names

\* Linking the additions and then the changes is linking both at once, as long
\* as they have slots of their own.
LEMMA LinkTwice ==
  ASSUME NEW src, NEW snk, NEW A, NEW D, NEW nn, A \cap D = {},
         \A c \in A \cup D : nn[c.id] \in Idx,
         \A c, d \in A \cup D : nn[c.id] = nn[d.id] => c = d
  PROVE  /\ SourcesOf(SourcesOf(src, A, nn), D, nn) = SourcesOf(src, A \cup D, nn)
         /\ SinksOf(SourcesOf(src, A, nn), SinksOf(src, snk, A, nn), D, nn)
              = SinksOf(src, snk, A \cup D, nn)
  <1> DEFINE one == SourcesOf(src, A, nn)
             two == SourcesOf(src, A \cup D, nn)
             at(T) == { nn[c.id] : c \in T }
  <1>1. ASSUME NEW i \in Idx, NEW c \in A, nn[c.id] = i
        PROVE  one[i] = Wired(c, nn) /\ two[i] = Wired(c, nn) /\ i \notin at(D)
    <2>1. (CHOOSE d \in A : nn[d.id] = i) = c
      BY <1>1
    <2>2. (CHOOSE d \in A \cup D : nn[d.id] = i) = c
      BY <1>1
    <2> QED
      BY <1>1, <2>1, <2>2 DEF SourcesOf
  <1>2. ASSUME NEW i \in Idx, NEW c \in D, nn[c.id] = i
        PROVE  /\ one[i] = src[i] /\ two[i] = Wired(c, nn) /\ i \notin at(A)
               /\ SourcesOf(one, D, nn)[i] = Wired(c, nn)
    <2>1. (CHOOSE d \in D : nn[d.id] = i) = c
      BY <1>2
    <2>2. (CHOOSE d \in A \cup D : nn[d.id] = i) = c
      BY <1>2
    <2>3. ~ \E d \in A : nn[d.id] = i
      BY <1>2
    <2> QED
      BY <1>2, <2>1, <2>2, <2>3 DEF SourcesOf
  <1>3. ASSUME NEW i \in Idx, ~ \E c \in A \cup D : nn[c.id] = i
        PROVE  one[i] = src[i] /\ two[i] = src[i] /\ SourcesOf(one, D, nn)[i] = src[i]
    BY <1>3 DEF SourcesOf
  <1>4. ASSUME NEW i \in Idx PROVE SourcesOf(one, D, nn)[i] = two[i]
    <2>1. CASE \E c \in A : nn[c.id] = i
      <3>1. ~ \E c \in D : nn[c.id] = i
        BY <2>1
      <3>2. SourcesOf(one, D, nn)[i] = one[i]
        BY <3>1 DEF SourcesOf
      <3> QED
        BY <1>1, <2>1, <3>2
    <2>2. CASE \E c \in D : nn[c.id] = i
      BY <1>2, <2>2
    <2> QED
      BY <1>3, <2>1, <2>2
  <1>5. SourcesOf(one, D, nn) = two
    BY <1>4 DEF SourcesOf
  <1>6. at(A \cup D) = at(A) \cup at(D)
    OBVIOUS
  <1>7. ASSUME NEW s \in Idx
        PROVE  SinksOf(one, SinksOf(src, snk, A, nn), D, nn)[s] = SinksOf(src, snk, A \cup D, nn)[s]
    <2>1. SinksOf(src, snk, A, nn)[s]
            = (snk[s] \ { i \in at(A) : s \in src[i] /\ s \notin one[i] })
                \cup { i \in at(A) : s \in one[i] /\ s \notin src[i] }
      BY DEF SinksOf
    <2>2. SinksOf(one, SinksOf(src, snk, A, nn), D, nn)[s]
            = (SinksOf(src, snk, A, nn)[s] \ { i \in at(D) : s \in one[i] /\ s \notin two[i] })
                \cup { i \in at(D) : s \in two[i] /\ s \notin one[i] }
      BY <1>5 DEF SinksOf
    <2>3. SinksOf(src, snk, A \cup D, nn)[s]
            = (snk[s] \ { i \in at(A \cup D) : s \in src[i] /\ s \notin two[i] })
                \cup { i \in at(A \cup D) : s \in two[i] /\ s \notin src[i] }
      BY DEF SinksOf
    <2>4. \A i \in at(A) : one[i] = two[i] /\ i \notin at(D)
      BY <1>1
    <2>5. \A i \in at(D) : one[i] = src[i]
      BY <1>2
    <2> HIDE DEF one, two, at
    <2> QED
      BY <1>6, <2>1, <2>2, <2>3, <2>4, <2>5
  <1>8. SinksOf(one, SinksOf(src, snk, A, nn), D, nn) = SinksOf(src, snk, A \cup D, nn)
    <2> HIDE DEF one, two, at
    <2>1. \A o, k, T : /\ DOMAIN SinksOf(o, k, T, nn) = Idx
                       /\ SinksOf(o, k, T, nn) = [s \in Idx |-> SinksOf(o, k, T, nn)[s]]
      BY DEF SinksOf
    <2> QED
      BY <1>7, <2>1
  <1> HIDE DEF two, at
  <1> QED
    BY <1>5, <1>8 DEF two

-----------------------------------------------------------------------------
\* While nothing is removed yet, the touched components have slots of their own.
LEMMA TouchedApart ==
  ASSUME TaskInv, call # NoReload, call.phase = "change"
  PROVE  /\ \A c \in call.adds \cup call.diffs : nodes[c.id] \in Idx
         /\ \A c, d \in call.adds \cup call.diffs : nodes[c.id] = nodes[d.id] => c = d
         /\ \A c \in call.diffs : c.id \notin IdsOf(call.adds) /\ nodes[c.id] = Old.nodes[c.id]
  <1>1. call \in Reload /\ Groups /\ SlotsSoFar /\ TypeOK /\ Done = call.adds /\ Removed = {}
        /\ NamesAgree(Old.nodes, Old.bootstraps, Old.inc) /\ NamesAgree(nodes, bootstraps, inc)
    BY DEF TaskInv, Done, Removed
  <1>2. \A c \in call.diffs : c.id \notin IdsOf(call.adds)
    BY <1>1, GroupFacts DEF IdsOf
  <1>3. \A c \in call.diffs : nodes[c.id] = Old.nodes[c.id]
    BY <1>1, <1>2, GroupFacts DEF SlotsSoFar
  <1>4. \A c \in call.adds \cup call.diffs : nodes[c.id] # NoIdx
    <2>1. Old.inc \in Nat /\ inc \in Int
      BY <1>1, CallShape DEF TypeOK
    <2>2. \A c \in call.adds : nodes[c.id] # NoIdx
      BY <1>1, <2>1 DEF SlotsSoFar, NoIdx
    <2> QED
      BY <1>1, <1>3, <2>2 DEF Groups
  <1>5. \A c \in call.adds \cup call.diffs : c.id \in Ids /\ c \in call.plan
    BY <1>1, GroupFacts
  <1>6. \A c \in call.adds \cup call.diffs : nodes[c.id] \in Idx /\ bootstraps[nodes[c.id]].id = c.id
    BY <1>1, <1>4, <1>5 DEF TypeOK, NamesAgree
  <1>7. \A c, d \in call.plan : c.id = d.id => c = d
    BY <1>1, GroupFacts
  <1> QED
    BY <1>2, <1>3, <1>5, <1>6, <1>7

\* Linking changes the link tables and nothing else.
LEMMA LinkStep ==
  ASSUME TaskInv, call # NoReload, NEW phase, NEW touched, NEW next, NEW todo,
         link(phase, touched, next, todo), call.todo = {},
         \/ phase = "add" /\ next = "change" /\ touched = call.adds /\ todo = call.diffs
         \/ phase = "change" /\ next = "remove" /\ touched = call.diffs /\ todo = call.dels
  PROVE  TaskInv'
  <1>1. call \in Reload /\ call.phase = phase /\ Groups /\ SlotsSoFar /\ Accepted /\ TypeOK
        /\ NamesAgree(Old.nodes, Old.bootstraps, Old.inc) /\ NamesAgree(nodes, bootstraps, inc)
        /\ LinksSoFar /\ tasks \subseteq Live
    BY DEF link, In, TaskInv
  <1>2. /\ call' \in Reload /\ call' # NoReload
        /\ call'.phase = next /\ call'.todo = todo
        /\ call'.plan = call.plan /\ call'.adds = call.adds /\ call'.diffs = call.diffs
        /\ call'.dels = call.dels /\ call'.before = call.before /\ Old' = Old
    BY <1>1, CallShape, ProceedShape DEF link
  <1>3. /\ UNCHANGED <<nodes, bootstraps, tasks, senders, inputs, outputs, inc, generation, result>>
        /\ sources' = SourcesOf(sources, touched, nodes)
        /\ sinks' = SinksOf(sources, sinks, touched, nodes)
    BY DEF link, LinkSources, LinkSinks, SourcesOf, SinksOf
  <1>4. /\ Done = call.adds /\ Done' = Done /\ Changed' = Changed
        /\ Removed = {} /\ Removed' = {}
    BY <1>1, <1>2 DEF Done, Changed, Removed
  <1>5. Names = nodes /\ Names' = nodes
    BY <1>2, <1>3, <1>4, NamesNow DEF Names
  <1>6. TypeOK'
    <2>1. \A c : Wired(c, nodes) \subseteq Idx \/ ~(c.inputs \subseteq Ids)
      BY <1>1 DEF Wired, TypeOK
    <2>2. \A c \in touched : c.inputs \subseteq Ids
      BY <1>1, CallShape DEF Component
    <2>3. sources' \in [Idx -> SUBSET Idx]
      BY <1>1, <1>3, <2>1, <2>2 DEF SourcesOf, TypeOK
    <2>4. \A c \in touched : nodes[c.id] \in Idx
      <3>1. CASE phase = "add"
        <4>1. Old.inc \in Nat /\ inc \in 0 .. MaxIdx /\ MaxIdx \in Nat
          BY <1>1, CallShape, ReloadAssumption DEF TypeOK
        <4> QED
          BY <1>1, <1>4, <3>1, <4>1 DEF SlotsSoFar, Idx
      <3>2. CASE phase = "change"
        BY <1>1, <3>2, TouchedApart
      <3> QED
        BY <3>1, <3>2
    <2>5. sinks' \in [Idx -> SUBSET Idx]
      BY <1>1, <1>3, <2>4 DEF SinksOf, TypeOK
    <2> QED
      BY <1>1, <1>3, <2>3, <2>5 DEF TypeOK
  <1>7. NamesAgree(nodes, bootstraps, inc)' /\ (tasks \subseteq Live)'
        /\ NamesAgree(Old.nodes, Old.bootstraps, Old.inc)'
    BY <1>1, <1>2, <1>3 DEF NamesAgree, Live
  <1>8. Groups'
    BY <1>1, <1>2 DEF Groups
  <1>9. Accepted'
    BY <1>1, <1>2, <1>3, ProceedAccepted
  <1>10. SlotsSoFar'
    BY <1>1, <1>2, <1>3, <1>4 DEF SlotsSoFar
  <1>11. LinksSoFar'
    <2>1. CASE phase = "add"
      BY <1>1, <1>2, <1>3, <1>5, <2>1 DEF LinksSoFar
    <2>2. CASE phase = "change"
      <3>1. /\ sources = SourcesOf(Old.sources, call.adds, nodes)
            /\ sinks = SinksOf(Old.sources, Old.sinks, call.adds, nodes)
        BY <1>1, <1>5, <2>2 DEF LinksSoFar
      <3>2. call.adds \cap call.diffs = {}
        BY <1>1, GroupFacts
      <3>3. /\ sources' = SourcesOf(Old.sources, call.adds \cup call.diffs, nodes)
            /\ sinks' = SinksOf(Old.sources, Old.sinks, call.adds \cup call.diffs, nodes)
        BY <1>1, <1>3, <2>2, <3>1, <3>2, TouchedApart, LinkTwice
      <3> QED
        BY <1>2, <1>5, <2>2, <3>3 DEF LinksSoFar
    <2> QED
      BY <2>1, <2>2
  <1> QED
    BY <1>2, <1>6, <1>7, <1>8, <1>9, <1>10, <1>11 DEF TaskInv

LEMMA UpdateStep ==
  ASSUME TaskInv, NEW comp, update_node(comp)
  PROVE  TaskInv'
  <1> DEFINE k == nodes[comp.id]
  <1>1. call # NoReload /\ call \in Reload /\ call.phase = "change" /\ comp \in call.todo
        /\ Groups /\ SlotsSoFar /\ Accepted /\ TypeOK
        /\ NamesAgree(Old.nodes, Old.bootstraps, Old.inc) /\ NamesAgree(nodes, bootstraps, inc)
        /\ LinksSoFar /\ tasks \subseteq Live
    BY DEF update_node, In, TaskInv
  <1>2. comp \in call.diffs /\ comp \in Component /\ comp.id \in Ids /\ comp # NoComp
    BY <1>1, GroupFacts DEF Groups
  <1>3. k \in Idx /\ comp.id \notin IdsOf(call.adds) /\ k = Old.nodes[comp.id]
        /\ \A c \in call.adds \cup call.diffs : nodes[c.id] = k => c = comp
    BY <1>1, <1>2, TouchedApart
  <1>4. Proceed("change", call.todo \ {comp}) /\ call.todo \ {comp} \subseteq Component
    BY <1>1, CallShape DEF update_node, Groups
  <1>5. /\ call' \in Reload /\ call' # NoReload
        /\ call'.phase = "change" /\ call'.todo = call.todo \ {comp}
        /\ call'.plan = call.plan /\ call'.adds = call.adds /\ call'.diffs = call.diffs
        /\ call'.dels = call.dels /\ call'.before = call.before /\ Old' = Old
    BY <1>1, <1>4, ProceedShape
  <1>6. /\ UNCHANGED <<nodes, tasks, senders, inputs, outputs, sources, sinks, inc, generation, result>>
        /\ bootstraps' = [bootstraps EXCEPT ![k] = comp]
    BY DEF update_node
  <1>7. /\ Done = call.adds /\ Done' = Done /\ Changed' = Changed \cup {comp}
        /\ Removed = {} /\ Removed' = {} /\ comp \notin Changed
    BY <1>1, <1>2, <1>5 DEF Done, Changed, Removed
  <1>8. k # NoIdx
    BY <1>3 DEF Idx, NoIdx
  <1>9. TypeOK'
    BY <1>1, <1>2, <1>3, <1>6 DEF TypeOK
  <1>10. NamesAgree(nodes, bootstraps, inc)' /\ (tasks \subseteq Live)'
    <2>1. bootstraps[k] # NoComp /\ bootstraps[k].id = comp.id /\ k < inc
      BY <1>1, <1>2, <1>3, <1>8 DEF NamesAgree
    <2>2. \A i \in Idx : bootstraps'[i] = IF i = k THEN comp ELSE bootstraps[i]
      BY <1>1, <1>3, <1>6 DEF TypeOK
    <2>3. \A id \in Ids : nodes[id] # NoIdx => nodes[id] \in Idx
      BY <1>1 DEF TypeOK
    <2>4. NamesAgree(nodes, bootstraps, inc)'
      BY <1>1, <1>2, <1>3, <1>6, <2>1, <2>2, <2>3 DEF NamesAgree
    <2> QED
      BY <1>1, <1>2, <1>6, <2>2, <2>4 DEF Live
  <1>11. Groups' /\ NamesAgree(Old.nodes, Old.bootstraps, Old.inc)'
    BY <1>1, <1>5 DEF Groups, NamesAgree
  <1>12. Accepted'
    BY <1>1, <1>5, <1>6, ProceedAccepted
  <1>13. LinksSoFar'
    <2>1. Names' = Names
      BY <1>5, <1>6, <1>7 DEF Names
    <2> QED
      BY <1>1, <1>5, <1>6, <2>1 DEF LinksSoFar
  <1>14. SlotsSoFar'
    <2>1. \A i \in Idx : bootstraps'[i] = IF i = k THEN comp ELSE bootstraps[i]
      BY <1>1, <1>3, <1>6 DEF TypeOK
    <2>2. \A c \in Done : nodes[c.id] \in Idx /\ nodes[c.id] # k
      <3>1. comp \notin call.adds
        BY <1>1, <1>2, GroupFacts
      <3> QED
        BY <1>1, <1>3, <1>7, <3>1, TouchedApart
    <2>3. \A c \in Changed : Old.nodes[c.id] \in Idx /\ Old.nodes[c.id] # k
      BY <1>1, <1>3, <1>7, TouchedApart, GroupFacts
    <2>4. \A c \in Done : nodes[c.id] \in Old.inc .. (inc - 1) /\ bootstraps'[nodes[c.id]] = c
      BY <1>1, <2>1, <2>2 DEF SlotsSoFar
    <2>5. \A c \in Changed' : bootstraps'[Old.nodes[c.id]] = c
      BY <1>1, <1>3, <1>7, <2>1, <2>3 DEF SlotsSoFar
    <2>6. \A i \in Idx : \/ \E c \in Done : nodes[c.id] = i
                         \/ \E c \in Changed' : Old.nodes[c.id] = i
                         \/ bootstraps'[i] = Old.bootstraps[i]
      BY <1>1, <1>3, <1>7, <2>1 DEF SlotsSoFar
    <2> QED
      BY <1>1, <1>5, <1>6, <1>7, <2>4, <2>5, <2>6 DEF SlotsSoFar
  <1> QED
    BY <1>5, <1>9, <1>10, <1>11, <1>12, <1>13, <1>14 DEF TaskInv

\* A slot that waits to be emptied still holds what it held before the reload.
LEMMA RemoveFacts ==
  ASSUME TaskInv, call # NoReload, call.phase = "remove", NEW k \in call.todo
  PROVE  /\ k \in Idx /\ k \in call.dels /\ k \notin Removed
         /\ bootstraps[k] = Old.bootstraps[k] /\ bootstraps[k] \in Component
         /\ bootstraps[k].id \in Ids /\ Old.nodes[bootstraps[k].id] = k /\ nodes[bootstraps[k].id] = k
         /\ bootstraps[k].id \notin IdsOf(call.adds)
         /\ \A c \in call.adds : nodes[c.id] \in Idx /\ nodes[c.id] # k
         /\ \A c \in call.diffs : Old.nodes[c.id] \in Idx /\ Old.nodes[c.id] # k
  <1>1. call \in Reload /\ Groups /\ SlotsSoFar /\ TypeOK /\ Done = call.adds
        /\ Changed = call.diffs /\ Removed = call.dels \ call.todo
        /\ NamesAgree(Old.nodes, Old.bootstraps, Old.inc) /\ NamesAgree(nodes, bootstraps, inc)
    BY DEF TaskInv, Done, Removed, Changed
  <1>2. k \in call.dels /\ k \notin Removed /\ k \in Idx /\ k < Old.inc /\ Old.bootstraps[k] # NoComp
    BY <1>1, GroupFacts DEF Groups
  <1>3. Old.inc \in Nat /\ inc \in 0 .. MaxIdx /\ MaxIdx \in Nat /\ k \in Int
    BY <1>1, <1>2, CallShape, ReloadAssumption DEF TypeOK, Idx
  <1>4. \A c \in call.adds : nodes[c.id] \in Idx /\ nodes[c.id] # k
    BY <1>1, <1>2, <1>3 DEF SlotsSoFar, Idx
  <1>5. \A c \in call.diffs : Old.nodes[c.id] \in Idx /\ Old.nodes[c.id] # k
    BY <1>1, <1>2, GroupFacts
  <1>6. bootstraps[k] = Old.bootstraps[k]
    BY <1>1, <1>2, <1>4, <1>5 DEF SlotsSoFar
  <1>7. bootstraps[k] \in Component /\ bootstraps[k].id \in Ids
    BY <1>1, <1>2, <1>6 DEF TypeOK, Component
  <1>8. Old.nodes[bootstraps[k].id] = k /\ nodes[bootstraps[k].id] = k
    BY <1>1, <1>2, <1>6 DEF NamesAgree
  <1>9. k # NoIdx
    BY <1>2 DEF Idx, NoIdx
  <1>10. bootstraps[k].id \notin IdsOf(call.adds)
    BY <1>1, <1>8, <1>9 DEF Groups, IdsOf
  <1> QED
    BY <1>2, <1>4, <1>5, <1>6, <1>7, <1>8, <1>10

LEMMA RemoveStep ==
  ASSUME TaskInv, NEW k \in Idx, remove_node(k)
  PROVE  TaskInv'
  <1>1. call # NoReload /\ call \in Reload /\ call.phase = "remove" /\ k \in call.todo
        /\ Groups /\ SlotsSoFar /\ Accepted /\ TypeOK
        /\ NamesAgree(Old.nodes, Old.bootstraps, Old.inc) /\ NamesAgree(nodes, bootstraps, inc)
        /\ LinksSoFar /\ tasks \subseteq Live
    BY DEF remove_node, In, TaskInv
  <1> DEFINE name == bootstraps[k].id
  <1>2. /\ k \in Idx /\ k \in call.dels /\ k \notin Removed
        /\ name \in Ids /\ Old.nodes[name] = k /\ nodes[name] = k
        /\ name \notin IdsOf(call.adds)
        /\ \A c \in call.adds : nodes[c.id] \in Idx /\ nodes[c.id] # k
        /\ \A c \in call.diffs : Old.nodes[c.id] \in Idx /\ Old.nodes[c.id] # k
    BY <1>1, RemoveFacts
  <1>3. /\ UNCHANGED <<senders, sources, sinks, inc, generation, result>>
        /\ nodes' = [nodes EXCEPT ![name] = NoIdx] /\ bootstraps' = [bootstraps EXCEPT ![k] = NoComp]
        /\ tasks' = tasks \ {k} /\ inputs' = inputs \ {k} /\ outputs' = outputs \ {k}
        /\ Proceed("remove", call.todo \ {k}) /\ call.todo \ {k} \subseteq Idx
    BY <1>1, CallShape DEF remove_node, Groups
  <1>4. /\ call' \in Reload /\ call' # NoReload
        /\ call'.phase = "remove" /\ call'.todo = call.todo \ {k}
        /\ call'.plan = call.plan /\ call'.adds = call.adds /\ call'.diffs = call.diffs
        /\ call'.dels = call.dels /\ call'.before = call.before /\ Old' = Old
    BY <1>1, <1>3, ProceedShape
  <1>5. /\ Done = call.adds /\ Done' = Done /\ Changed = call.diffs /\ Changed' = Changed
        /\ Removed' = Removed \cup {k}
    BY <1>1, <1>2, <1>4 DEF Done, Changed, Removed
  <1>6. /\ \A id \in Ids : nodes'[id] = IF id = name THEN NoIdx ELSE nodes[id]
        /\ \A i \in Idx : bootstraps'[i] = IF i = k THEN NoComp ELSE bootstraps[i]
    BY <1>1, <1>2, <1>3 DEF TypeOK
  <1>7. TypeOK'
    BY <1>1, <1>2, <1>3 DEF TypeOK
  <1>8. NamesAgree(nodes, bootstraps, inc)'
    <2>1. \A id \in Ids : nodes[id] # NoIdx => nodes[id] \in Idx
      BY <1>1 DEF TypeOK
    <2>2. \A i \in Idx : bootstraps[i] # NoComp => bootstraps[i].id \in Ids
      BY <1>1 DEF TypeOK, Component
    <2> QED
      BY <1>1, <1>2, <1>3, <1>6, <2>1, <2>2 DEF NamesAgree
  <1>9. (tasks \subseteq Live)'
    BY <1>1, <1>3, <1>6 DEF Live
  <1>10. Groups' /\ NamesAgree(Old.nodes, Old.bootstraps, Old.inc)'
    BY <1>1, <1>4 DEF Groups, NamesAgree
  <1>11. Accepted'
    BY <1>1, <1>3, <1>4, ProceedAccepted
  <1>12. \A c \in call.adds : c.id \in Ids /\ nodes'[c.id] = nodes[c.id]
    BY <1>1, <1>2, <1>6, GroupFacts DEF IdsOf
  <1>13. LinksSoFar'
    <2>1. Names' = Names
      BY <1>2, <1>4, <1>5, <1>6, <1>12 DEF Names
    <2> QED
      BY <1>1, <1>3, <1>4, <2>1 DEF LinksSoFar
  <1>14. SlotsSoFar'
    <2>1. { nodes'[c.id] : c \in Done } = { nodes[c.id] : c \in Done }
          /\ { nodes'[c.id] : c \in { c \in Done : c.type = "Input" } }
               = { nodes[c.id] : c \in { c \in Done : c.type = "Input" } }
          /\ { nodes'[c.id] : c \in { c \in Done : c.type = "Output" } }
               = { nodes[c.id] : c \in { c \in Done : c.type = "Output" } }
      BY <1>5, <1>12
    <2>2. \A c \in Done : nodes'[c.id] \in Old.inc .. (inc - 1) /\ bootstraps'[nodes'[c.id]] = c
      BY <1>1, <1>2, <1>5, <1>6, <1>12 DEF SlotsSoFar
    <2>3. \A id \in Ids \ IdsOf(Done) :
            nodes'[id] = IF Old.nodes[id] \in Removed' THEN NoIdx ELSE Old.nodes[id]
      <3>1. \A id \in Ids : Old.nodes[id] = k => id = name
        <4>1. k # NoIdx
          BY <1>2 DEF Idx, NoIdx
        <4> QED
          BY <1>1, <1>2, <4>1 DEF NamesAgree
      <3> QED
        BY <1>1, <1>2, <1>5, <1>6, <3>1 DEF SlotsSoFar
    <2>4. \A c \in Changed : bootstraps'[Old.nodes[c.id]] = c
      BY <1>1, <1>2, <1>5, <1>6 DEF SlotsSoFar
    <2>5. \A i \in Removed' : bootstraps'[i] = NoComp
      <3>1. Removed \subseteq Idx
        BY <1>1, CallShape DEF Removed
      <3> QED
        BY <1>1, <1>2, <1>5, <1>6, <3>1 DEF SlotsSoFar
    <2>6. \A i \in Idx : \/ i \in Removed'
                         \/ \E c \in Done : nodes'[c.id] = i
                         \/ \E c \in Changed : Old.nodes[c.id] = i
                         \/ bootstraps'[i] = Old.bootstraps[i]
      BY <1>1, <1>5, <1>6, <1>12 DEF SlotsSoFar
    <2>7. /\ tasks' = (Old.tasks \cup { nodes'[c.id] : c \in Done }) \ Removed'
          /\ inputs' = (Old.inputs \cup { nodes'[c.id] : c \in { c \in Done : c.type = "Input" } }) \ Removed'
          /\ outputs' = (Old.outputs \cup { nodes'[c.id] : c \in { c \in Done : c.type = "Output" } }) \ Removed'
      BY <1>1, <1>3, <1>5, <2>1 DEF SlotsSoFar
    <2>8. inc' = Old.inc + Cardinality(Done) /\ senders' = (Old.senders \cup { nodes'[c.id] : c \in Done }) \ {}
      BY <1>1, <1>3, <2>1 DEF SlotsSoFar
    <2> QED
      BY <1>3, <1>4, <1>5, <2>2, <2>3, <2>4, <2>5, <2>6, <2>7, <2>8 DEF SlotsSoFar
  <1> QED
    BY <1>4, <1>7, <1>8, <1>9, <1>10, <1>11, <1>13, <1>14 DEF TaskInv

LEMMA UnlinkStep ==
  ASSUME TaskInv, configure_links_after_remove_oudated_nodes
  PROVE  TaskInv'
  <1>1. call # NoReload /\ call \in Reload /\ call.phase = "remove" /\ call.todo = {}
        /\ Groups /\ SlotsSoFar /\ Accepted /\ TypeOK
        /\ NamesAgree(Old.nodes, Old.bootstraps, Old.inc) /\ NamesAgree(nodes, bootstraps, inc)
        /\ LinksSoFar /\ tasks \subseteq Live
    BY DEF configure_links_after_remove_oudated_nodes, In, TaskInv
  <1>2. /\ UNCHANGED <<nodes, bootstraps, tasks, inputs, outputs, inc, generation, result>>
        /\ sources' = UnlinkSources(sources, call.dels)
        /\ sinks' = UnlinkSinks(sources, sinks, call.dels)
        /\ senders' = senders \ call.dels
        /\ Proceed("permits", {})
    BY DEF configure_links_after_remove_oudated_nodes
  <1>3. /\ call' \in Reload /\ call' # NoReload
        /\ call'.phase = "permits" /\ call'.todo = {}
        /\ call'.plan = call.plan /\ call'.adds = call.adds /\ call'.diffs = call.diffs
        /\ call'.dels = call.dels /\ call'.before = call.before /\ Old' = Old
    BY <1>1, <1>2, ProceedShape
  <1>4. /\ Done' = Done /\ Changed' = Changed /\ Removed' = Removed
    BY <1>1, <1>3 DEF Done, Changed, Removed
  <1>5. Names' = Names
    BY <1>2, <1>3, <1>4 DEF Names
  <1>6. TypeOK'
    BY <1>1, <1>2 DEF TypeOK, UnlinkSources, UnlinkSinks
  <1>7. NamesAgree(nodes, bootstraps, inc)' /\ (tasks \subseteq Live)'
        /\ NamesAgree(Old.nodes, Old.bootstraps, Old.inc)'
    BY <1>1, <1>2, <1>3 DEF NamesAgree, Live
  <1>8. Groups'
    BY <1>1, <1>3 DEF Groups
  <1>9. Accepted'
    BY <1>1, <1>2, <1>3, ProceedAccepted
  <1>10. SlotsSoFar'
    <2>1. senders' = (Old.senders \cup { nodes[c.id] : c \in Done }) \ call.dels
      BY <1>1, <1>2 DEF SlotsSoFar
    <2>2. /\ inc = Old.inc + Cardinality(Done)
          /\ \A c \in Done : nodes[c.id] \in Old.inc .. (inc - 1) /\ bootstraps[nodes[c.id]] = c
          /\ \A id \in Ids \ IdsOf(Done) :
               nodes[id] = IF Old.nodes[id] \in Removed THEN NoIdx ELSE Old.nodes[id]
      BY <1>1 DEF SlotsSoFar
    <2>3. /\ \A c \in Changed : bootstraps[Old.nodes[c.id]] = c
          /\ \A i \in Removed : bootstraps[i] = NoComp
          /\ \A i \in Idx : \/ i \in Removed
                            \/ \E c \in Done : nodes[c.id] = i
                            \/ \E c \in Changed : Old.nodes[c.id] = i
                            \/ bootstraps[i] = Old.bootstraps[i]
      BY <1>1 DEF SlotsSoFar
    <2>4. /\ tasks = (Old.tasks \cup { nodes[c.id] : c \in Done }) \ Removed
          /\ inputs = (Old.inputs \cup { nodes[c.id] : c \in { c \in Done : c.type = "Input" } }) \ Removed
          /\ outputs = (Old.outputs \cup { nodes[c.id] : c \in { c \in Done : c.type = "Output" } }) \ Removed
      BY <1>1 DEF SlotsSoFar
    <2> QED
      BY <1>2, <1>3, <1>4, <2>1, <2>2, <2>3, <2>4 DEF SlotsSoFar
  <1>11. LinksSoFar'
    BY <1>1, <1>2, <1>3, <1>5 DEF LinksSoFar
  <1> QED
    BY <1>3, <1>6, <1>7, <1>8, <1>9, <1>10, <1>11 DEF TaskInv

-----------------------------------------------------------------------------
(***************************************************************************)
(* The refinement, one action at a time.                                   *)
(***************************************************************************)
\* During a reload the abstract tables are the ones it began with.
LEMMA AtomicGroups ==
  ASSUME TaskInv, call # NoReload
  PROVE  /\ Held("nodes", nodes) = Old.nodes /\ Held("bootstraps", bootstraps) = Old.bootstraps
         /\ Held("tasks", tasks) = Old.tasks /\ Held("senders", senders) = Old.senders
         /\ Held("inputs", inputs) = Old.inputs /\ Held("outputs", outputs) = Old.outputs
         /\ Held("sources", sources) = Old.sources /\ Held("sinks", sinks) = Old.sinks
         /\ Held("inc", inc) = Old.inc
         /\ Atomic!Adds(call.plan) = call.adds /\ Atomic!Diffs(call.plan) = call.diffs
         /\ Atomic!Dels(call.plan) = call.dels
  <1>1. /\ Held("nodes", nodes) = Old.nodes /\ Held("bootstraps", bootstraps) = Old.bootstraps
        /\ Held("tasks", tasks) = Old.tasks /\ Held("senders", senders) = Old.senders
        /\ Held("inputs", inputs) = Old.inputs /\ Held("outputs", outputs) = Old.outputs
        /\ Held("sources", sources) = Old.sources /\ Held("sinks", sinks) = Old.sinks
        /\ Held("inc", inc) = Old.inc
    BY DEF Held, Old
  <1>2. Groups
    BY DEF TaskInv
  <1> QED
    BY <1>1, <1>2 DEF Groups, Atomic!Adds, Atomic!Diffs, Atomic!Dels, Atomic!Live, Atomic!Idx, Idx,
       Atomic!NoIdx, NoIdx

\* A step that ends a reload shows the tables as they are.
LEMMA HeldNone ==
  ASSUME call' = NoReload
  PROVE  /\ Held("nodes", nodes)' = nodes' /\ Held("bootstraps", bootstraps)' = bootstraps'
         /\ Held("tasks", tasks)' = tasks' /\ Held("senders", senders)' = senders'
         /\ Held("inputs", inputs)' = inputs' /\ Held("outputs", outputs)' = outputs'
         /\ Held("sources", sources)' = sources' /\ Held("sinks", sinks)' = sinks'
         /\ Held("inc", inc)' = inc'
  BY DEF Held

\* The name and slot tables of install, in terms of what the reload has done.
LEMMA RegisteredTables ==
  ASSUME TaskInv, call # NoReload, NEW reg, NEW slot, reg \subseteq call.adds,
         NEW nd, \A c \in reg : slot[c] = nd[c.id]
  PROVE  Atomic!NewNodes(reg, slot)
           = [ id \in Ids |-> IF id \in IdsOf(reg) THEN nd[id] ELSE Old.nodes[id] ]
  <1>1. call \in Reload /\ Groups /\ NamesAgree(Old.nodes, Old.bootstraps, Old.inc)
    BY DEF TaskInv
  <1>2. \A c, d \in reg : c.id = d.id => c = d
    BY <1>1, GroupFacts
  <1>3. ASSUME NEW id \in IdsOf(reg) PROVE slot[CHOOSE c \in reg : c.id = id] = nd[id]
    BY <1>3 DEF IdsOf
  <1> QED
    BY <1>3, AtomicGroups DEF Atomic!NewNodes, Atomic!IdsOf, IdsOf

\* The end of reload is the step of the atomic one.
LEMMA PermitsStep ==
  ASSUME TaskInv, add_permits
  PROVE  TaskInv' /\ Atomic!reload_ok(call.plan) /\ call.plan \in Plans
  <1>1. call # NoReload /\ call \in Reload /\ call.phase = "permits"
        /\ Groups /\ SlotsSoFar /\ Accepted /\ TypeOK /\ LinksSoFar
        /\ NamesAgree(Old.nodes, Old.bootstraps, Old.inc) /\ NamesAgree(nodes, bootstraps, inc)
        /\ tasks \subseteq Live
    BY DEF add_permits, In, TaskInv
  <1>2. /\ UNCHANGED <<nodes, bootstraps, tasks, senders, inputs, outputs, sources, sinks, inc>>
        /\ generation' = generation + 1 /\ result' = "ok" /\ call' = NoReload
    BY DEF add_permits
  <1>3. TaskInv'
    <2>1. TypeOK'
      BY <1>1, <1>2, ReloadAssumption DEF TypeOK, Accepted
    <2> QED
      BY <1>1, <1>2, <2>1 DEF TaskInv, NamesAgree, Live
  <1> DEFINE adds == call.adds
             diffs == call.diffs
             dels == call.dels
             slot == [ c \in adds |-> nodes[c.id] ]
  <1>4. Done = adds /\ Changed = diffs /\ Removed = dels
    BY <1>1 DEF Done, Changed, Removed
  <1>5. /\ Old.inc \in Nat /\ Cardinality(adds) \in Nat /\ inc = Old.inc + Cardinality(adds)
        /\ \A c \in adds : /\ nodes[c.id] \in Old.inc .. (Old.inc + Cardinality(adds) - 1)
                           /\ bootstraps[nodes[c.id]] = c
    BY <1>1, <1>4, GroupFacts, CallShape DEF SlotsSoFar
  <1>6. \A c, d \in adds : slot[c] = slot[d] => c = d
    BY <1>5
  <1>7. slot \in Atomic!Slots(adds)
    BY <1>1, <1>5, <1>6, AtomicGroups, SameCardinality DEF Atomic!Slots
  <1>8. Atomic!NewNodes(adds, slot) = Names
    <2>1. \A c \in adds : slot[c] = nodes[c.id]
      OBVIOUS
    <2> QED
      BY <1>1, <1>4, <2>1, RegisteredTables DEF Names
  <1>9. nodes' = [ id \in Ids |-> IF Names[id] \in dels THEN NoIdx ELSE Names[id] ]
    <2>1. \A c \in adds : nodes[c.id] \notin dels
      BY <1>1, <1>5, GroupFacts
    <2>2. \A id \in IdsOf(adds) : nodes[id] \notin dels
      BY <2>1 DEF IdsOf
    <2>3. \A id \in Ids : nodes[id] = IF Names[id] \in dels THEN NoIdx ELSE Names[id]
      BY <1>1, <1>4, <2>2 DEF SlotsSoFar, Names
    <2> QED
      BY <1>1, <1>2, <2>3 DEF TypeOK
  <1>10. bootstraps' = [ i \in Idx |->
                           IF i \in dels THEN NoComp
                           ELSE IF \E c \in diffs : Held("nodes", nodes)[c.id] = i
                             THEN CHOOSE c \in diffs : Held("nodes", nodes)[c.id] = i
                             ELSE Atomic!NewBootstraps(adds, slot)[i] ]
    <2>1. ASSUME NEW i \in Idx, i \in dels PROVE bootstraps[i] = NoComp
      BY <1>1, <1>4, <2>1 DEF SlotsSoFar
    <2>2. ASSUME NEW i \in Idx, NEW c \in diffs, Held("nodes", nodes)[c.id] = i
          PROVE  bootstraps[i] = CHOOSE d \in diffs : Held("nodes", nodes)[d.id] = i
      <3>1. \A d \in diffs : bootstraps[Held("nodes", nodes)[d.id]] = d
        BY <1>1, <1>4, AtomicGroups DEF SlotsSoFar
      <3> QED
        BY <2>2, <3>1
    <2>3. ASSUME NEW i \in Idx, i \notin dels, ~ \E c \in diffs : Held("nodes", nodes)[c.id] = i
          PROVE  bootstraps[i] = Atomic!NewBootstraps(adds, slot)[i]
      <3>1. Atomic!NewBootstraps(adds, slot)[i]
              = IF \E c \in adds : slot[c] = i THEN CHOOSE c \in adds : slot[c] = i ELSE Old.bootstraps[i]
        BY <1>1, AtomicGroups DEF Atomic!NewBootstraps, Atomic!Idx, Idx
      <3>2. CASE \E c \in adds : slot[c] = i
        BY <1>5, <1>6, <3>1, <3>2
      <3>3. CASE ~ \E c \in adds : slot[c] = i
        <4>1. Held("nodes", nodes) = Old.nodes
          BY <1>1, AtomicGroups
        <4>2. /\ i \notin Removed
              /\ ~ \E c \in Done : nodes[c.id] = i
              /\ ~ \E c \in Changed : Old.nodes[c.id] = i
          BY <1>4, <2>3, <3>3, <4>1
        <4>3. bootstraps[i] = Old.bootstraps[i]
          BY <1>1, <4>2 DEF SlotsSoFar
        <4> QED
          BY <3>1, <3>3, <4>3
      <3> QED
        BY <3>2, <3>3
    <2> QED
      BY <1>1, <1>2, <2>1, <2>2, <2>3 DEF TypeOK
  <1>11. /\ { slot[c] : c \in adds } = { nodes[c.id] : c \in adds }
         /\ { slot[c] : c \in { c \in adds : c.type = "Input" } }
              = { nodes[c.id] : c \in { c \in adds : c.type = "Input" } }
         /\ { slot[c] : c \in { c \in adds : c.type = "Output" } }
              = { nodes[c.id] : c \in { c \in adds : c.type = "Output" } }
    OBVIOUS
  <1>12. /\ tasks' = (Old.tasks \cup { slot[c] : c \in adds }) \ dels
         /\ senders' = (Old.senders \cup { slot[c] : c \in adds }) \ dels
         /\ inputs' = (Old.inputs \cup { slot[c] : c \in { c \in adds : c.type = "Input" } }) \ dels
         /\ outputs' = (Old.outputs \cup { slot[c] : c \in { c \in adds : c.type = "Output" } }) \ dels
    BY <1>1, <1>2, <1>4, <1>11 DEF SlotsSoFar
  <1>13. /\ Atomic!LinkSources(adds \cup diffs, Names) = SourcesOf(Old.sources, adds \cup diffs, Names)
         /\ Atomic!LinkSinks(adds \cup diffs, Names) = SinksOf(Old.sources, Old.sinks, adds \cup diffs, Names)
    BY <1>1, AtomicGroups DEF Atomic!LinkSources, Atomic!LinkSinks, SourcesOf, SinksOf, Atomic!Wired, Wired,
       Atomic!Idx, Idx, Atomic!NoIdx, NoIdx
  <1>14. /\ sources' = Atomic!UnlinkSources(Atomic!LinkSources(adds \cup diffs, Names), dels)
         /\ sinks' = Atomic!UnlinkSinks(Atomic!LinkSources(adds \cup diffs, Names),
                                        Atomic!LinkSinks(adds \cup diffs, Names), dels)
    BY <1>1, <1>2, <1>13 DEF LinksSoFar, Atomic!UnlinkSources, UnlinkSources, Atomic!UnlinkSinks, UnlinkSinks,
       Atomic!Idx, Idx
  <1>15. inc' = Old.inc + Atomic!Cardinality(adds)
    BY <1>2, <1>5, SameCardinality
  <1>16. Atomic!install(call.plan, slot)
    <2> HIDE DEF adds, diffs, dels, slot
    <2>1. /\ Atomic!Adds(call.plan) = adds /\ Atomic!Diffs(call.plan) = diffs /\ Atomic!Dels(call.plan) = dels
      BY <1>1, AtomicGroups DEF adds, diffs, dels
    <2>2. Atomic!NoIdx = NoIdx /\ Atomic!Idx = Idx
      BY DEF Atomic!NoIdx, NoIdx, Atomic!Idx, Idx
    <2>3. /\ Held("nodes", nodes) = Old.nodes
         /\ Held("tasks", tasks) = Old.tasks /\ Held("senders", senders) = Old.senders
         /\ Held("inputs", inputs) = Old.inputs /\ Held("outputs", outputs) = Old.outputs
         /\ Held("inc", inc) = Old.inc
      BY <1>1, AtomicGroups
    <2>4. /\ Held("nodes", nodes)' = nodes' /\ Held("bootstraps", bootstraps)' = bootstraps'
         /\ Held("tasks", tasks)' = tasks' /\ Held("senders", senders)' = senders'
         /\ Held("inputs", inputs)' = inputs' /\ Held("outputs", outputs)' = outputs'
         /\ Held("sources", sources)' = sources' /\ Held("sinks", sinks)' = sinks'
         /\ Held("inc", inc)' = inc'
      BY <1>2, HeldNone
    <2>5. Held("nodes", nodes)'
            = [ id \in Ids |-> IF Atomic!NewNodes(adds, slot)[id] \in dels
                                 THEN Atomic!NoIdx ELSE Atomic!NewNodes(adds, slot)[id] ]
      BY <1>8, <1>9, <2>2, <2>4
    <2>6. Held("bootstraps", bootstraps)'
            = [ i \in Atomic!Idx |->
                  IF i \in dels THEN NoComp
                  ELSE IF \E c \in diffs : Held("nodes", nodes)[c.id] = i
                    THEN CHOOSE c \in diffs : Held("nodes", nodes)[c.id] = i
                    ELSE Atomic!NewBootstraps(adds, slot)[i] ]
      BY <1>10, <2>2, <2>4
    <2>7. /\ Held("tasks", tasks)' = (Held("tasks", tasks) \cup { slot[c] : c \in adds }) \ dels
          /\ Held("senders", senders)' = (Held("senders", senders) \cup { slot[c] : c \in adds }) \ dels
          /\ Held("inputs", inputs)'
               = (Held("inputs", inputs) \cup { slot[c] : c \in { c \in adds : c.type = "Input" } }) \ dels
          /\ Held("outputs", outputs)'
               = (Held("outputs", outputs) \cup { slot[c] : c \in { c \in adds : c.type = "Output" } }) \ dels
      BY <1>12, <2>3, <2>4
    <2>8. /\ Held("sources", sources)'
               = Atomic!UnlinkSources(Atomic!LinkSources(adds \cup diffs, Atomic!NewNodes(adds, slot)), dels)
          /\ Held("sinks", sinks)'
               = Atomic!UnlinkSinks(Atomic!LinkSources(adds \cup diffs, Atomic!NewNodes(adds, slot)),
                                    Atomic!LinkSinks(adds \cup diffs, Atomic!NewNodes(adds, slot)), dels)
          /\ Held("inc", inc)' = Held("inc", inc) + Atomic!Cardinality(adds)
      BY <1>8, <1>14, <1>15, <2>3, <2>4
    <2> QED
      BY <2>1, <2>5, <2>6, <2>7, <2>8 DEF Atomic!install
  <1>17. Atomic!reload_ok(call.plan)
    BY <1>1, <1>2, <1>7, <1>16, AtomicGroups, SameCardinality DEF Atomic!reload_ok, Accepted
  <1> QED
    BY <1>1, <1>3, <1>17, CallShape

\* A prepare that fails ends the reload half-way: the atomic step that registers
\* everything up to the failing node.
LEMMA PrepareFailedStep ==
  ASSUME TaskInv, NEW comp, add_node(comp), call' = NoReload
  PROVE  TaskInv' /\ Atomic!reload_prepare_failed(call.plan) /\ call.plan \in Plans
  <1>1. call # NoReload /\ call \in Reload /\ call.phase = "add" /\ comp \in call.todo /\ In("add")
        /\ Groups /\ SlotsSoFar /\ Accepted /\ TypeOK /\ LinksSoFar
        /\ NamesAgree(Old.nodes, Old.bootstraps, Old.inc)
    BY DEF add_node, In, TaskInv
  <1>2. comp.id \in Fragile /\ result' = "failed" /\ UNCHANGED tasks
    <2>1. ~ Proceed("add", call.todo \ {comp})
      <3>1. call.todo \subseteq Component
        BY <1>1, CallShape DEF Groups
      <3> QED
        BY <1>1, <3>1, ProceedShape
    <2> QED
      BY <2>1 DEF add_node
  <1>3. /\ senders' = senders \cup {inc} /\ inc' = inc + 1
        /\ inputs' = IF comp.type = "Input" THEN inputs \cup {inc} ELSE inputs
        /\ outputs' = IF comp.type = "Output" THEN outputs \cup {inc} ELSE outputs
        /\ UNCHANGED <<sources, sinks, generation>>
        /\ nodes' = [nodes EXCEPT ![comp.id] = inc] /\ bootstraps' = [bootstraps EXCEPT ![inc] = comp]
    BY DEF add_node
  <1>4. TaskInv'
    BY AddTables DEF TaskInv
  <1> DEFINE reg == Done \cup {comp}
             slot == [ c \in reg |-> nodes'[c.id] ]
  <1>5. /\ comp \in call.adds /\ comp \notin Done /\ comp.id \in Ids /\ comp.id \notin IdsOf(Done)
        /\ inc \in Idx /\ Removed = {} /\ Changed = {} /\ inc + 1 <= MaxIdx
        /\ Cardinality(reg) = Cardinality(Done) + 1 /\ Cardinality(Done) \in Nat
        /\ inc = Old.inc + Cardinality(Done) /\ Done \subseteq call.adds
        /\ \A c \in Done : nodes[c.id] \in Idx /\ nodes[c.id] < inc
    BY <1>1, AddFacts
  <1>6. Old.inc \in Nat /\ inc \in Nat
    BY <1>1, <1>5, CallShape
  <1>7. /\ \A c \in Done : nodes'[c.id] = nodes[c.id] /\ bootstraps'[nodes[c.id]] = c
        /\ nodes'[comp.id] = inc /\ bootstraps'[inc] = comp
    BY AddTables
  <1>8. \A c \in reg : nodes'[c.id] \in Old.inc .. (Old.inc + Cardinality(reg) - 1)
                       /\ bootstraps'[nodes'[c.id]] = c
    BY <1>1, <1>5, <1>6, <1>7 DEF SlotsSoFar
  <1>9. slot \in Atomic!Slots(reg)
    <2>1. \A c, d \in reg : slot[c] = slot[d] => c = d
      BY <1>8
    <2> QED
      BY <1>1, <1>8, <2>1, AtomicGroups, SameCardinality DEF Atomic!Slots
  <1>10. nodes' = Atomic!NewNodes(reg, slot)
    <2>1. Atomic!NewNodes(reg, slot)
            = [ id \in Ids |-> IF id \in IdsOf(reg) THEN nodes'[id] ELSE Old.nodes[id] ]
      <3>1. reg \subseteq call.adds /\ \A c \in reg : slot[c] = nodes'[c.id]
        BY <1>5
      <3> HIDE DEF reg, slot
      <3> QED
        BY <1>1, <3>1, RegisteredTables
    <2>2. \A id \in Ids \ IdsOf(reg) : nodes'[id] = Old.nodes[id]
      <3>1. IdsOf(reg) = IdsOf(Done) \cup {comp.id}
        BY DEF IdsOf
      <3> QED
        BY <1>1, <1>3, <1>5, <3>1 DEF SlotsSoFar, TypeOK
    <2>3. nodes' \in [Ids -> Idx \cup {NoIdx}]
      BY <1>4 DEF TaskInv, TypeOK
    <2> QED
      BY <2>1, <2>2, <2>3
  <1>11. bootstraps' = Atomic!NewBootstraps(reg, slot)
    <2>1. ASSUME NEW i \in Idx
          PROVE  bootstraps'[i] = IF \E c \in reg : slot[c] = i THEN CHOOSE c \in reg : slot[c] = i
                                  ELSE Old.bootstraps[i]
      <3>1. CASE \E c \in reg : slot[c] = i
        <4>1. \A c \in reg : slot[c] = i => c = bootstraps'[i]
          BY <1>8
        <4> HIDE DEF slot
        <4> QED
          BY <3>1, <4>1
      <3>2. CASE ~ \E c \in reg : slot[c] = i
        <4>1. i # inc /\ ~ \E c \in Done : nodes[c.id] = i
          BY <1>7, <3>2
        <4>2. bootstraps[i] = Old.bootstraps[i]
          BY <1>1, <1>5, <4>1 DEF SlotsSoFar
        <4> QED
          BY <1>1, <1>3, <1>5, <3>2, <4>1, <4>2 DEF TypeOK
      <3> QED
        BY <3>1, <3>2
    <2>2. bootstraps' \in [Idx -> Component \cup {NoComp}]
      BY <1>4 DEF TaskInv, TypeOK
    <2> HIDE DEF reg, slot
    <2>3. Atomic!NewBootstraps(reg, slot)
            = [ i \in Idx |-> IF \E c \in reg : slot[c] = i THEN CHOOSE c \in reg : slot[c] = i
                                 ELSE Old.bootstraps[i] ]
      BY <1>1, AtomicGroups DEF Atomic!NewBootstraps, Atomic!Idx, Idx
    <2> QED
      BY <2>1, <2>2, <2>3
  <1>12. /\ { slot[c] : c \in reg } = { nodes[c.id] : c \in Done } \cup {inc}
         /\ { slot[c] : c \in reg \ {comp} } = { nodes[c.id] : c \in Done }
         /\ { slot[c] : c \in { c \in reg : c.type = "Input" } }
              = { nodes[c.id] : c \in { c \in Done : c.type = "Input" } }
                  \cup (IF comp.type = "Input" THEN {inc} ELSE {})
         /\ { slot[c] : c \in { c \in reg : c.type = "Output" } }
              = { nodes[c.id] : c \in { c \in Done : c.type = "Output" } }
                  \cup (IF comp.type = "Output" THEN {inc} ELSE {})
    <2>1. \A c \in Done : slot[c] = nodes[c.id]
      BY <1>7
    <2>2. slot[comp] = inc
      BY <1>7
    <2> HIDE DEF slot
    <2> QED
      BY <1>5, <2>1, <2>2
  <1>13. /\ senders = Old.senders \cup { nodes[c.id] : c \in Done }
         /\ tasks = Old.tasks \cup { nodes[c.id] : c \in Done }
         /\ inputs = Old.inputs \cup { nodes[c.id] : c \in { c \in Done : c.type = "Input" } }
         /\ outputs = Old.outputs \cup { nodes[c.id] : c \in { c \in Done : c.type = "Output" } }
    <2>1. \A S : S \ {} = S
      OBVIOUS
    <2> QED
      BY <1>1, <1>5, <2>1 DEF SlotsSoFar
  <1>14. Atomic!add_new_nodes(reg, reg \ {comp}, slot)
    <2> HIDE DEF reg, slot
    <2>1. /\ Held("tasks", tasks) = Old.tasks /\ Held("senders", senders) = Old.senders
          /\ Held("inputs", inputs) = Old.inputs /\ Held("outputs", outputs) = Old.outputs
          /\ Held("inc", inc) = Old.inc
      BY <1>1, AtomicGroups
    <2>2. /\ Held("nodes", nodes)' = nodes' /\ Held("bootstraps", bootstraps)' = bootstraps'
          /\ Held("tasks", tasks)' = tasks' /\ Held("senders", senders)' = senders'
          /\ Held("inputs", inputs)' = inputs' /\ Held("outputs", outputs)' = outputs'
          /\ Held("inc", inc)' = inc'
      BY HeldNone
    <2>3. senders' = Old.senders \cup { slot[c] : c \in reg }
      BY <1>3, <1>12, <1>13
    <2>4. inputs' = Old.inputs \cup { slot[c] : c \in { c \in reg : c.type = "Input" } }
      BY <1>3, <1>12, <1>13
    <2>5. outputs' = Old.outputs \cup { slot[c] : c \in { c \in reg : c.type = "Output" } }
      BY <1>3, <1>12, <1>13
    <2>6. tasks' = Old.tasks \cup { slot[c] : c \in reg \ {comp} }
      BY <1>2, <1>12, <1>13
    <2>7. inc' = Old.inc + Atomic!Cardinality(reg)
      BY <1>3, <1>5, <1>6, SameCardinality
    <2> QED
      BY <1>10, <1>11, <2>1, <2>2, <2>3, <2>4, <2>5, <2>6, <2>7 DEF Atomic!add_new_nodes
  <1>15. Atomic!reload_prepare_failed(call.plan)
    <2>1. reg \in SUBSET Atomic!Adds(call.plan) /\ comp \in reg /\ comp.id \in Fragile
      BY <1>1, <1>2, <1>5, AtomicGroups
    <2>2. Held("inc", inc) + Atomic!Cardinality(reg) <= MaxIdx
          /\ slot[comp] = Held("inc", inc) + Atomic!Cardinality(reg) - 1
      BY <1>1, <1>5, <1>6, <1>7, AtomicGroups, SameCardinality
    <2>3. /\ Held("sources", sources)' = Held("sources", sources) /\ generation' = generation
          /\ Held("sinks", sinks)' = Held("sinks", sinks)
      BY <1>1, <1>3, AtomicGroups, HeldNone DEF LinksSoFar
    <2>4. Atomic!Valid(call.plan)
      BY <1>1 DEF Accepted
    <2> HIDE DEF reg, slot
    <2> QED
      BY <1>2, <1>9, <1>14, <2>1, <2>2, <2>3, <2>4 DEF Atomic!reload_prepare_failed
  <1> QED
    BY <1>1, <1>4, <1>15, CallShape

\* What happens inside a reload cannot be seen from outside.
LEMMA InsideReload ==
  ASSUME call # NoReload, call' # NoReload, call'.before = call.before,
         UNCHANGED <<generation, result>>
  PROVE  UNCHANGED Atomic!vars
  BY DEF Held, Atomic!vars

LEMMA QuietOutside ==
  ASSUME UNCHANGED <<nodes, bootstraps, tasks, senders, inputs, outputs, sources, sinks, inc, call>>
  PROVE  /\ Held("nodes", nodes)' = Held("nodes", nodes)
         /\ Held("bootstraps", bootstraps)' = Held("bootstraps", bootstraps)
         /\ Held("tasks", tasks)' = Held("tasks", tasks) /\ Held("senders", senders)' = Held("senders", senders)
         /\ Held("inputs", inputs)' = Held("inputs", inputs)
         /\ Held("outputs", outputs)' = Held("outputs", outputs)
         /\ Held("sources", sources)' = Held("sources", sources) /\ Held("sinks", sinks)' = Held("sinks", sinks)
         /\ Held("inc", inc)' = Held("inc", inc)
  BY DEF Held

\* Every step of PipelineTasks keeps the invariant and is a step of the atomic
\* reload, or one that leaves its tables alone.
LEMMA TaskStep ==
  ASSUME TaskInv, [TaskNext]_allVars
  PROVE  TaskInv' /\ [Atomic!Next]_(Atomic!vars)
  <1>1. ASSUME UNCHANGED <<vars, call>> PROVE TaskInv' /\ UNCHANGED Atomic!vars
    <2>1. /\ UNCHANGED <<nodes, bootstraps, tasks, senders, inputs, outputs, sources, sinks, inc, call>>
          /\ UNCHANGED <<generation, result>> /\ result' \in {"none", "ok", "rejected", "failed"}
      BY <1>1 DEF vars, TaskInv, TypeOK
    <2>2. TaskInv'
      BY <2>1, QuietStep
    <2> QED
      BY <2>1, <2>2, QuietOutside DEF Atomic!vars
  <1>2. ASSUME NEW plan \in Plans, begin_reload(plan) PROVE TaskInv' /\ UNCHANGED Atomic!vars
    <2>1. TaskInv'
      BY <1>2, BeginStep
    <2>2. call = NoReload /\ UNCHANGED vars /\ call'.before = Snapshot
      BY <1>2 DEF begin_reload, MayReload
    <2>3. call' # NoReload
      <3>1. call' \in Reload \/ call' = NoReload
        BY <2>1 DEF TaskInv
      <3>2. call' = [phase |-> "add", plan |-> plan, adds |-> Adds(plan), diffs |-> Diffs(plan),
                     dels |-> Dels(plan), todo |-> Adds(plan), before |-> Snapshot]
        BY <1>2 DEF begin_reload
      <3>3. plan \subseteq Component /\ Snapshot \in TableRows
        BY ReloadAssumption DEF TaskInv, TypeOK, Snapshot, TableRows
      <3>4. call' \in Reload
        BY <3>2, <3>3 DEF Reload, ReloadIn, Adds, Diffs, Dels, Live
      <3> QED
        BY <3>4, NoReloadAssumption
    <2> QED
      BY <2>1, <2>2, <2>3 DEF Held, Atomic!vars, vars, Snapshot
  <1>3. ASSUME NEW plan \in Plans, reject_reload(plan) PROVE TaskInv' /\ Atomic!Next
    <2>1. /\ UNCHANGED <<nodes, bootstraps, tasks, senders, inputs, outputs, sources, sinks, inc,
                         generation, call>>
          /\ result' = "rejected" /\ ~Valid(plan) /\ call = NoReload
      BY <1>3 DEF reject_reload, reload_rejected, MayReload
    <2>2. TaskInv'
      BY <2>1, QuietStep
    <2>3. ~Atomic!Valid(plan)
      BY <2>1, ValidIdle
    <2>4. Atomic!reload_rejected(plan)
      BY <2>1, <2>3, QuietOutside DEF Atomic!reload_rejected
    <2> QED
      BY <2>2, <2>4 DEF Atomic!Next
  <1>4. ASSUME NEW comp, add_node(comp) PROVE TaskInv' /\ [Atomic!Next]_(Atomic!vars)
    <2>1. CASE call' = NoReload
      BY <1>4, <2>1, PrepareFailedStep DEF Atomic!Next
    <2>2. CASE call' # NoReload
      <3>1. In("add") /\ comp \in call.todo /\ call # NoReload /\ call \in Reload /\ Groups
        BY <1>4 DEF add_node, In, TaskInv
      <3>2. Proceed("add", call.todo \ {comp}) /\ UNCHANGED <<generation, result>>
        BY <1>4, <2>2 DEF add_node
      <3>3. call'.before = call.before
        BY <3>1, <3>2, CallShape DEF Proceed
      <3> QED
        BY <1>4, <2>2, <3>1, <3>2, <3>3, AddStep, InsideReload
    <2> QED
      BY <2>1, <2>2
  <1>5. ASSUME NEW phase, NEW todo, Proceed(phase, todo), call # NoReload, TaskInv', call' # NoReload,
               UNCHANGED <<generation, result>>
        PROVE  UNCHANGED Atomic!vars
    <2>1. call \in Reload
      BY <1>5 DEF TaskInv
    <2>2. call'.before = call.before
      BY <1>5, <2>1, CallShape DEF Proceed
    <2> QED
      BY <1>5, <2>2, InsideReload
  <1>6. CASE configure_links_after_adding_new_nodes
    <2>1. call # NoReload /\ link("add", call.adds, "change", call.diffs) /\ call.todo = {}
      BY <1>6 DEF configure_links_after_adding_new_nodes, In
    <2>2. TaskInv'
      BY <2>1, LinkStep
    <2>3. Proceed("change", call.diffs) /\ UNCHANGED <<generation, result>>
      BY <2>1 DEF link
    <2>4. call' # NoReload
      BY <2>1, <2>3, CallShape, ProceedShape DEF TaskInv
    <2> QED
      BY <1>5, <2>1, <2>2, <2>3, <2>4
  <1>7. CASE configure_links_after_changing_nodes
    <2>1. call # NoReload /\ link("change", call.diffs, "remove", call.dels) /\ call.todo = {}
      BY <1>7 DEF configure_links_after_changing_nodes, In
    <2>2. TaskInv'
      BY <2>1, LinkStep
    <2>3. Proceed("remove", call.dels) /\ UNCHANGED <<generation, result>>
      BY <2>1 DEF link
    <2>4. call' # NoReload
      BY <2>1, <2>3, CallShape, ProceedShape DEF TaskInv
    <2> QED
      BY <1>5, <2>1, <2>2, <2>3, <2>4
  <1>8. ASSUME NEW comp, update_node(comp) PROVE TaskInv' /\ UNCHANGED Atomic!vars
    <2>1. call # NoReload /\ Proceed("change", call.todo \ {comp}) /\ UNCHANGED <<generation, result>>
          /\ call.phase = "change" /\ call \in Reload /\ Groups
      BY <1>8 DEF update_node, In, TaskInv
    <2>2. TaskInv'
      BY <1>8, UpdateStep
    <2>3. call.todo \ {comp} \subseteq Component
      BY <2>1, CallShape DEF Groups
    <2>4. call' # NoReload
      BY <2>1, <2>3, ProceedShape
    <2> QED
      BY <1>5, <2>1, <2>2, <2>4
  <1>9. ASSUME NEW i \in Idx, remove_node(i) PROVE TaskInv' /\ UNCHANGED Atomic!vars
    <2>1. call # NoReload /\ Proceed("remove", call.todo \ {i}) /\ UNCHANGED <<generation, result>>
          /\ call.phase = "remove" /\ call \in Reload /\ Groups
      BY <1>9 DEF remove_node, In, TaskInv
    <2>2. TaskInv'
      BY <1>9, RemoveStep
    <2>3. call.todo \ {i} \subseteq Idx
      BY <2>1, CallShape DEF Groups
    <2>4. call' # NoReload
      BY <2>1, <2>3, ProceedShape
    <2> QED
      BY <1>5, <2>1, <2>2, <2>4
  <1>10. CASE configure_links_after_remove_oudated_nodes
    <2>1. call # NoReload /\ Proceed("permits", {}) /\ UNCHANGED <<generation, result>> /\ call \in Reload
      BY <1>10 DEF configure_links_after_remove_oudated_nodes, In, TaskInv
    <2>2. TaskInv'
      BY <1>10, UnlinkStep
    <2>3. call' # NoReload
      BY <2>1, ProceedShape
    <2> QED
      BY <1>5, <2>1, <2>2, <2>3
  <1>11. CASE add_permits
    BY <1>11, PermitsStep DEF Atomic!Next
  <1>12. CASE wait_for_shutdown
    <2>1. tasks' = tasks
      BY <1>12 DEF wait_for_shutdown, TaskInv
    <2>2. UNCHANGED <<vars, call>>
      BY <1>12, <2>1 DEF wait_for_shutdown, vars
    <2> QED
      BY <1>1, <2>2
  <1>13. CASE start
    BY <1>1, <1>13 DEF start
  <1>14. ASSUME NEW i \in Idx, execute(i) PROVE TaskInv' /\ UNCHANGED Atomic!vars
    <2>1. UNCHANGED <<vars, call>>
      BY <1>14 DEF execute, poll, acquire, acquire_closed, read_component, read_mapping, read_fanout,
         run_failed, wake, run_ended, run_cancelled, run_signalled, TaskOnly
    <2> QED
      BY <1>1, <2>1
  <1>15. CASE UNCHANGED allVars
    BY <1>1, <1>15 DEF allVars
  <1>16. CASE reload_step
    BY <1>4, <1>6, <1>7, <1>8, <1>9, <1>10, <1>11, <1>16 DEF reload_step
  <1> QED
    BY <1>2, <1>3, <1>12, <1>13, <1>14, <1>15, <1>16 DEF TaskNext

LEMMA TaskStart ==
  ASSUME TaskInit
  PROVE  TaskInv /\ Atomic!Init
  <1>1. call = NoReload /\ Init
    BY DEF TaskInit
  <1>2. TypeOK
    BY <1>1, ReloadAssumption DEF Init, TypeOK, Idx
  <1>3. NamesAgree(nodes, bootstraps, inc) /\ tasks \subseteq Live
    BY <1>1 DEF Init, NamesAgree
  <1>4. Atomic!Init
    BY <1>1 DEF Init, Atomic!Init, Held, Atomic!Idx, Idx, Atomic!NoIdx, NoIdx
  <1> QED
    BY <1>1, <1>2, <1>3, <1>4 DEF TaskInv

\* While a reload is under way the tables are exactly as far as its functions
\* have come, for every interleaving with the tasks that read them.
THEOREM ReloadInSteps == TaskSpec => []TaskInv
  BY TaskStart, TaskStep, PTL DEF TaskSpec

\* The functions of Runtime::reload, one element at a time and with the tasks
\* running in between, implement the single step of PipelineReload: whatever
\* is proved about that step holds of the code's order of doing things.
THEOREM ReloadIsAtomic == TaskSpec => AtomicSpec
  <1>1. TaskInit => TaskInv /\ Atomic!Init
    BY TaskStart
  <1>2. TaskInv /\ [TaskNext]_allVars => TaskInv' /\ [Atomic!Next]_(Atomic!vars)
    BY TaskStep
  <1> QED
    BY <1>1, <1>2, PTL DEF TaskSpec, AtomicSpec, Atomic!Spec

-----------------------------------------------------------------------------
(***************************************************************************)
(* No task goes on with a replaced component.                              *)
(***************************************************************************)
\* The promise has to start where a task has read its component and not yet
\* run it; a slot that was not handed out has no task, nor waits for a permit.
Fresh(i) == tk[i] \in {"mapping", "fanout", "run", "sleep"} /\ i \notin signal => seen[i] = own[i]

FreshInv ==
  /\ tk \in [Idx -> TaskState]
  /\ own \in [Idx -> Component \cup {NoComp}]
  /\ seen \in [Idx -> Component \cup {NoComp}]
  /\ queue \in Seq(Idx)
  /\ \A j \in 1 .. Len(queue) : queue[j] < inc
  /\ \A i \in Idx : Fresh(i) /\ (i >= inc => tk[i] = "none")

LEMMA FreshExecute ==
  ASSUME TaskInv, FreshInv, NEW i \in Idx, execute(i)
  PROVE  FreshInv'
  <1> USE DEF FreshInv, Fresh, Goto, end, TaskOnly, vars
  <1>1. inc \in Int /\ i \in Int
    BY DEF TaskInv, TypeOK, Idx
  <1>2. CASE poll(i)
    BY <1>1, <1>2 DEF poll, TaskState
  <1>3. CASE acquire(i)
    BY <1>1, <1>3 DEF acquire, TaskState
  <1>4. CASE acquire_closed(i)
    BY <1>1, <1>4 DEF acquire_closed, TaskState
  <1>5. CASE read_component(i)
    BY <1>1, <1>5 DEF read_component, TaskState
  <1>6. CASE read_mapping(i)
    BY <1>1, <1>6 DEF read_mapping, TaskState
  <1>7. CASE read_fanout(i)
    BY <1>1, <1>7 DEF read_fanout, TaskState
  <1>8. CASE run_failed(i) \/ wake(i)
    BY <1>1, <1>8 DEF run_failed, wake, TaskState
  <1>9. CASE run_ended(i) \/ run_cancelled(i)
    BY <1>1, <1>9 DEF run_ended, run_cancelled, TaskState
  <1>10. CASE run_signalled(i)
    BY <1>1, <1>10 DEF run_signalled, TaskState
  <1> QED
    BY <1>2, <1>3, <1>4, <1>5, <1>6, <1>7, <1>8, <1>9, <1>10 DEF execute

LEMMA FreshStep ==
  ASSUME TaskInv, FreshInv, [TaskNext]_allVars
  PROVE  FreshInv'
  <1>1. inc \in Int /\ \A i \in Idx : i \in Int
    BY DEF TaskInv, TypeOK, Idx
  <1>2. ASSUME UNCHANGED <<inc, taskVars, own, signal>> PROVE FreshInv'
    BY <1>2 DEF FreshInv, Fresh, taskVars
  <1>3. ASSUME NEW comp, add_node(comp) PROVE FreshInv'
    <2>1. comp \in Component /\ inc \in Idx
      BY <1>3, AddFacts DEF add_node
    <2>2. /\ own' = [own EXCEPT ![inc] = comp] /\ inc' = inc + 1 /\ UNCHANGED <<queue, seen, signal>>
          /\ tk' = tk \/ tk' = [tk EXCEPT ![inc] = "spawned"]
      BY <1>3 DEF add_node
    <2>3. tk[inc] = "none"
      BY <1>1, <2>1 DEF FreshInv
    <2>4. /\ tk' \in [Idx -> TaskState] /\ own' \in [Idx -> Component \cup {NoComp}]
          /\ seen' \in [Idx -> Component \cup {NoComp}]
      BY <2>1, <2>2 DEF FreshInv, TaskState
    <2>5. \A j \in 1 .. Len(queue') : queue'[j] < inc'
      BY <1>1, <2>2 DEF FreshInv
    <2>6. \A i \in Idx : Fresh(i)' /\ (i >= inc' => tk'[i] = "none")
      BY <1>1, <2>1, <2>2, <2>3 DEF FreshInv, Fresh
    <2> QED
      BY <2>2, <2>4, <2>5, <2>6 DEF FreshInv
  <1>4. ASSUME NEW comp, update_node(comp) PROVE FreshInv'
    <2>1. call # NoReload /\ call.phase = "change" /\ comp \in call.todo /\ call \in Reload /\ Groups
      BY <1>4 DEF update_node, In, TaskInv
    <2>2. comp \in call.diffs /\ comp \in Component
      BY <2>1, CallShape DEF Groups
    <2>3. nodes[comp.id] \in Idx
      BY <2>1, <2>2, TouchedApart
    <2>4. /\ own' = [own EXCEPT ![nodes[comp.id]] = comp] /\ signal' = signal \cup {nodes[comp.id]}
          /\ UNCHANGED <<queue, seen, tk, inc>>
      BY <1>4 DEF update_node, taskVars
    <2> QED
      BY <2>2, <2>3, <2>4 DEF FreshInv, Fresh
  <1>5. CASE reload_step
    <2>1. CASE \/ configure_links_after_adding_new_nodes \/ configure_links_after_changing_nodes
               \/ configure_links_after_remove_oudated_nodes \/ add_permits \/ \E i \in Idx : remove_node(i)
      BY <1>2, <2>1 DEF configure_links_after_adding_new_nodes, configure_links_after_changing_nodes, link,
         configure_links_after_remove_oudated_nodes, add_permits, remove_node
    <2> QED
      BY <1>3, <1>4, <1>5, <2>1 DEF reload_step
  <1>6. CASE \E plan \in Plans : begin_reload(plan) \/ reject_reload(plan)
    BY <1>2, <1>6 DEF begin_reload, reject_reload, reload_rejected, vars
  <1>7. CASE start \/ wait_for_shutdown
    BY <1>2, <1>7 DEF start, wait_for_shutdown, vars
  <1>8. CASE UNCHANGED allVars
    BY <1>2, <1>8 DEF allVars, vars
  <1> QED
    BY <1>5, <1>6, <1>7, <1>8, FreshExecute DEF TaskNext

\* A change that reaches a Bootstrap is never lost on the way to its task,
\* wherever in boot, fetch, error sleep or run it meets the task.
THEOREM ChangeNeverLost == TaskSpec => []ComponentFresh
  <1>1. TaskInit => FreshInv
    BY DEF TaskInit, FreshInv, Fresh, TaskState, Init
  <1>2. FreshInv => ComponentFresh
    BY DEF FreshInv, Fresh, ComponentFresh
  <1> QED
    BY <1>1, <1>2, FreshStep, ReloadInSteps, PTL DEF TaskSpec
=============================================================================
