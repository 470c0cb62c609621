------------------------ MODULE PipelineReloadProofs ------------------------
(***************************************************************************)
(* Theorems about PipelineReload, for every set of ids, every set of lists *)
(* and every bound.                                                        *)
(***************************************************************************)
EXTENDS PipelineReload, CycleSearch, FiniteSetTheorems, TLAPS

\* The groups of a list are finite sets of components with distinct ids.
LEMMA Groups ==
  ASSUME TypeOK, NEW plan \in Plans
  PROVE  /\ plan \subseteq Component
         /\ \A c, d \in plan : c.id = d.id => c = d
         /\ \A c \in plan : c.id \in Ids /\ c.inputs \subseteq Ids
         /\ Adds(plan) \subseteq plan
         /\ Diffs(plan) \subseteq plan
         /\ \A cs \in SUBSET plan : IsFiniteSet(cs) /\ Cardinality(cs) \in Nat
         /\ NoComp \notin plan
  <1>1. /\ plan \subseteq Component
        /\ IsFiniteSet(plan)
        /\ \A c, d \in plan : c.id = d.id => c = d
        /\ NoComp \notin plan
    BY ReloadAssumption
  <1>2. \A c \in plan : c.id \in Ids /\ c.inputs \subseteq Ids
    BY <1>1 DEF Component
  <1>3. \A cs \in SUBSET plan : IsFiniteSet(cs) /\ Cardinality(cs) \in Nat
    BY <1>1, FS_Subset, FS_CardinalityType
  <1>4. QED
    BY <1>1, <1>2, <1>3 DEF Adds, Diffs

\* The slots handed to a group are fresh, within the table and distinct.
LEMMA FreshSlots ==
  ASSUME TypeOK, NEW plan \in Plans, NEW cs \in SUBSET Adds(plan),
         inc + Cardinality(cs) <= MaxIdx, NEW slot \in Slots(cs)
  PROVE  /\ inc + Cardinality(cs) \in 0 .. MaxIdx
         /\ \A c \in cs : /\ slot[c] \in Idx
                          /\ slot[c] >= inc
                          /\ slot[c] < inc + Cardinality(cs)
                          /\ slot[c] # NoIdx
         /\ \A c, d \in cs : slot[c] = slot[d] => c = d
  <1>1. Cardinality(cs) \in Nat
    BY Groups
  <1>2. inc \in 0 .. MaxIdx /\ MaxIdx \in Nat
    BY ReloadAssumption DEF TypeOK
  <1>3. \A c \in cs : slot[c] \in inc .. (inc + Cardinality(cs) - 1)
    BY DEF Slots
  <1>4. QED
    BY <1>1, <1>2, <1>3 DEF Slots, Idx, NoIdx

\* What the name table holds once the additions are registered.
LEMMA NewNodesFacts ==
  ASSUME TypeOK, NEW plan \in Plans, NEW cs \in SUBSET Adds(plan),
         inc + Cardinality(cs) <= MaxIdx, NEW slot \in Slots(cs)
  PROVE  /\ NewNodes(cs, slot) \in [Ids -> Idx \cup {NoIdx}]
         /\ \A c \in cs : NewNodes(cs, slot)[c.id] = slot[c]
         /\ \A id \in Ids \ IdsOf(cs) : NewNodes(cs, slot)[id] = nodes[id]
  <1>0. cs \subseteq plan /\ \A c \in cs : c.id \in Ids
    BY Groups
  <1>1. \A c \in cs : (CHOOSE d \in cs : d.id = c.id) = c
    BY <1>0, Groups
  <1>2. \A c \in cs : c.id \in IdsOf(cs)
    BY DEF IdsOf
  <1>3. \A c \in cs : NewNodes(cs, slot)[c.id] = slot[c]
    BY <1>0, <1>1, <1>2 DEF NewNodes
  <1>4. \A id \in Ids \ IdsOf(cs) : NewNodes(cs, slot)[id] = nodes[id]
    BY DEF NewNodes
  <1>5. \A id \in IdsOf(cs) : \E c \in cs : c.id = id
    BY DEF IdsOf
  <1>6. \A id \in Ids : NewNodes(cs, slot)[id] \in Idx \cup {NoIdx}
    BY <1>3, <1>4, <1>5, FreshSlots DEF TypeOK
  <1>7. QED
    BY <1>3, <1>4, <1>6 DEF NewNodes

LEMMA NewBootstrapsFacts ==
  ASSUME TypeOK, NEW plan \in Plans, NEW cs \in SUBSET Adds(plan),
         inc + Cardinality(cs) <= MaxIdx, NEW slot \in Slots(cs)
  PROVE  /\ NewBootstraps(cs, slot) \in [Idx -> Component \cup {NoComp}]
         /\ \A c \in cs : NewBootstraps(cs, slot)[slot[c]] = c
         /\ \A i \in Idx : (\A c \in cs : slot[c] # i)
                             => NewBootstraps(cs, slot)[i] = bootstraps[i]
  <1>0. cs \subseteq Component
    BY Groups
  <1>1. \A c \in cs : (CHOOSE d \in cs : slot[d] = slot[c]) = c
    BY FreshSlots
  <1>2. \A c \in cs : NewBootstraps(cs, slot)[slot[c]] = c
    BY <1>1, FreshSlots DEF NewBootstraps
  <1>3. \A i \in Idx : (\A c \in cs : slot[c] # i)
                             => NewBootstraps(cs, slot)[i] = bootstraps[i]
    BY DEF NewBootstraps
  <1>4. \A i \in Idx : NewBootstraps(cs, slot)[i] \in Component \cup {NoComp}
    BY <1>0, <1>2, <1>3 DEF TypeOK
  <1>5. QED
    BY <1>2, <1>3, <1>4 DEF NewBootstraps

\* Which slot and which component every name has after an accepted reload.
\* A component of the list sits in its old slot or, if added, in a fresh one;
\* everything else is gone.
LEMMA InstallTables ==
  ASSUME IInv, NEW plan \in Plans, inc + Cardinality(Adds(plan)) <= MaxIdx,
         NEW slot \in Slots(Adds(plan)), install(plan, slot)
  PROVE  /\ nodes' \in [Ids -> Idx \cup {NoIdx}]
         /\ bootstraps' \in [Idx -> Component \cup {NoComp}]
         /\ \A c \in Adds(plan) : nodes'[c.id] = slot[c]
         /\ \A c \in plan \ Adds(plan) :
              nodes[c.id] \in Live /\ nodes'[c.id] = nodes[c.id]
         /\ \A c \in plan : /\ nodes'[c.id] \in Idx
                             /\ nodes'[c.id] \notin Dels(plan)
                             /\ bootstraps'[nodes'[c.id]] = c
         /\ \A id \in Ids : id \notin IdsOf(plan) => nodes'[id] = NoIdx
         /\ \A i \in Idx : bootstraps'[i] # NoComp
              => bootstraps'[i] \in plan /\ nodes'[bootstraps'[i].id] = i
  <1> DEFINE adds == Adds(plan)  diffs == Diffs(plan)  dels == Dels(plan)
             nn == NewNodes(adds, slot)  nb == NewBootstraps(adds, slot)
  <1> USE DEF IInv
  <1>1. nodes' = [ id \in Ids |-> IF nn[id] \in dels THEN NoIdx ELSE nn[id] ]
    BY DEF install
  <1>2. bootstraps' = [ i \in Idx |->
               IF i \in dels THEN NoComp
               ELSE IF \E c \in diffs : nodes[c.id] = i
                 THEN CHOOSE c \in diffs : nodes[c.id] = i
                 ELSE nb[i] ]
    BY DEF install
  <1>3. /\ nn \in [Ids -> Idx \cup {NoIdx}]
        /\ \A c \in adds : nn[c.id] = slot[c]
        /\ \A id \in Ids \ IdsOf(adds) : nn[id] = nodes[id]
    BY NewNodesFacts
  <1>4. /\ nb \in [Idx -> Component \cup {NoComp}]
        /\ \A c \in adds : nb[slot[c]] = c
        /\ \A i \in Idx : (\A c \in adds : slot[c] # i) => nb[i] = bootstraps[i]
    BY NewBootstrapsFacts
  <1>5. \A c \in adds : slot[c] \in Idx /\ slot[c] \notin Live /\ slot[c] # NoIdx
    BY FreshSlots DEF RowsClean
  <1>6. dels \subseteq Live /\ Live \subseteq Idx /\ NoIdx \notin Idx
    BY ReloadAssumption DEF Dels, Live, Idx, NoIdx
  <1>7. \A c \in plan \ adds : /\ c.id \in Ids \ IdsOf(adds)
                               /\ nodes[c.id] \in Live /\ nodes[c.id] \notin dels
    <2>1. \A c \in plan \ adds : nodes[c.id] # NoIdx
      BY DEF Adds
    <2>2. \A c \in plan \ adds : c.id \notin IdsOf(adds)
      BY <2>1 DEF Adds, IdsOf
    <2>3. QED
      BY <2>1, <2>2, Groups DEF Registry, Dels
  <1>8. \A c \in plan \ adds : nodes'[c.id] = nodes[c.id]
    BY <1>1, <1>3, <1>7
  <1>9. \A c \in adds : nodes'[c.id] = slot[c]
    BY <1>1, <1>3, <1>5, <1>6, Groups
  <1>10. \A c \in plan : nodes'[c.id] \in Idx /\ nodes'[c.id] \notin dels
    BY <1>5, <1>6, <1>7, <1>8, <1>9
  <1>11. \A c \in diffs : (CHOOSE d \in diffs : nodes[d.id] = nodes[c.id]) = c
    <2>1. \A c \in diffs : c \in plan /\ c.id \in Ids /\ nodes[c.id] # NoIdx
      BY Groups DEF Diffs
    <2>2. \A c, d \in diffs : nodes[c.id] = nodes[d.id] => c.id = d.id
      BY <2>1 DEF Registry
    <2>3. \A c, d \in diffs : nodes[c.id] = nodes[d.id] => c = d
      BY <2>1, <2>2, Groups
    <2>4. QED
      BY <2>3
  <1>12. \A c \in adds : bootstraps'[slot[c]] = c
    <2>1. \A c \in adds : \A d \in diffs : nodes[d.id] # slot[c]
      BY <1>5, <1>7, Groups DEF Diffs, Adds
    <2>2. QED
      BY <2>1, <1>2, <1>4, <1>5, <1>6
  <1>13. \A c \in diffs : bootstraps'[nodes[c.id]] = c
    <2>1. \A c \in diffs : c \in plan \ adds
      BY Groups DEF Diffs, Adds
    <2>2. QED
      BY <2>1, <1>2, <1>6, <1>7, <1>11
  <1>14. \A c \in plan \ adds : c \notin diffs => bootstraps'[nodes[c.id]] = c
    <2> SUFFICES ASSUME NEW c \in plan \ adds, c \notin diffs
                 PROVE  bootstraps'[nodes[c.id]] = c
      OBVIOUS
    <2>1. bootstraps[nodes[c.id]] = c /\ nodes[c.id] # NoIdx
      BY DEF Adds, Diffs
    <2>2. \A d \in diffs : nodes[d.id] # nodes[c.id]
      <3> SUFFICES ASSUME NEW d \in diffs, nodes[d.id] = nodes[c.id] PROVE FALSE
        OBVIOUS
      <3>1. d \in plan /\ d.id \in Ids /\ c.id \in Ids
        BY Groups
      <3>2. d.id = c.id
        BY <2>1, <3>1 DEF Registry
      <3>3. QED
        BY <3>1, <3>2, Groups
    <2>3. \A d \in adds : slot[d] # nodes[c.id]
      BY <1>5, <1>7
    <2>4. nb[nodes[c.id]] = c
      BY <2>1, <2>3, <1>4, <1>6, <1>7
    <2>5. QED
      BY <2>2, <2>4, <1>2, <1>6, <1>7
  <1>15. \A c \in plan : bootstraps'[nodes'[c.id]] = c
    BY <1>8, <1>9, <1>12, <1>13, <1>14
  <1>16. \A id \in Ids : id \notin IdsOf(plan) => nodes'[id] = NoIdx
    <2> SUFFICES ASSUME NEW id \in Ids, id \notin IdsOf(plan)
                 PROVE  nodes'[id] = NoIdx
      OBVIOUS
    <2>1. id \notin IdsOf(adds)
      BY Groups DEF IdsOf
    <2>2. nn[id] = nodes[id]
      BY <2>1, <1>3
    <2>3. CASE nodes[id] = NoIdx
      BY <2>2, <2>3, <1>1
    <2>4. CASE nodes[id] # NoIdx
      <3>1. nodes[id] \in Live /\ bootstraps[nodes[id]].id = id
        BY <2>4 DEF Registry
      <3>2. \A c \in plan : nodes[c.id] # nodes[id]
        <4> SUFFICES ASSUME NEW c \in plan, nodes[c.id] = nodes[id] PROVE FALSE
          OBVIOUS
        <4>1. c.id \in Ids
          BY Groups
        <4>2. c.id = id
          BY <4>1, <2>4, <3>1 DEF Registry
        <4>3. QED
          BY <4>2 DEF IdsOf
      <3>3. nodes[id] \in dels
        BY <3>1, <3>2 DEF Dels
      <3>4. QED
        BY <3>3, <2>2, <1>1
    <2>5. QED
      BY <2>3, <2>4
  <1>17. \A i \in Idx : bootstraps'[i] # NoComp
              => bootstraps'[i] \in plan /\ nodes'[bootstraps'[i].id] = i
    <2> SUFFICES ASSUME NEW i \in Idx, bootstraps'[i] # NoComp
                 PROVE  \E c \in plan : nodes'[c.id] = i
      BY <1>15
    <2>1. i \notin dels
      BY <1>2
    <2>2. CASE \E c \in diffs : nodes[c.id] = i
      BY <2>2, <1>8, Groups DEF Diffs, Adds
    <2>3. CASE \E c \in adds : slot[c] = i
      BY <2>3, <1>9, Groups
    <2>4. CASE /\ ~ \E c \in diffs : nodes[c.id] = i
               /\ ~ \E c \in adds : slot[c] = i
      <3>1. bootstraps'[i] = bootstraps[i]
        BY <2>1, <2>4, <1>2, <1>4
      <3>2. i \in Live
        BY <3>1 DEF Live
      <3>3. PICK c \in plan : nodes[c.id] = i
        BY <2>1, <3>2 DEF Dels
      <3>4. c \notin adds
        BY <3>2, <3>3, <1>6 DEF Adds
      <3>5. QED
        BY <3>3, <3>4, <1>8
    <2>5. QED
      BY <2>2, <2>3, <2>4
  <1>18. nodes' \in [Ids -> Idx \cup {NoIdx}]
    BY <1>1, <1>3
  <1>19. bootstraps' \in [Idx -> Component \cup {NoComp}]
    <2>1. \A i \in Idx : bootstraps'[i] \in Component \cup {NoComp}
      BY <1>17, Groups
    <2>2. QED
      BY <2>1, <1>2
  <1>20. QED
    BY <1>7, <1>8, <1>9, <1>10, <1>15, <1>16, <1>17, <1>18, <1>19

\* The link tables after an accepted reload: the row of an added or changed
\* node is what it declares, a surviving row is unchanged, a removed one is
\* empty.
LEMMA InstallSources ==
  ASSUME IInv, NEW plan \in Plans, inc + Cardinality(Adds(plan)) <= MaxIdx,
         NEW slot \in Slots(Adds(plan)), install(plan, slot)
  PROVE  LET touched == Adds(plan) \cup Diffs(plan)
             nn == NewNodes(Adds(plan), slot)
             src == LinkSources(touched, nn)
         IN  /\ src \in [Idx -> SUBSET Idx]
             /\ \A c \in touched : nn[c.id] = nodes'[c.id] /\ src[nn[c.id]] = Wired(c, nn)
             /\ \A i \in Idx : (\A c \in touched : nn[c.id] # i) => src[i] = sources[i]
             /\ \A i \in Idx : \A j \in src[i] : j < inc + Cardinality(Adds(plan))
  <1> DEFINE adds == Adds(plan)  diffs == Diffs(plan)  dels == Dels(plan)
             touched == adds \cup diffs
             nn == NewNodes(adds, slot)
             src == LinkSources(touched, nn)
  <1> USE DEF IInv
  <1>1. /\ nn \in [Ids -> Idx \cup {NoIdx}]
        /\ \A c \in adds : nn[c.id] = slot[c]
        /\ \A id \in Ids \ IdsOf(adds) : nn[id] = nodes[id]
    BY NewNodesFacts
  <1>2. touched \subseteq plan /\ \A c \in touched : c.id \in Ids /\ c.inputs \subseteq Ids
    BY Groups
  <1>3. \A c \in touched : nn[c.id] = nodes'[c.id]
    <2>1. \A c \in adds : nn[c.id] = nodes'[c.id]
      BY <1>1, InstallTables
    <2>2. \A c \in diffs : c.id \notin IdsOf(adds) /\ c \in plan \ adds
      BY <1>2 DEF Diffs, Adds, IdsOf
    <2>3. \A c \in diffs : nn[c.id] = nodes'[c.id]
      BY <2>2, <1>1, <1>2, InstallTables
    <2>4. QED
      BY <2>1, <2>3
  <1>4. \A c, d \in touched : nn[c.id] = nn[d.id] => c = d
    BY <1>2, <1>3, InstallTables
  <1>5. \A c \in touched : nn[c.id] \in Idx
    BY <1>2, <1>3, InstallTables
  <1>6. \A c \in touched : (CHOOSE d \in touched : nn[d.id] = nn[c.id]) = c
    BY <1>4
  <1>7. \A c \in touched : src[nn[c.id]] = Wired(c, nn)
    BY <1>5, <1>6 DEF LinkSources
  <1>8. \A i \in Idx : (\A c \in touched : nn[c.id] # i) => src[i] = sources[i]
    BY DEF LinkSources
  <1>9. \A c \in touched : Wired(c, nn) \subseteq Idx
    BY <1>1, <1>2 DEF Wired
  <1>10. src \in [Idx -> SUBSET Idx]
    <2> HIDE DEF nn, src, touched
    <2>1. \A i \in Idx : src[i] \in SUBSET Idx
      <3> SUFFICES ASSUME NEW i \in Idx PROVE src[i] \subseteq Idx
        OBVIOUS
      <3>1. CASE \E c \in touched : nn[c.id] = i
        BY <3>1, <1>7, <1>9
      <3>2. CASE \A c \in touched : nn[c.id] # i
        BY <3>2, <1>8 DEF TypeOK
      <3>3. QED
        BY <3>1, <3>2
    <2>2. QED
      BY <2>1 DEF LinkSources, src
  <1>11. \A id \in Ids : nn[id] # NoIdx => nn[id] < inc + Cardinality(adds)
    <2> SUFFICES ASSUME NEW id \in Ids, nn[id] # NoIdx
                 PROVE  nn[id] < inc + Cardinality(adds)
      OBVIOUS
    <2>1. CASE id \in IdsOf(adds)
      BY <2>1, <1>1, FreshSlots DEF IdsOf
    <2>2. CASE id \notin IdsOf(adds)
      <3>1. nodes[id] \in Live /\ nn[id] = nodes[id]
        BY <2>2, <1>1 DEF Registry
      <3>2. nodes[id] \in Idx /\ ~(nodes[id] >= inc)
        BY <3>1 DEF RowsClean, Live
      <3>3. inc \in Nat /\ nodes[id] \in Int /\ Cardinality(adds) \in Nat
        BY <3>2, Groups DEF TypeOK, Idx
      <3>4. QED
        BY <3>1, <3>2, <3>3
    <2>3. QED
      BY <2>1, <2>2
  <1>12. \A i \in Idx : \A j \in src[i] : j < inc + Cardinality(adds)
    <2> SUFFICES ASSUME NEW i \in Idx, NEW j \in src[i]
                 PROVE  j < inc + Cardinality(adds)
      OBVIOUS
    <2>1. CASE \E c \in touched : nn[c.id] = i
      <3>1. PICK c \in touched : nn[c.id] = i
        BY <2>1
      <3>2. j \in Wired(c, nn)
        BY <3>1, <1>7
      <3>3. PICK x \in Ids : j = nn[x] /\ j # NoIdx
        BY <3>2, <1>2 DEF Wired
      <3>4. QED
        BY <3>3, <1>11
    <2>2. CASE \A c \in touched : nn[c.id] # i
      <3>1. j \in sources[i]
        BY <2>2, <1>8
      <3>2. j < inc /\ j \in Int
        BY <3>1 DEF RowsClean, TypeOK, Idx
      <3>3. inc \in Nat /\ Cardinality(adds) \in Nat
        BY Groups DEF TypeOK
      <3>4. QED
        BY <3>2, <3>3
    <2>3. QED
      BY <2>1, <2>2
  <1>13. QED
    BY <1>3, <1>7, <1>8, <1>10, <1>12

\* An accepted reload keeps the two link tables mirror images.
LEMMA InstallMirror ==
  ASSUME IInv, NEW plan \in Plans, inc + Cardinality(Adds(plan)) <= MaxIdx,
         NEW slot \in Slots(Adds(plan)), install(plan, slot)
  PROVE  sinks' \in [Idx -> SUBSET Idx] /\ LinkMirror'
  <1> DEFINE adds == Adds(plan)  diffs == Diffs(plan)  dels == Dels(plan)
             touched == adds \cup diffs
             nn == NewNodes(adds, slot)
             src == LinkSources(touched, nn)
             snk == LinkSinks(touched, nn)
             ts == { nn[c.id] : c \in touched }
  <1> USE DEF IInv
  <1>1. /\ src \in [Idx -> SUBSET Idx]
        /\ \A c \in touched : nn[c.id] = nodes'[c.id]
        /\ \A i \in Idx : i \notin ts => src[i] = sources[i]
    <2>1. /\ src \in [Idx -> SUBSET Idx]
          /\ \A c \in touched : nn[c.id] = nodes'[c.id]
          /\ \A i \in Idx : (\A c \in touched : nn[c.id] # i) => src[i] = sources[i]
      BY InstallSources
    <2> HIDE DEF nn, src, touched
    <2>2. QED
      BY <2>1
  <1>2. ts \subseteq Idx
    <2>1. \A c \in touched : nn[c.id] \in Idx
      BY <1>1, InstallTables, Groups
    <2>2. QED
      BY <2>1
  <1>3. snk = [ s \in Idx |->
          (sinks[s] \ { i \in ts : s \in sources[i] /\ s \notin src[i] })
            \cup { i \in ts : s \in src[i] /\ s \notin sources[i] } ]
    BY DEF LinkSinks
  <1>3a. /\ sources' = UnlinkSources(src, dels)
         /\ sinks' = UnlinkSinks(src, snk, dels)
    BY DEF install
  <1> HIDE DEF adds, diffs, dels, touched, nn, src, snk, ts
  <1>4. snk \in [Idx -> SUBSET Idx]
    BY <1>2, <1>3 DEF TypeOK
  <1>5. \A s, i \in Idx : i \in snk[s] => s \in src[i]
    BY <1>1, <1>2, <1>3 DEF LinkMirror
  <1>6. \A s, i \in Idx : s \in src[i] /\ (s \in Live \/ s >= inc) => i \in snk[s]
    <2> SUFFICES ASSUME NEW s \in Idx, NEW i \in Idx, s \in src[i],
                        s \in Live \/ s >= inc
                 PROVE  i \in snk[s]
      OBVIOUS
    <2>1. s \in sources[i] => i \in sinks[s]
      <3> SUFFICES ASSUME s \in sources[i] PROVE i \in sinks[s]
        OBVIOUS
      <3>1. s < inc
        BY DEF RowsClean
      <3>2. ~ (s >= inc)
        BY <3>1 DEF TypeOK, Idx
      <3>3. QED
        BY <3>2 DEF LinkMirror
    <2>2. CASE i \in ts
      BY <2>1, <2>2, <1>3
    <2>3. CASE i \notin ts
      BY <2>1, <2>3, <1>1, <1>3
    <2>4. QED
      BY <2>2, <2>3
  <1>8. /\ \A s \in Idx : sources'[s] = IF s \in dels THEN {} ELSE src[s]
        /\ \A s \in Idx : sinks'[s] = IF s \in dels THEN {}
                                      ELSE snk[s] \ { d \in dels : s \in src[d] }
        /\ DOMAIN sinks' = Idx
        /\ sinks' = [ s \in Idx |-> sinks'[s] ]
    BY <1>3a DEF UnlinkSources, UnlinkSinks
  <1>9. sinks' \in [Idx -> SUBSET Idx]
    BY <1>4, <1>8
  <1>10. \A i \in Idx : i \in Live' => i \notin dels /\ (i \in Live \/ i >= inc)
    <2> SUFFICES ASSUME NEW i \in Idx, i \in Live'
                 PROVE  i \notin dels /\ (i \in Live \/ i >= inc)
      OBVIOUS
    <2>1. PICK c \in plan : nodes'[c.id] = i
      BY InstallTables DEF Live
    <2>2. CASE c \in adds
      BY <2>1, <2>2, InstallTables, FreshSlots DEF adds, dels
    <2>3. CASE c \notin adds
      BY <2>1, <2>3, InstallTables DEF adds, dels
    <2>4. QED
      BY <2>1, <2>2, <2>3, InstallTables DEF dels
  <1>11. \A i, j \in Idx : j \in sinks'[i] => i \in sources'[j]
    BY <1>5, <1>8, <1>4
  <1>12. \A i, j \in Idx : i \in Live' /\ i \in sources'[j] => j \in sinks'[i]
    BY <1>6, <1>8, <1>10
  <1>13. QED
    BY <1>9, <1>11, <1>12 DEF LinkMirror

\* An accepted reload preserves the inductive invariant.
LEMMA OkPreserves ==
  ASSUME IInv, NEW plan \in Plans, reload_ok(plan)
  PROVE  IInv'
  <1>1. PICK slot \in Slots(Adds(plan)) : install(plan, slot)
    BY DEF reload_ok
  <1>2. inc + Cardinality(Adds(plan)) <= MaxIdx
    BY DEF reload_ok
  <1> DEFINE adds == Adds(plan)  diffs == Diffs(plan)  dels == Dels(plan)
             nn == NewNodes(adds, slot)
             src == LinkSources(adds \cup diffs, nn)
  <1> USE DEF IInv
  <1>3. /\ src \in [Idx -> SUBSET Idx]
        /\ \A i \in Idx : \A j \in src[i] : j < inc + Cardinality(adds)
        /\ \A c \in adds \cup diffs : nn[c.id] = nodes'[c.id]
        /\ \A i \in Idx : (\A c \in adds \cup diffs : nn[c.id] # i) => src[i] = sources[i]
    BY <1>1, <1>2, InstallSources
  <1>4. sources' = [ i \in Idx |-> IF i \in dels THEN {} ELSE src[i] ]
    BY <1>1 DEF install, UnlinkSources
  <1>5. /\ inc' = inc + Cardinality(adds)
        /\ inc' \in 0 .. MaxIdx
        /\ \A c \in adds : slot[c] \in Idx /\ slot[c] >= inc /\ slot[c] < inc'
    BY <1>1, <1>2, FreshSlots DEF install
  <1>6. /\ tasks' = (tasks \cup { slot[c] : c \in adds }) \ dels
        /\ senders' = (senders \cup { slot[c] : c \in adds }) \ dels
        /\ inputs' = (inputs \cup { slot[c] : c \in { c \in adds : c.type = "Input" } }) \ dels
        /\ outputs' = (outputs \cup { slot[c] : c \in { c \in adds : c.type = "Output" } }) \ dels
    BY <1>1 DEF install
  <1>7. \A i \in Idx : i \in Live' <=> (i \in Live \cup { slot[c] : c \in adds }) /\ i \notin dels
    <2> SUFFICES ASSUME NEW i \in Idx
                 PROVE  i \in Live' <=> (i \in Live \cup { slot[c] : c \in adds }) /\ i \notin dels
      OBVIOUS
    <2>1. ASSUME i \in Live'
          PROVE  (i \in Live \cup { slot[c] : c \in adds }) /\ i \notin dels
      <3>1. PICK c \in plan : nodes'[c.id] = i
        BY <1>1, <1>2, <2>1, InstallTables DEF Live
      <3>2. QED
        BY <3>1, <1>1, <1>2, InstallTables
    <2>2. ASSUME i \in Live, i \notin dels
          PROVE  i \in Live'
      <3>1. PICK c \in plan : nodes[c.id] = i
        BY <2>2 DEF Dels
      <3>2. i # NoIdx
        BY DEF Idx, NoIdx
      <3>3. c \notin adds
        BY <3>1, <3>2 DEF Adds
      <3>4. bootstraps'[i] = c
        BY <3>1, <3>3, <1>1, <1>2, InstallTables
      <3>5. QED
        BY <3>4, Groups DEF Live
    <2>3. ASSUME NEW c \in adds, i = slot[c]
          PROVE  i \in Live'
      BY <2>3, <1>1, <1>2, InstallTables, Groups DEF Live
    <2>4. QED
      BY <2>1, <2>2, <2>3
  <1>8. dels \subseteq Live /\ Live \subseteq Idx /\ Live' \subseteq Idx
    BY DEF Dels, Live
  <1>9. TypeOK'
    <2>1. nodes' \in [Ids -> Idx \cup {NoIdx}] /\ bootstraps' \in [Idx -> Component \cup {NoComp}]
      BY <1>1, <1>2, InstallTables
    <2>2. tasks' \subseteq Idx /\ senders' \subseteq Idx /\ inputs' \subseteq Idx /\ outputs' \subseteq Idx
      BY <1>5, <1>6 DEF TypeOK
    <2>3. sources' \in [Idx -> SUBSET Idx]
      BY <1>3, <1>4
    <2>4. sinks' \in [Idx -> SUBSET Idx]
      BY <1>1, <1>2, InstallMirror
    <2>5. generation' \in 1 .. MaxGeneration /\ result' = "ok"
      BY ReloadAssumption DEF reload_ok, TypeOK
    <2>6. QED
      BY <2>1, <2>2, <2>3, <2>4, <2>5, <1>5 DEF TypeOK
  <1>10. Registry'
    <2>1. \A id \in Ids : nodes'[id] # NoIdx =>
            nodes'[id] \in Live' /\ bootstraps'[nodes'[id]].id = id
      <3> SUFFICES ASSUME NEW id \in Ids, nodes'[id] # NoIdx
                   PROVE  nodes'[id] \in Live' /\ bootstraps'[nodes'[id]].id = id
        OBVIOUS
      <3>1. id \in IdsOf(plan)
        BY <1>1, <1>2, InstallTables
      <3>2. PICK c \in plan : c.id = id
        BY <3>1 DEF IdsOf
      <3>3. QED
        BY <3>2, <1>1, <1>2, InstallTables, Groups DEF Live
    <2>2. \A i \in Live' : nodes'[bootstraps'[i].id] = i
      BY <1>1, <1>2, InstallTables DEF Live
    <2>3. senders' = Live'
      BY <1>5, <1>6, <1>7, <1>8 DEF Registry
    <2>4. tasks' \cup inputs' \cup outputs' \subseteq Live'
      BY <1>5, <1>6, <1>7, <1>8 DEF Registry
    <2>5. QED
      BY <2>1, <2>2, <2>3, <2>4 DEF Registry
  <1>11. LinkMirror'
    BY <1>1, <1>2, InstallMirror
  <1>12. RowsClean'
    <2> SUFFICES ASSUME NEW i \in Idx
                 PROVE  /\ i \notin Live' => sources'[i] = {} /\ sinks'[i] = {}
                        /\ i >= inc' => i \notin Live'
                        /\ \A j \in sources'[i] : j < inc'
      BY DEF RowsClean
    <2>1. i \notin Live' => sources'[i] = {}
      <3> SUFFICES ASSUME i \notin Live', i \notin dels PROVE src[i] = {}
        BY <1>4
      <3>1. i \notin Live
        BY <1>7
      <3>2. \A c \in adds \cup diffs : nn[c.id] # i
        <4>1. \A c \in adds \cup diffs : bootstraps'[nodes'[c.id]] # NoComp
          BY <1>1, <1>2, InstallTables, Groups
        <4>2. bootstraps'[i] = NoComp
          BY DEF Live
        <4>3. QED
          BY <4>1, <4>2, <1>3
      <3>3. QED
        BY <3>1, <3>2, <1>3 DEF RowsClean
    <2>2. i \notin Live' => sinks'[i] = {}
      <3> SUFFICES ASSUME i \notin Live', i \notin dels, NEW j \in sinks'[i] PROVE FALSE
        BY <1>1 DEF install, UnlinkSinks
      <3>1. i \notin Live /\ i \notin { slot[c] : c \in adds }
        BY <1>7
      <3>2. sinks[i] = {}
        BY <3>1 DEF RowsClean
      <3>3. j \in LinkSinks(adds \cup diffs, nn)[i]
        BY <1>1 DEF install, UnlinkSinks
      <3>4. PICK c \in adds \cup diffs : i \in src[nn[c.id]]
        BY <3>2, <3>3 DEF LinkSinks
      <3>5. i \in Wired(c, nn)
        BY <3>4, <1>1, <1>2, InstallSources
      <3>6. PICK x \in Ids : i = nn[x] /\ nn[x] # NoIdx
        BY <3>5, Groups DEF Wired
      <3>7. nn[x] \in Live \/ nn[x] \in { slot[d] : d \in adds }
        BY <3>6, <1>1, <1>2, NewNodesFacts DEF Registry, IdsOf
      <3>8. QED
        BY <3>1, <3>6, <3>7
    <2>3. i >= inc' => i \notin Live'
      <3> SUFFICES ASSUME i >= inc', i \in Live' PROVE FALSE
        OBVIOUS
      <3>1. inc \in Nat /\ inc' \in Nat /\ inc <= inc' /\ i \in Int
        BY <1>5, Groups DEF TypeOK, Idx
      <3>2. i >= inc
        BY <3>1
      <3>3. i \in { slot[c] : c \in adds }
        BY <3>2, <1>7 DEF RowsClean
      <3>4. QED
        BY <3>1, <3>3, <1>5
    <2>4. \A j \in sources'[i] : j < inc'
      BY <1>3, <1>4, <1>5
    <2>5. QED
      BY <2>1, <2>2, <2>3, <2>4
  <1>13. QED
    BY <1>9, <1>10, <1>11, <1>12

\* A reload that stops at a failing prepare preserves the inductive invariant:
\* the half-registered nodes have a name, a slot and a channel, and no links.
LEMMA FailedPreserves ==
  ASSUME IInv, NEW plan \in Plans, reload_prepare_failed(plan)
  PROVE  IInv'
  <1> USE DEF IInv
  <1>1. PICK cs \in SUBSET Adds(plan) : \E bad \in cs :
          /\ inc + Cardinality(cs) <= MaxIdx
          /\ \E slot \in Slots(cs) : add_new_nodes(cs, cs \ {bad}, slot)
    BY DEF reload_prepare_failed
  <1>1a. PICK bad \in cs : \E slot \in Slots(cs) : add_new_nodes(cs, cs \ {bad}, slot)
    BY <1>1
  <1>2. PICK slot \in Slots(cs) : add_new_nodes(cs, cs \ {bad}, slot)
    BY <1>1a
  <1>3. UNCHANGED <<sources, sinks, generation>> /\ result' = "failed"
    BY DEF reload_prepare_failed
  <1> DEFINE new == { slot[c] : c \in cs }
  <1>4. /\ inc' = inc + Cardinality(cs)
        /\ inc' \in 0 .. MaxIdx
        /\ \A c \in cs : slot[c] \in Idx /\ slot[c] >= inc /\ slot[c] < inc' /\ slot[c] # NoIdx
    BY <1>1, <1>2, FreshSlots DEF add_new_nodes
  <1>5. /\ nodes' \in [Ids -> Idx \cup {NoIdx}]
        /\ \A c \in cs : nodes'[c.id] = slot[c]
        /\ \A id \in Ids \ IdsOf(cs) : nodes'[id] = nodes[id]
    BY <1>1, <1>2, NewNodesFacts DEF add_new_nodes
  <1>6. /\ bootstraps' \in [Idx -> Component \cup {NoComp}]
        /\ \A c \in cs : bootstraps'[slot[c]] = c
        /\ \A i \in Idx : i \notin new => bootstraps'[i] = bootstraps[i]
    BY <1>1, <1>2, NewBootstrapsFacts DEF add_new_nodes
  <1>7. Live' = Live \cup new /\ new \subseteq Idx
    BY <1>4, <1>6, Groups DEF Live
  <1>8. /\ senders' = senders \cup new
        /\ tasks' \subseteq tasks \cup new
        /\ inputs' \subseteq inputs \cup new
        /\ outputs' \subseteq outputs \cup new
    BY <1>2 DEF add_new_nodes
  <1>9. \A c \in cs : c \in plan /\ c.id \in Ids /\ nodes[c.id] = NoIdx
    BY Groups DEF Adds
  <1>10. TypeOK'
    BY <1>3, <1>4, <1>5, <1>6, <1>7, <1>8 DEF TypeOK
  <1>11. Registry'
    <2>1. \A id \in Ids : nodes'[id] # NoIdx =>
            nodes'[id] \in Live' /\ bootstraps'[nodes'[id]].id = id
      <3> SUFFICES ASSUME NEW id \in Ids, nodes'[id] # NoIdx
                   PROVE  nodes'[id] \in Live' /\ bootstraps'[nodes'[id]].id = id
        OBVIOUS
      <3>1. CASE \E c \in cs : c.id = id
        BY <3>1, <1>5, <1>6, <1>7
      <3>2. CASE ~ \E c \in cs : c.id = id
        <4>1. nodes'[id] = nodes[id]
          BY <3>2, <1>5 DEF IdsOf
        <4>2. nodes[id] \in Live /\ nodes[id] \in Idx /\ bootstraps[nodes[id]].id = id
          BY <4>1 DEF Registry, Live
        <4>3. nodes[id] \notin new
          BY <4>2, <1>4 DEF RowsClean
        <4>4. QED
          BY <4>1, <4>2, <4>3, <1>6, <1>7
      <3>3. QED
        BY <3>1, <3>2
    <2>2. \A i \in Live' : nodes'[bootstraps'[i].id] = i
      <3> SUFFICES ASSUME NEW i \in Live' PROVE nodes'[bootstraps'[i].id] = i
        OBVIOUS
      <3>1. CASE i \in new
        BY <3>1, <1>5, <1>6
      <3>2. CASE i \notin new
        <4>1. i \in Live /\ bootstraps'[i] = bootstraps[i]
          BY <3>2, <1>6, <1>7 DEF Live
        <4>2. nodes[bootstraps[i].id] = i /\ bootstraps[i].id \in Ids /\ i # NoIdx
          <5>1. i \in Idx /\ bootstraps[i] # NoComp /\ nodes[bootstraps[i].id] = i
            BY <4>1 DEF Registry, Live
          <5>2. bootstraps[i] \in Component
            BY <5>1 DEF TypeOK
          <5>3. bootstraps[i].id \in Ids
            BY <5>2 DEF Component
          <5>4. QED
            BY <5>1, <5>3 DEF Idx, NoIdx
        <4>3. bootstraps[i].id \notin IdsOf(cs)
          BY <4>2, <1>9 DEF IdsOf
        <4>4. QED
          BY <4>1, <4>2, <4>3, <1>5
      <3>3. QED
        BY <3>1, <3>2
    <2>3. QED
      BY <2>1, <2>2, <1>7, <1>8 DEF Registry
  <1>12. LinkMirror' /\ RowsClean'
    <2>1. \A i \in new : i \in Idx /\ sources[i] = {} /\ sinks[i] = {} /\ \A j \in Idx : i \notin sources[j]
      <3> SUFFICES ASSUME NEW i \in new
                   PROVE  i \in Idx /\ sources[i] = {} /\ sinks[i] = {} /\ \A j \in Idx : i \notin sources[j]
        OBVIOUS
      <3>1. i \in Idx /\ i >= inc /\ ~(i < inc)
        BY <1>4 DEF TypeOK, Idx
      <3>2. QED
        BY <3>1 DEF RowsClean
    <2>2. LinkMirror'
      BY <2>1, <1>3, <1>7 DEF LinkMirror
    <2>3. \A i \in Idx : i >= inc' => i \notin Live'
      <3>1. inc \in Nat /\ inc' \in Nat /\ inc <= inc'
        BY <1>4, Groups DEF TypeOK
      <3>2. \A i \in Idx : i \in Int
        BY DEF Idx
      <3>3. QED
        BY <3>1, <3>2, <1>4, <1>7 DEF RowsClean
    <2>4. \A i \in Idx : \A j \in sources'[i] : j < inc'
      <3>1. inc \in Nat /\ Cardinality(cs) \in Nat
        BY Groups DEF TypeOK
      <3>2. \A i \in Idx : \A j \in sources[i] : j \in Int /\ j < inc
        BY DEF RowsClean, TypeOK, Idx
      <3>3. QED
        BY <3>1, <3>2, <1>3, <1>4
    <2>5. QED
      BY <2>1, <2>2, <2>3, <2>4, <1>3, <1>7 DEF RowsClean
  <1>13. QED
    BY <1>10, <1>11, <1>12

\* The invariant holds in every reachable state.
LEMMA Invariance == Spec => []IInv
  <1>1. Init => IInv
    BY ReloadAssumption DEF Init, IInv, TypeOK, Registry, LinkMirror, RowsClean, Live, Idx, NoIdx
  <1>2. IInv /\ [Next]_vars => IInv'
    <2> SUFFICES ASSUME IInv, [Next]_vars PROVE IInv'
      OBVIOUS
    <2>1. ASSUME NEW plan \in Plans, reload_ok(plan) PROVE IInv'
      BY <2>1, OkPreserves
    <2>2. ASSUME NEW plan \in Plans, reload_prepare_failed(plan) PROVE IInv'
      BY <2>2, FailedPreserves
    <2>3. ASSUME NEW plan \in Plans, reload_rejected(plan) PROVE IInv'
      BY <2>3 DEF reload_rejected, IInv, TypeOK, Registry, LinkMirror, RowsClean, Live
    <2>4. CASE UNCHANGED vars
      BY <2>4 DEF vars, IInv, TypeOK, Registry, LinkMirror, RowsClean, Live
    <2>5. QED
      BY <2>1, <2>2, <2>3, <2>4 DEF Next
  <1>3. QED
    BY <1>1, <1>2, PTL DEF Spec

(***************************************************************************)
(* The theorems.                                                           *)
(***************************************************************************)

\* Every table of the runtime keeps its shape under any sequence of reloads,
\* accepted, refused or stopped half-way.
THEOREM TypeCorrect == Spec => []TypeOK
  <1>1. IInv => TypeOK
    BY DEF IInv
  <1>2. QED
    BY <1>1, Invariance, PTL

\* The name table, the slot table and the channel table agree, so the lookups
\* of reload, inject and remove_oudated_nodes never miss.
THEOREM RegistryConsistent == Spec => []Registry
  <1>1. IInv => Registry
    BY DEF IInv
  <1>2. QED
    BY <1>1, Invariance, PTL

\* Sources and sinks, updated separately by three functions, stay mirror
\* images of each other.
THEOREM LinksMirror == Spec => []LinkMirror
  <1>1. IInv => LinkMirror
    BY DEF IInv
  <1>2. QED
    BY <1>1, Invariance, PTL

\* Every consumer a node is told to send to has a channel: get_senders of
\* Bootstrap never fails with "Sender not found".
THEOREM SendersFound == Spec => []SinksLive
  <1>1. IInv => SinksLive
    <2> SUFFICES ASSUME IInv, NEW i \in Idx, NEW j \in sinks[i] PROVE j \in senders
      BY DEF SinksLive
    <2>1. j \in Idx /\ i \in sources[j]
      BY DEF IInv, TypeOK, LinkMirror
    <2>2. j \in Live
      BY <2>1 DEF IInv, RowsClean
    <2>3. QED
      BY <2>2 DEF IInv, Registry
  <1>2. QED
    BY <1>1, Invariance, PTL

\* The tables of the running pipeline agree, whatever reloads were accepted,
\* rejected or stopped by a failing prepare.
THEOREM TablesConsistent == Spec => []Tables
  <1>1. IInv => RowsClean
    BY DEF IInv
  <1>2. Spec => []RowsClean
    BY <1>1, Invariance, PTL
  <1>3. Registry /\ LinkMirror /\ SinksLive /\ RowsClean => Tables
    BY DEF Tables
  <1>4. QED
    BY <1>2, <1>3, RegistryConsistent, LinksMirror, SendersFound, PTL

\* A cycle among the wired slots after an accepted reload would be a cycle
\* among the names validate_no_cycles looked at.
LEMMA OkAcyclic ==
  ASSUME IInv, NEW plan \in Plans, reload_ok(plan)
  PROVE  WiredAcyclic'
  <1> SUFFICES ASSUME NEW S \in SUBSET Idx, S # {}, \A i \in S : sources'[i] \cap S # {}
               PROVE  FALSE
    BY DEF WiredAcyclic
  <1>1. PICK slot \in Slots(Adds(plan)) : install(plan, slot)
    BY DEF reload_ok
  <1>2. inc + Cardinality(Adds(plan)) <= MaxIdx /\ ~HasCycle(Edges(plan))
    BY DEF reload_ok, Valid, validate_no_cycles
  <1> DEFINE adds == Adds(plan)  diffs == Diffs(plan)  dels == Dels(plan)
             touched == adds \cup diffs
             nn == NewNodes(adds, slot)
             src == LinkSources(touched, nn)
             T == { id \in Ids : nodes'[id] \in S }
  <1> USE DEF IInv
  <1>3. IInv'
    BY OkPreserves
  <1>3a. /\ \A c \in touched : nn[c.id] = nodes'[c.id] /\ src[nn[c.id]] = Wired(c, nn)
         /\ \A i \in Idx : (\A c \in touched : nn[c.id] # i) => src[i] = sources[i]
    BY <1>1, <1>2, InstallSources
  <1>4. S \subseteq Live'
    BY <1>3 DEF RowsClean
  <1>5. \A i \in S : \E id \in T : nodes'[id] = i
    <2> SUFFICES ASSUME NEW i \in S PROVE \E id \in T : nodes'[id] = i
      OBVIOUS
    <2>1. i \in Idx /\ bootstraps'[i] # NoComp
      BY <1>4 DEF Live
    <2>2. bootstraps'[i] \in plan /\ nodes'[bootstraps'[i].id] = i
      BY <2>1, <1>1, <1>2, InstallTables
    <2>3. bootstraps'[i].id \in Ids
      BY <2>2, Groups
    <2>4. QED
      BY <2>2, <2>3
  <1>6. \A id \in T : Edges(plan)[id] \cap T # {}
    <2> SUFFICES ASSUME NEW id \in T PROVE \E x \in T : x \in Edges(plan)[id]
      OBVIOUS
    <2>1. PICK j \in S : j \in sources'[nodes'[id]]
      OBVIOUS
    <2>2. nodes'[id] \in Idx /\ j \in Idx /\ nodes'[id] # NoIdx /\ j # NoIdx
      <3>1. nodes'[id] \in Idx /\ j \in Idx
        OBVIOUS
      <3>2. NoIdx \notin Idx
        BY ReloadAssumption DEF Idx, NoIdx
      <3>3. QED
        BY <3>1, <3>2
    <2>3. PICK c \in plan : c.id = id
      BY <2>2, <1>1, <1>2, InstallTables DEF IdsOf
    <2>4. nodes'[id] \notin dels /\ sources'[nodes'[id]] = src[nodes'[id]]
      <3>1. nodes'[id] \notin dels
        BY <2>3, <1>1, <1>2, InstallTables
      <3>2. QED
        BY <3>1, <2>2, <1>1 DEF install, UnlinkSources
    <2>5. CASE c \in touched
      <3>1. src[nodes'[id]] = Wired(c, nn)
        BY <2>3, <2>5, <1>3a
      <3>2. PICK x \in c.inputs : nn[x] = j
        BY <3>1, <2>1, <2>4 DEF Wired
      <3>3. x \in Ids
        BY <3>2, Groups
      <3>4. j \notin dels
        <4>1. PICK y \in T : nodes'[y] = j
          BY <1>5
        <4>2. PICK d \in plan : d.id = y
          BY <4>1, <2>2, <1>1, <1>2, InstallTables DEF IdsOf
        <4>3. QED
          BY <4>1, <4>2, <1>1, <1>2, InstallTables
      <3>5. nodes'[x] = j
        BY <3>2, <3>3, <3>4, <1>1 DEF install
      <3>6. x \in T
        BY <3>3, <3>5
      <3>7. Edges(plan)[id] = UNION { d.inputs : d \in { d \in touched : d.id = id } }
        BY <2>3, <2>5 DEF Edges, IdsOf
      <3>8. QED
        BY <3>2, <3>6, <3>7, <2>3, <2>5
    <2>6. CASE c \notin touched
      <3>1. c \notin adds /\ nodes[id] \in Live /\ nodes'[id] = nodes[id]
        BY <2>3, <2>6, <1>1, <1>2, InstallTables
      <3>2. \A d \in touched : d.id # id
        BY <2>3, <2>6, Groups
      <3>3. \A d \in touched : nn[d.id] # nodes[id]
        <4> SUFFICES ASSUME NEW d \in touched, nn[d.id] = nodes[id] PROVE FALSE
          OBVIOUS
        <4>1. d \in plan /\ nodes'[d.id] = nodes'[id]
          BY <3>1, <1>3a, Groups
        <4>2. d = c
          BY <4>1, <2>3, <1>1, <1>2, InstallTables
        <4>3. QED
          BY <4>2, <2>6
      <3>4. j \in sources[nodes[id]]
        BY <3>1, <3>3, <2>1, <2>2, <2>4, <1>3a
      <3>5. j < inc
        BY <3>1, <3>4, <2>2 DEF RowsClean
      <3>6. PICK y \in T : nodes'[y] = j
        BY <1>5
      <3>7. PICK d \in plan : d.id = y
        BY <3>6, <2>2, <1>1, <1>2, InstallTables DEF IdsOf
      <3>8. d \notin adds
        <4>1. d \in adds => slot[d] = j /\ slot[d] >= inc
          BY <3>6, <3>7, <1>1, <1>2, InstallTables, FreshSlots
        <4>2. inc \in Int /\ j \in Int
          BY <2>2 DEF TypeOK, Idx
        <4>3. QED
          BY <4>1, <4>2, <3>5
      <3>9. nodes[y] = j
        BY <3>6, <3>7, <3>8, <1>1, <1>2, InstallTables
      <3>10. nodes[id] # NoIdx /\ nodes[id] \notin dels
        BY <3>1, <2>2, <2>4
      <3>11. id \notin IdsOf(adds \cup diffs)
        BY <3>2 DEF IdsOf
      <3>12. Edges(plan)[id] = { x \in Ids : nodes[x] # NoIdx /\ nodes[x] \in sources[nodes[id]] }
        BY <3>10, <3>11 DEF Edges
      <3>13. QED
        BY <3>4, <3>9, <3>12, <2>2
    <2>7. QED
      BY <2>5, <2>6
  <1>7. T # {} /\ T \subseteq Ids
    BY <1>5
  <1>8. HasCycle(Edges(plan))
    BY <1>6, <1>7 DEF HasCycle
  <1>9. QED
    BY <1>2, <1>8

\* No sequence of reloads wires a cycle: the graph the tasks run on, and not
\* only the list last submitted, stays acyclic.
THEOREM Acyclic == Spec => []WiredAcyclic
  <1>1. Init => WiredAcyclic
    BY DEF Init, WiredAcyclic
  <1>2. IInv /\ WiredAcyclic /\ [Next]_vars => WiredAcyclic'
    <2> SUFFICES ASSUME IInv, WiredAcyclic, [Next]_vars PROVE WiredAcyclic'
      OBVIOUS
    <2>1. ASSUME NEW plan \in Plans, reload_ok(plan) PROVE WiredAcyclic'
      BY <2>1, OkAcyclic
    <2>2. CASE sources' = sources
      BY <2>2 DEF WiredAcyclic
    <2>3. QED
      BY <2>1, <2>2 DEF Next, vars, reload_prepare_failed, reload_rejected
  <1>3. QED
    BY <1>1, <1>2, Invariance, PTL DEF Spec

\* An accepted reload leaves exactly the submitted list registered.
THEOREM Installs == Spec => ReloadInstalls
  <1>1. ASSUME IInv, NEW plan \in Plans, reload_ok(plan)
        PROVE  { bootstraps'[i] : i \in Idx } \ {NoComp} = plan
    <2>1. PICK slot \in Slots(Adds(plan)) : install(plan, slot)
      BY <1>1 DEF reload_ok
    <2>2. inc + Cardinality(Adds(plan)) <= MaxIdx
      BY <1>1 DEF reload_ok
    <2>3. \A c \in plan : \E i \in Idx : bootstraps'[i] = c
      BY <1>1, <2>1, <2>2, InstallTables
    <2>4. \A i \in Idx : bootstraps'[i] # NoComp => bootstraps'[i] \in plan
      BY <1>1, <2>1, <2>2, InstallTables
    <2>5. QED
      BY <1>1, <2>3, <2>4, Groups DEF IInv
  <1>2. IInv => [ \A plan \in Plans : reload_ok(plan) =>
                    { bootstraps'[i] : i \in Idx } \ {NoComp} = plan ]_vars
    BY <1>1
  <1>3. QED
    BY <1>2, Invariance, PTL DEF ReloadInstalls

\* A slot number belongs to one node for ever.
THEOREM SlotsOwned == Spec => SlotOwner
  <1> DEFINE Owned == \A i \in Idx :
        /\ i < inc /\ bootstraps[i] = NoComp => bootstraps'[i] = NoComp
        /\ bootstraps[i] # NoComp /\ bootstraps'[i] # NoComp
             => bootstraps'[i].id = bootstraps[i].id
  <1>1. ASSUME IInv, NEW plan \in Plans, reload_ok(plan) PROVE Owned
    <2>1. PICK slot \in Slots(Adds(plan)) : install(plan, slot)
      BY <1>1 DEF reload_ok
    <2>2. inc + Cardinality(Adds(plan)) <= MaxIdx
      BY <1>1 DEF reload_ok
    <2> SUFFICES ASSUME NEW i \in Idx, bootstraps'[i] # NoComp
                 PROVE  /\ ~(i < inc /\ bootstraps[i] = NoComp)
                        /\ bootstraps[i] # NoComp => bootstraps'[i].id = bootstraps[i].id
      OBVIOUS
    <2>3. PICK c \in plan : c = bootstraps'[i] /\ nodes'[c.id] = i
      BY <1>1, <2>1, <2>2, InstallTables
    <2>4. CASE c \in Adds(plan)
      <3>1. i = slot[c] /\ i >= inc
        BY <1>1, <2>1, <2>2, <2>3, <2>4, InstallTables, FreshSlots DEF IInv
      <3>2. bootstraps[i] = NoComp
        BY <1>1, <3>1 DEF IInv, RowsClean, Live
      <3>3. inc \in Int /\ i \in Int
        BY <1>1 DEF IInv, TypeOK, Idx
      <3>4. QED
        BY <3>1, <3>2, <3>3
    <2>5. CASE c \notin Adds(plan)
      <3>1. nodes[c.id] = i /\ i \in Live /\ c.id \in Ids
        BY <1>1, <2>1, <2>2, <2>3, <2>5, InstallTables, Groups DEF IInv
      <3>2. i # NoIdx
        BY DEF Idx, NoIdx
      <3>3. bootstraps[i].id = c.id /\ bootstraps[i] # NoComp
        BY <1>1, <3>1, <3>2 DEF IInv, Registry, Live
      <3>4. QED
        BY <2>3, <3>3
    <2>6. QED
      BY <2>4, <2>5
  <1>2. ASSUME IInv, NEW plan \in Plans, reload_prepare_failed(plan) PROVE Owned
    <2>1. PICK cs \in SUBSET Adds(plan) : \E bad \in cs :
            /\ inc + Cardinality(cs) <= MaxIdx
            /\ \E slot \in Slots(cs) : add_new_nodes(cs, cs \ {bad}, slot)
      BY <1>2 DEF reload_prepare_failed
    <2>2. PICK slot \in Slots(cs) : bootstraps' = NewBootstraps(cs, slot)
      BY <2>1 DEF add_new_nodes
    <2>3. /\ \A c \in cs : slot[c] >= inc /\ slot[c] \in Idx
          /\ \A i \in Idx : (\A c \in cs : slot[c] # i) => bootstraps'[i] = bootstraps[i]
      BY <1>2, <2>1, <2>2, FreshSlots, NewBootstrapsFacts DEF IInv
    <2>4. \A i \in Idx : i >= inc => bootstraps[i] = NoComp
      BY <1>2 DEF IInv, RowsClean, Live
    <2>5. inc \in Int /\ \A i \in Idx : i \in Int
      BY <1>2 DEF IInv, TypeOK, Idx
    <2>6. QED
      BY <2>3, <2>4, <2>5
  <1>3. IInv /\ [Next]_vars => [Owned]_vars
    BY <1>1, <1>2 DEF Next, reload_rejected
  <1>4. QED
    BY <1>3, Invariance, PTL DEF Spec, SlotOwner

-----------------------------------------------------------------------------
(***************************************************************************)
(* The depth-first search behind validate_no_cycles, by an invariant of    *)
(* its colours.                                                            *)
(***************************************************************************)
SearchType ==
  /\ edges \in [Keys -> Seq(Known)]
  /\ color \in [Known -> {"White", "Gray", "Black"}]
  /\ path \in Seq(Known)
  /\ passed \in [Known -> Nat]

\* The path is what is grey, each name once, and each is the input that the
\* one before has last gone on to.
OnPath ==
  /\ \A i \in 1 .. Len(path) : color[path[i]] = "Gray"
  /\ \A n \in Known : color[n] = "Gray" => \E i \in 1 .. Len(path) : path[i] = n
  /\ \A i, j \in 1 .. Len(path) : path[i] = path[j] => i = j
  /\ \A i \in 1 .. Len(path) - 1 :
        /\ passed[path[i]] \in DOMAIN NextOf(path[i])
        /\ NextOf(path[i])[passed[path[i]]] = path[i + 1]

\* The inputs a loop has gone past are black, but for one whose call is under
\* way; so all inputs of a black node are.
Passed ==
  /\ \A n \in Known : color[n] = "White" => passed[n] = 0
  /\ \A i \in 1 .. Len(path) : \A j \in 1 .. passed[path[i]] :
        \/ j \in DOMAIN NextOf(path[i]) /\ color[NextOf(path[i])[j]] = "Black"
        \/ i < Len(path) /\ j = passed[path[i]]
  /\ \A n \in Known : color[n] = "Black" =>
        \A j \in DOMAIN NextOf(n) : color[NextOf(n)[j]] = "Black"

\* No set of black nodes feeds itself.
NoBlackLoop ==
  \A S \in SUBSET Keys :
     (S # {} /\ \A n \in S : color[n] = "Black") => \E n \in S : Inputs(n) \cap S = {}

SearchInv ==
  /\ SearchType
  /\ answer = Pending => OnPath /\ Passed /\ NoBlackLoop
  /\ answer \in {Pending, NoCycle} \/ answer.is = "some"
  /\ CycleAnswers

LEMMA NextOfType ==
  ASSUME SearchType
  PROVE  \A n \in Known : NextOf(n) \in Seq(Known)
  BY DEF SearchType, NextOf, Known

LEMMA InputsOfNext ==
  ASSUME NEW n \in Keys
  PROVE  Inputs(n) = { NextOf(n)[j] : j \in DOMAIN NextOf(n) }
  BY DEF Inputs, NextOf

\* A node that lists something is a node.
LEMMA ListsAreOfNodes ==
  ASSUME NEW n, NEW j \in DOMAIN NextOf(n)
  PROVE  n \in Keys
  BY DEF NextOf

\* What a part of a path holds.
LEMMA PartOf ==
  ASSUME NEW X, NEW s \in Seq(X), NEW a \in Nat, NEW b \in Nat, a >= 1, b <= Len(s), a <= b + 1
  PROVE  /\ SubSeq(s, a, b) \in Seq(X)
         /\ Len(SubSeq(s, a, b)) = b - a + 1
         /\ \A k \in 1 .. b - a + 1 : SubSeq(s, a, b)[k] = s[a + k - 1]
  OBVIOUS

LEMMA SearchBegins == SearchInit => SearchInv
<1> SUFFICES ASSUME SearchInit PROVE SearchInv
  OBVIOUS
<1>1. SearchType
  BY SearchAssumption DEF SearchInit, SearchType
<1>2. path = <<>> /\ Len(path) = 0
  BY DEF SearchInit
<1>3. \A n \in Known : color[n] = "White" /\ passed[n] = 0
  BY DEF SearchInit
<1>4. OnPath
  BY <1>2, <1>3 DEF OnPath
<1>5. Passed
  BY <1>2, <1>3 DEF Passed
<1>6. NoBlackLoop
  BY <1>3 DEF NoBlackLoop, Known
<1>7. CycleAnswers
  BY DEF SearchInit, CycleAnswers, FindsCycle, CycleIsReal, Pending
<1> QED
  BY <1>1, <1>4, <1>5, <1>6, <1>7 DEF SearchInv, SearchInit

\* A call begins on a white name that is the first, or that the innermost loop
\* has just gone on to.
LEMMA VisitKeeps ==
  ASSUME SearchInv, SearchInv, answer = Pending, NEW n \in Known, color[n] = "White",
         visit(n), UNCHANGED <<edges, answer>>,
         passed' \in [Known -> Nat],
         \/ path = <<>> /\ passed' = passed
         \/ /\ path # <<>>
            /\ passed[Top] + 1 \in DOMAIN NextOf(Top)
            /\ NextOf(Top)[passed[Top] + 1] = n
            /\ passed' = [passed EXCEPT ![Top] = @ + 1]
  PROVE  SearchInv'
<1> DEFINE L == Len(path)
<1>0. SearchType /\ OnPath /\ Passed /\ NoBlackLoop
  BY DEF SearchInv
<1>1. L \in Nat /\ Len(path') = L + 1 /\ path'[L + 1] = n /\ \A i \in 1 .. L : path'[i] = path[i]
  BY <1>0 DEF visit, SearchType
<1>2. color' = [color EXCEPT ![n] = "Gray"]
  BY DEF visit
<1>3. SearchType'
  BY <1>0, <1>2 DEF SearchType, visit
<1>4. \A m \in Known : NextOf(m)' = NextOf(m) /\ (m \in Keys => Inputs(m)' = Inputs(m))
  BY DEF NextOf, Inputs
<1>5. \A i \in 1 .. L : path[i] \in Known /\ path[i] # n /\ color[path[i]] = "Gray"
  BY <1>0 DEF OnPath, SearchType
<1>6. \A m \in Known : m # n => color'[m] = color[m]
  BY <1>0, <1>2 DEF SearchType
<1>7. color'[n] = "Gray"
  BY <1>0, <1>2 DEF SearchType
<1>8. \A m \in Known : color[m] = "Black" <=> color'[m] = "Black"
  BY <1>6, <1>7
<1>9. passed[n] = 0
  BY <1>0 DEF Passed
<1>10. path # <<>> => L >= 1 /\ Top = path[L] /\ Top \in Known /\ Top # n /\ passed[Top] \in Nat
  BY <1>0, <1>5 DEF Top, SearchType
<1>11. \A i \in 1 .. L : i < L => path[i] # Top
  BY <1>0, <1>10 DEF OnPath, Top
<1>12. \A m \in Known : (path = <<>> \/ m # Top) => passed'[m] = passed[m]
  BY <1>0, <1>10 DEF SearchType
<1>13. path # <<>> => passed'[Top] = passed[Top] + 1
  BY <1>0, <1>10 DEF SearchType
<1>14. passed'[n] = 0
  BY <1>9, <1>10, <1>12
<1>15. OnPath'
  <2>1. \A i \in 1 .. L + 1 : color'[path'[i]] = "Gray"
    BY <1>1, <1>5, <1>6, <1>7
  <2>2. ASSUME NEW m \in Known, color'[m] = "Gray" PROVE \E i \in 1 .. L + 1 : path'[i] = m
    <3>1. CASE m = n
      BY <3>1, <1>1
    <3>2. CASE m # n
      <4>1. PICK i \in 1 .. L : path[i] = m
        BY <2>2, <3>2, <1>6, <1>0 DEF OnPath
      <4> QED
        BY <4>1, <1>1
    <3> QED
      BY <3>1, <3>2
  <2>3. \A i, j \in 1 .. L + 1 : path'[i] = path'[j] => i = j
    <3> SUFFICES ASSUME NEW i \in 1 .. L + 1, NEW j \in 1 .. L + 1, path'[i] = path'[j] PROVE i = j
      OBVIOUS
    <3>1. CASE i \in 1 .. L /\ j \in 1 .. L
      BY <3>1, <1>0, <1>1 DEF OnPath
    <3>2. CASE i = L + 1 \/ j = L + 1
      BY <3>2, <1>1, <1>5
    <3> QED
      BY <3>1, <3>2, <1>1
  <2>4. ASSUME NEW i \in 1 .. (L + 1) - 1
        PROVE  /\ passed'[path'[i]] \in DOMAIN NextOf(path[i])'
               /\ NextOf(path[i])'[passed'[path'[i]]] = path'[i + 1]
    <3>1. i \in 1 .. L /\ path'[i] = path[i] /\ path[i] \in Known
      BY <1>1, <1>5
    <3>1a. NextOf(path[i])' = NextOf(path[i])
      BY <3>1 DEF NextOf
    <3>2. CASE i < L
      <4>1. passed'[path[i]] = passed[path[i]]
        BY <3>1, <3>2, <1>11, <1>12
      <4>2. i \in 1 .. L - 1 /\ i + 1 \in 1 .. L /\ path'[i + 1] = path[i + 1]
        BY <3>1, <3>2, <1>1
      <4> QED
        BY <4>1, <4>2, <3>1, <3>1a, <1>0 DEF OnPath
    <3>3. CASE i = L
      <4>1. path # <<>> /\ path[i] = Top
        BY <3>1, <3>3, <1>0 DEF Top, SearchType
      <4> QED
        BY <4>1, <3>1, <3>1a, <3>3, <1>1, <1>13
    <3> QED
      BY <3>1, <3>2, <3>3, <1>1
  <2> QED
    BY <2>1, <2>2, <2>3, <2>4, <1>1 DEF OnPath
<1>16. Passed'
  <2>1. ASSUME NEW m \in Known, color'[m] = "White" PROVE passed'[m] = 0
    <3>1. m # n /\ color[m] = "White" /\ (path # <<>> => m # Top)
      BY <2>1, <1>6, <1>7, <1>5, <1>10
    <3> QED
      BY <3>1, <1>0, <1>12 DEF Passed
  <2>2. ASSUME NEW i \in 1 .. L + 1, NEW j \in 1 .. passed'[path'[i]]
        PROVE  \/ j \in DOMAIN NextOf(path[i])' /\ color'[NextOf(path[i])'[j]] = "Black"
               \/ i < L + 1 /\ j = passed'[path'[i]]
    <3>1. CASE i = L + 1
      BY <3>1, <2>2, <1>1, <1>14
    <3>2. CASE i \in 1 .. L
      <4>1. path'[i] = path[i] /\ path[i] \in Known
        BY <3>2, <1>1, <1>5
      <4>2. NextOf(path[i])' = NextOf(path[i])
        BY <4>1 DEF NextOf
      <4>3. passed[path[i]] \in Nat /\ passed'[path[i]] \in Nat
        BY <4>1, <1>0 DEF SearchType
      <4>4. CASE j \in 1 .. passed[path[i]]
        <5>1. CASE i < L /\ j = passed[path[i]]
          BY <5>1, <3>2, <4>1, <1>11, <1>12, <1>1
        <5>2. CASE j \in DOMAIN NextOf(path[i]) /\ color[NextOf(path[i])[j]] = "Black"
          <6>1. NextOf(path[i])[j] \in Known
            BY <5>2, <4>1, <1>0, NextOfType
          <6> QED
            BY <6>1, <5>2, <4>2, <1>8
        <5> QED
          BY <5>1, <5>2, <4>4, <3>2, <1>0 DEF Passed
      <4>5. CASE j \notin 1 .. passed[path[i]]
        <5>1. passed'[path[i]] # passed[path[i]]
          BY <4>5, <2>2, <4>1, <4>3
        <5>2. path # <<>> /\ path[i] = Top
          BY <5>1, <4>1, <1>12
        <5> QED
          BY <5>2, <1>13, <4>5, <2>2, <4>1, <4>3, <3>2, <1>1
      <4> QED
        BY <4>4, <4>5
    <3> QED
      BY <3>1, <3>2, <1>1
  <2>3. ASSUME NEW m \in Known, color'[m] = "Black", NEW j \in DOMAIN NextOf(m)'
        PROVE  color'[NextOf(m)'[j]] = "Black"
    <3>1. color[m] = "Black" /\ NextOf(m)' = NextOf(m) /\ j \in DOMAIN NextOf(m)
      BY <2>3, <1>8, <1>4
    <3>2. NextOf(m)[j] \in Known
      BY <3>1, <1>0, NextOfType
    <3> QED
      BY <3>1, <3>2, <1>0, <1>8 DEF Passed
  <2> QED
    BY <2>1, <2>2, <2>3, <1>1 DEF Passed
<1>17. NoBlackLoop'
  BY <1>0, <1>4, <1>8 DEF NoBlackLoop, Known
<1>18. CycleAnswers'
  BY DEF CycleAnswers, FindsCycle, CycleIsReal, Pending
<1> QED
  BY <1>3, <1>15, <1>16, <1>17, <1>18 DEF SearchInv

\* The loop goes past an input that is black already.
LEMMA BlackKeeps ==
  ASSUME SearchInv, answer = Pending, path # <<>>, passed[Top] + 1 \in DOMAIN NextOf(Top),
         passed' = [passed EXCEPT ![Top] = @ + 1],
         color[NextOf(Top)[passed[Top] + 1]] = "Black",
         UNCHANGED <<edges, color, path, answer>>
  PROVE  SearchInv'
<1> DEFINE L == Len(path)
<1>0. SearchType /\ OnPath /\ Passed /\ NoBlackLoop
  BY DEF SearchInv
<1>1. L \in Nat /\ L >= 1 /\ Top = path[L] /\ Top \in Known /\ passed[Top] \in Nat
  BY <1>0 DEF Top, SearchType
<1>2. SearchType'
  BY <1>0, <1>1 DEF SearchType
<1>3. passed'[Top] = passed[Top] + 1 /\ \A m \in Known : m # Top => passed'[m] = passed[m]
  BY <1>0, <1>1 DEF SearchType
<1>4. \A i \in 1 .. L : path[i] \in Known /\ (i < L => path[i] # Top)
  BY <1>0, <1>1 DEF OnPath, SearchType
<1>5. \A m \in Known : NextOf(m)' = NextOf(m) /\ Inputs(m)' = Inputs(m)
  BY DEF NextOf, Inputs
<1>6. OnPath'
  <2>1. ASSUME NEW i \in 1 .. L - 1
        PROVE  /\ passed'[path[i]] \in DOMAIN NextOf(path[i])'
               /\ NextOf(path[i])'[passed'[path[i]]] = path[i + 1]
    <3>1. i \in 1 .. L /\ i < L
      BY <1>1
    <3>2. passed'[path[i]] = passed[path[i]]
      BY <3>1, <1>3, <1>4
    <3>3. NextOf(path[i])' = NextOf(path[i])
      BY DEF NextOf
    <3> QED
      BY <3>2, <3>3, <1>0 DEF OnPath
  <2> QED
    BY <2>1, <1>0 DEF OnPath
<1>7. Passed'
  <2>1. ASSUME NEW m \in Known, color'[m] = "White" PROVE passed'[m] = 0
    <3>1. color[Top] = "Gray"
      BY <1>0, <1>1 DEF OnPath
    <3> QED
      BY <2>1, <3>1, <1>0, <1>3 DEF Passed
  <2>2. ASSUME NEW i \in 1 .. L, NEW j \in 1 .. passed'[path[i]]
        PROVE  \/ j \in DOMAIN NextOf(path[i])' /\ color'[NextOf(path[i])'[j]] = "Black"
               \/ i < L /\ j = passed'[path[i]]
    <3>1. NextOf(path[i])' = NextOf(path[i])
      BY DEF NextOf
    <3>2. CASE i < L
      <4>1. passed'[path[i]] = passed[path[i]]
        BY <3>2, <1>3, <1>4
      <4> QED
        BY <4>1, <3>1, <2>2, <1>0 DEF Passed
    <3>3. CASE i = L
      <4>1. path[i] = Top /\ passed'[path[i]] = passed[Top] + 1
        BY <3>3, <1>1, <1>3
      <4>2. CASE j = passed[Top] + 1
        BY <4>1, <4>2, <3>1
      <4>3. CASE j # passed[Top] + 1
        <5>1. j \in 1 .. passed[path[i]]
          BY <4>1, <4>3, <2>2, <1>1
        <5> QED
          BY <5>1, <3>1, <3>3, <1>0 DEF Passed
      <4> QED
        BY <4>2, <4>3
    <3> QED
      BY <3>2, <3>3, <1>1
  <2>3. ASSUME NEW m \in Known, color'[m] = "Black", NEW j \in DOMAIN NextOf(m)'
        PROVE  color'[NextOf(m)'[j]] = "Black"
    BY <2>3, <1>5, <1>0 DEF Passed
  <2> QED
    BY <2>1, <2>2, <2>3 DEF Passed
<1>8. NoBlackLoop'
  BY <1>0, <1>5 DEF NoBlackLoop, Known
<1>9. CycleAnswers'
  BY DEF CycleAnswers, FindsCycle, CycleIsReal, Pending
<1> QED
  BY <1>2, <1>6, <1>7, <1>8, <1>9 DEF SearchInv

\* The innermost call has gone past all inputs, which are black.
LEMMA LeaveKeeps ==
  ASSUME SearchInv, leave
  PROVE  SearchInv'
<1> DEFINE L == Len(path)
<1> USE DEF leave
<1>0. SearchType /\ OnPath /\ Passed /\ NoBlackLoop
  BY DEF SearchInv
<1>1. L \in Nat /\ L >= 1 /\ Top = path[L] /\ Top \in Known /\ passed[Top] \in Nat
  BY <1>0 DEF Top, SearchType
<1>2. Len(path') = L - 1 /\ \A i \in 1 .. L - 1 : path'[i] = path[i]
  <2>1. path \in Seq(Known) /\ path' = SubSeq(path, 1, L - 1) /\ L - 1 \in Nat
    BY <1>0, <1>1 DEF SearchType
  <2>2. /\ Len(SubSeq(path, 1, L - 1)) = (L - 1) - 1 + 1
        /\ \A i \in 1 .. (L - 1) - 1 + 1 : SubSeq(path, 1, L - 1)[i] = path[1 + i - 1]
    <3>1. L - 1 \in Nat /\ 1 >= 1 /\ L - 1 <= Len(path) /\ 1 <= (L - 1) + 1 /\ path \in Seq(Known)
      BY <2>1, <1>1
    <3>2. PICK b \in Nat : b = L - 1
      BY <3>1
    <3>3. /\ Len(SubSeq(path, 1, b)) = b - 1 + 1
          /\ \A i \in 1 .. b - 1 + 1 : SubSeq(path, 1, b)[i] = path[1 + i - 1]
      <4>1. b <= Len(path) /\ 1 <= b + 1
        BY <3>1, <3>2
      <4> HIDE DEF leave, L
      <4> QED
        BY <3>1, <4>1, PartOf
    <3> HIDE DEF leave, L
    <3> QED
      BY <3>2, <3>3
  <2> HIDE DEF L
  <2>3. (L - 1) - 1 + 1 = L - 1 /\ \A i \in 1 .. L - 1 : 1 + i - 1 = i
    BY <1>1
  <2> QED
    BY <2>1, <2>2, <2>3
<1>3. SearchType'
  <2>1. path' \in Seq(Known)
    BY <1>0, <1>1 DEF SearchType
  <2> QED
    BY <2>1, <1>0 DEF SearchType
<1>4. \A i \in 1 .. L : path[i] \in Known /\ color[path[i]] = "Gray" /\ (i < L => path[i] # Top)
  BY <1>0, <1>1 DEF OnPath, SearchType
<1>5. \A m \in Known : NextOf(m)' = NextOf(m) /\ Inputs(m)' = Inputs(m)
  BY DEF NextOf, Inputs
<1>6. color'[Top] = "Black" /\ \A m \in Known : m # Top => color'[m] = color[m]
  BY <1>0, <1>1 DEF SearchType
<1>7. \A j \in DOMAIN NextOf(Top) : NextOf(Top)[j] \in Known /\ color[NextOf(Top)[j]] = "Black"
  <2>1. NextOf(Top) \in Seq(Known)
    BY <1>0, <1>1, NextOfType
  <2>2. SUFFICES ASSUME NEW j \in DOMAIN NextOf(Top)
                 PROVE  NextOf(Top)[j] \in Known /\ color[NextOf(Top)[j]] = "Black"
    OBVIOUS
  <2>3. j \in 1 .. passed[path[L]] /\ L \in 1 .. L
    BY <2>1, <1>1
  <2>4. \/ color[NextOf(path[L])[j]] = "Black"
        \/ L < L /\ j = passed[path[L]]
    BY <2>3, <1>0 DEF Passed
  <2> QED
    BY <2>1, <2>4, <1>1
<1>8. \A m \in Known : color[m] = "Black" => color'[m] = "Black"
  BY <1>6
<1>9. OnPath'
  <2>1. \A i \in 1 .. L - 1 : color'[path'[i]] = "Gray"
    BY <1>1, <1>2, <1>4, <1>6
  <2>2. ASSUME NEW m \in Known, color'[m] = "Gray" PROVE \E i \in 1 .. L - 1 : path'[i] = m
    <3>1. m # Top /\ color[m] = "Gray"
      BY <2>2, <1>6
    <3>2. PICK i \in 1 .. L : path[i] = m
      BY <3>1, <1>0 DEF OnPath
    <3>3. i \in 1 .. L - 1
      BY <3>1, <3>2, <1>1
    <3> QED
      BY <3>2, <3>3, <1>2
  <2>3. \A i, j \in 1 .. L - 1 : path'[i] = path'[j] => i = j
    BY <1>0, <1>1, <1>2 DEF OnPath
  <2>4. ASSUME NEW i \in 1 .. (L - 1) - 1
        PROVE  /\ passed'[path'[i]] \in DOMAIN NextOf(path[i])'
               /\ NextOf(path[i])'[passed'[path'[i]]] = path'[i + 1]
    <3>1. i \in 1 .. L - 1 /\ i + 1 \in 1 .. L - 1
      BY <1>1
    <3>2. path'[i] = path[i] /\ path'[i + 1] = path[i + 1]
      BY <3>1, <1>2
    <3>3. NextOf(path[i])' = NextOf(path[i])
      BY <3>2 DEF NextOf
    <3> QED
      BY <3>1, <3>2, <3>3, <1>0 DEF OnPath
  <2> QED
    BY <2>1, <2>2, <2>3, <2>4, <1>2 DEF OnPath
<1>10. Passed'
  <2>1. ASSUME NEW m \in Known, color'[m] = "White" PROVE passed'[m] = 0
    BY <2>1, <1>0, <1>6 DEF Passed
  <2>2. ASSUME NEW i \in 1 .. L - 1, NEW j \in 1 .. passed'[path'[i]]
        PROVE  \/ j \in DOMAIN NextOf(path[i])' /\ color'[NextOf(path[i])'[j]] = "Black"
               \/ i < L - 1 /\ j = passed'[path'[i]]
    <3>1. i \in 1 .. L /\ path'[i] = path[i] /\ path[i] \in Known
      BY <1>1, <1>2, <1>4
    <3>2. NextOf(path[i])' = NextOf(path[i])
      BY <3>1 DEF NextOf
    <3>3. j \in 1 .. passed[path[i]]
      BY <2>2, <3>1
    <3>4. CASE j \in DOMAIN NextOf(path[i]) /\ color[NextOf(path[i])[j]] = "Black"
      <4>1. NextOf(path[i])[j] \in Known
        BY <3>1, <3>4, <1>0, NextOfType
      <4> QED
        BY <4>1, <3>2, <3>4, <1>8
    <3>5. CASE i < L /\ j = passed[path[i]]
      <4>1. CASE i < L - 1
        BY <4>1, <3>1, <3>5
      <4>2. CASE i = L - 1
        <5>1. i \in 1 .. L - 1 /\ path[i + 1] = Top
          BY <4>2, <1>1
        <5>2. j \in DOMAIN NextOf(path[i]) /\ NextOf(path[i])[j] = Top
          BY <5>1, <3>5, <1>0 DEF OnPath
        <5> QED
          BY <5>2, <3>2, <1>6
      <4> QED
        BY <4>1, <4>2, <1>1
    <3> QED
      BY <3>1, <3>3, <3>4, <3>5, <1>0 DEF Passed
  <2>3. ASSUME NEW m \in Known, color'[m] = "Black", NEW j \in DOMAIN NextOf(m)'
        PROVE  color'[NextOf(m)'[j]] = "Black"
    <3>1. j \in DOMAIN NextOf(m) /\ NextOf(m)' = NextOf(m)
      BY <2>3, <1>5
    <3>2. NextOf(m)[j] \in Known
      BY <3>1, <1>0, NextOfType
    <3>3. color[NextOf(m)[j]] = "Black"
      BY <3>1, <2>3, <1>0, <1>6, <1>7 DEF Passed
    <3> QED
      BY <3>1, <3>2, <3>3, <1>8
  <2> QED
    BY <2>1, <2>2, <2>3, <1>2 DEF Passed
<1>11. NoBlackLoop'
  <2> SUFFICES ASSUME NEW S \in SUBSET Keys, S # {}, \A n \in S : color'[n] = "Black"
               PROVE  \E n \in S : Inputs(n) \cap S = {}
    BY <1>5 DEF NoBlackLoop, Known
  <2>1. \A n \in S : n \in Known
    BY DEF Known
  <2>2. CASE Top \notin S
    BY <2>1, <2>2, <1>0, <1>6 DEF NoBlackLoop
  <2>3. CASE Top \in S
    \* none of its inputs is the node itself, which is grey
    <3>1. \A x \in Inputs(Top) : x # Top /\ color[x] = "Black"
      <4>1. Inputs(Top) = { NextOf(Top)[j] : j \in DOMAIN NextOf(Top) }
        BY <2>3, InputsOfNext
      <4>2. color[Top] = "Gray"
        BY <1>1, <1>4
      <4> QED
        BY <4>1, <4>2, <1>7
    <3>2. CASE S = {Top}
      BY <3>1, <3>2
    <3>3. CASE S # {Top}
      <4> DEFINE T == S \ {Top}
      <4>1. T \in SUBSET Keys /\ T # {} /\ \A n \in T : color[n] = "Black"
        BY <2>1, <2>3, <3>3, <1>6
      <4>2. PICK n \in T : Inputs(n) \cap T = {}
        BY <4>1, <1>0 DEF NoBlackLoop
      <4>3. Inputs(n) = { NextOf(n)[j] : j \in DOMAIN NextOf(n) }
        BY <4>1, <4>2, InputsOfNext
      <4>4. \A x \in Inputs(n) : color[x] = "Black"
        BY <4>1, <4>2, <4>3, <2>1, <1>0 DEF Passed
      <4>5. Top \notin Inputs(n)
        BY <4>4, <1>1, <1>4
      <4> QED
        BY <4>2, <4>5
    <3> QED
      BY <3>2, <3>3
  <2> QED
    BY <2>2, <2>3
<1>12. CycleAnswers'
  BY DEF CycleAnswers, FindsCycle, CycleIsReal, Pending
<1> QED
  BY <1>3, <1>9, <1>10, <1>11, <1>12 DEF SearchInv

\* A grey input closes a loop, and it is the one that is reported.
LEMMA GrayAnswers ==
  ASSUME SearchInv, answer = Pending, path # <<>>, passed[Top] + 1 \in DOMAIN NextOf(Top),
         NEW next, next = NextOf(Top)[passed[Top] + 1], color[next] = "Gray",
         answer' = Cycle(BackEdge(next)), passed' = [passed EXCEPT ![Top] = @ + 1],
         UNCHANGED <<edges, color, path>>
  PROVE  SearchInv'
<1> DEFINE L == Len(path)
           start == CHOOSE k \in DOMAIN path : path[k] = next
           loop == BackEdge(next)
           N == L - start + 1
<1>0. SearchType /\ OnPath
  BY DEF SearchInv
<1>1. L \in Nat /\ L >= 1 /\ DOMAIN path = 1 .. L /\ Top = path[L] /\ Top \in Known
  BY <1>0 DEF Top, SearchType
<1>2. next \in Known
  BY <1>0, <1>1, NextOfType
<1>3. start \in 1 .. L /\ path[start] = next
  BY <1>0, <1>1, <1>2 DEF OnPath
<1>4. N \in Nat /\ N >= 1 /\ N <= L /\ start \in Nat
  BY <1>1, <1>3
<1>5. SubSeq(path, start, L) \in Seq(Known) /\ Len(SubSeq(path, start, L)) = N
      /\ \A k \in 1 .. N : SubSeq(path, start, L)[k] = path[start + k - 1]
  <2>1. path \in Seq(Known) /\ start <= L + 1 /\ N = L - start + 1
    BY <1>0, <1>1, <1>3 DEF SearchType
  <2> HIDE DEF start, N
  <2> QED
    BY <2>1, <1>1, <1>4, PartOf
<1>6. /\ Len(loop) = N + 1
      /\ loop[N + 1] = next
      /\ \A k \in 1 .. N : loop[k] = path[start + k - 1]
  <2>1. loop = Append(SubSeq(path, start, L), next)
    BY DEF BackEdge
  <2> HIDE DEF loop, N, start
  <2> QED
    BY <2>1, <1>2, <1>4, <1>5
<1> HIDE DEF loop, start
<1>7. loop[1] = next
  BY <1>3, <1>4, <1>6
<1>8. \A i \in 1 .. L : path[i] \in Known
  BY <1>0, <1>1 DEF SearchType
<1>9. ASSUME NEW k \in 1 .. N PROVE loop[k] \in Keys /\ loop[k + 1] \in Inputs(loop[k])
  <2> DEFINE i == start + k - 1
  <2>0. loop[k] = path[i]
    <3> HIDE DEF N
    <3> QED
      BY <1>6
  <2>1. i \in 1 .. L /\ loop[k] = path[i]
    <3>1. L \in Nat /\ start \in 1 .. L /\ N = L - start + 1
      BY <1>1, <1>3
    <3>2. i \in 1 .. L
      BY ONLY <3>1, k \in 1 .. N
    <3> HIDE DEF i
    <3> QED
      BY <2>0, <3>2
  <2>2. CASE k < N
    <3>1. i \in 1 .. L - 1 /\ loop[k + 1] = path[i + 1]
      <4>1. k + 1 \in 1 .. N /\ start + (k + 1) - 1 = i + 1 /\ i \in 1 .. L - 1
        BY <2>2, <1>1, <1>3, <1>4
      <4> HIDE DEF i, N
      <4> QED
        BY <4>1, <1>6
    <3>2. passed[path[i]] \in DOMAIN NextOf(path[i]) /\ NextOf(path[i])[passed[path[i]]] = path[i + 1]
      BY <3>1, <1>0 DEF OnPath
    <3>3. path[i] \in Keys
      BY <3>2, ListsAreOfNodes
    <3>4. Inputs(path[i]) = { NextOf(path[i])[j] : j \in DOMAIN NextOf(path[i]) }
      BY <3>3, InputsOfNext
    <3> HIDE DEF i
    <3> QED
      BY <2>1, <3>1, <3>2, <3>3, <3>4
  <2>3. CASE k = N
    <3>1. i = L /\ loop[k + 1] = next
      BY <2>3, <1>4, <1>6
    <3>2. Top \in Keys
      BY ListsAreOfNodes
    <3>3. Inputs(Top) = { NextOf(Top)[j] : j \in DOMAIN NextOf(Top) }
      BY <3>2, InputsOfNext
    <3> QED
      BY <2>1, <3>1, <3>2, <3>3, <1>1
  <2> QED
    BY <2>2, <2>3, <1>4
<1>10. \A i, j \in 1 .. N : loop[i] = loop[j] => i = j
  <2> SUFFICES ASSUME NEW i \in 1 .. N, NEW j \in 1 .. N, loop[i] = loop[j] PROVE i = j
    OBVIOUS
  <2>1. start + i - 1 \in 1 .. L /\ start + j - 1 \in 1 .. L
    BY <1>3, <1>4
  <2>2. path[start + i - 1] = path[start + j - 1]
    BY <1>6
  <2>3. start + i - 1 = start + j - 1
    BY <2>1, <2>2, <1>0 DEF OnPath
  <2> QED
    BY <2>3, <1>4
<1>11. FeedsItself
  <2> DEFINE S == { loop[k] : k \in 1 .. N }
  <2>1. S \in SUBSET Keys /\ S # {}
    BY <1>4, <1>9
  <2>2. ASSUME NEW n \in S PROVE Inputs(n) \cap S # {}
    <3>1. PICK k \in 1 .. N : n = loop[k]
      OBVIOUS
    <3>2. loop[k + 1] \in Inputs(n)
      BY <3>1, <1>9
    <3>3. loop[k + 1] \in S
      <4>1. CASE k < N
        <5>1. k + 1 \in 1 .. N
          BY <4>1, <1>4
        <5> QED
          BY <5>1
      <4>2. CASE k = N
        <5>1. 1 \in 1 .. N /\ loop[k + 1] = loop[1]
          BY <4>2, <1>4, <1>6, <1>7
        <5> QED
          BY <5>1
      <4>3. k < N \/ k = N
        BY <1>4
      <4> QED
        BY <4>1, <4>2, <4>3
    <3> QED
      BY <3>2, <3>3
  <2> HIDE DEF S
  <2> QED
    BY <2>1, <2>2 DEF FeedsItself
<1>12. FindsCycle'
  <2>1. FeedsItself' <=> FeedsItself
    BY DEF FeedsItself, Inputs
  <2>2. answer' # NoCycle
    BY DEF Cycle, NoCycle
  <2> QED
    BY <2>1, <2>2, <1>11 DEF FindsCycle
<1>13. CycleIsReal'
  <2>1. PICK c : c = loop
    OBVIOUS
  <2>2. answer'.is = "some" /\ answer'.loop = c
    BY <2>1 DEF Cycle, loop
  <2>3. \A n \in Keys : Inputs(n)' = Inputs(n)
    BY DEF Inputs
  <2>4. Len(c) - 1 = N /\ Len(c) >= 2 /\ c[1] = c[Len(c)]
    BY <2>1, <1>4, <1>6, <1>7
  <2>5. \A k \in 1 .. N : c[k] \in Keys /\ c[k + 1] \in Inputs(c[k])
    BY <2>1, <1>9
  <2>6. \A k \in 1 .. N : Inputs(c[k])' = Inputs(c[k])
    BY <2>3, <2>5
  <2>7. \A i, j \in 1 .. N : c[i] = c[j] => i = j
    BY <2>1, <1>10
  <2> HIDE DEF N
  <2> QED
    BY <2>2, <2>4, <2>5, <2>6, <2>7 DEF CycleIsReal
<1>14. SearchType'
  <2>1. passed[Top] \in Nat
    BY <1>0, <1>1 DEF SearchType
  <2> QED
    BY <2>1, <1>0, <1>1 DEF SearchType
<1> QED
  BY <1>12, <1>13, <1>14 DEF SearchInv, CycleAnswers, Cycle, Pending, NoCycle

LEMMA NoneAnswers ==
  ASSUME SearchInv, no_root_left
  PROVE  SearchInv'
<1> USE DEF no_root_left
<1>0. SearchType /\ OnPath /\ Passed /\ NoBlackLoop
  BY DEF SearchInv
<1>1. Len(path) = 0
  OBVIOUS
<1>2. \A n \in Keys : color[n] = "Black"
  BY <1>0, <1>1 DEF OnPath, SearchType, Known
<1>3. ~FeedsItself
  BY <1>0, <1>2 DEF NoBlackLoop, FeedsItself
<1>4. FindsCycle'
  <2>1. FeedsItself' <=> FeedsItself
    BY DEF FeedsItself, Inputs
  <2> QED
    BY <2>1, <1>3 DEF FindsCycle
<1>5. CycleIsReal'
  BY DEF CycleIsReal, NoCycle
<1>6. SearchType'
  BY <1>0 DEF SearchType
<1> QED
  BY <1>4, <1>5, <1>6 DEF SearchInv, CycleAnswers, Pending, NoCycle

LEMMA SearchStep == SearchInv /\ [find_cycle]_searchvars => SearchInv'
<1> SUFFICES ASSUME SearchInv, [find_cycle]_searchvars PROVE SearchInv'
  OBVIOUS
<1>1. CASE UNCHANGED searchvars
  <2> USE <1>1 DEF searchvars
  <2>1. SearchType' <=> SearchType
    BY DEF SearchType
  <2>2. (OnPath' <=> OnPath) /\ (Passed' <=> Passed)
    BY DEF OnPath, Passed, NextOf
  <2>3. (NoBlackLoop' <=> NoBlackLoop) /\ (FindsCycle' <=> FindsCycle)
    BY DEF NoBlackLoop, FindsCycle, FeedsItself, Inputs
  <2>4. CycleIsReal' <=> CycleIsReal
    BY DEF CycleIsReal, Inputs
  <2> QED
    BY <2>1, <2>2, <2>3, <2>4 DEF SearchInv, CycleAnswers
<1>2. ASSUME NEW n \in Keys, root(n) PROVE SearchInv'
  <2>1. n \in Known /\ passed' \in [Known -> Nat]
    BY <1>2 DEF root, SearchInv, SearchType, Known
  <2> QED
    BY <1>2, <2>1, VisitKeeps DEF root
<1>3. CASE follow
  <2>1. SearchType /\ answer = Pending /\ path # <<>>
    BY <1>3 DEF follow, SearchInv
  <2>2. Top \in Known /\ passed[Top] \in Nat
    BY <2>1 DEF SearchType, Top
  <2>3. NextOf(Top) \in Seq(Known)
    BY <2>1, <2>2, NextOfType
  <2>4. passed[Top] + 1 \in DOMAIN NextOf(Top)
    BY <2>2, <2>3, <1>3 DEF follow
  <2> DEFINE next == NextOf(Top)[passed[Top] + 1]
  <2>5. next \in Known
    BY <2>3, <2>4
  <2>6. passed' = [passed EXCEPT ![Top] = @ + 1] /\ edges' = edges
    BY <1>3 DEF follow
  <2>7. passed' \in [Known -> Nat]
    BY <2>1, <2>2, <2>6 DEF SearchType
  <2>8. CASE color[next] = "Gray" /\ answer' = Cycle(BackEdge(next)) /\ UNCHANGED <<color, path>>
    BY <2>1, <2>4, <2>6, <2>8, GrayAnswers
  <2>9. CASE color[next] = "White" /\ visit(next) /\ UNCHANGED answer
    BY <2>1, <2>4, <2>5, <2>6, <2>7, <2>9, VisitKeeps
  <2>10. CASE color[next] = "Black" /\ UNCHANGED <<color, path, answer>>
    BY <2>1, <2>4, <2>6, <2>10, BlackKeeps
  <2> QED
    BY <1>3, <2>8, <2>9, <2>10 DEF follow
<1>4. CASE leave
  BY <1>4, LeaveKeeps
<1>5. CASE no_root_left
  BY <1>5, NoneAnswers
<1> QED
  BY <1>1, <1>2, <1>3, <1>4, <1>5 DEF find_cycle

\* The search answers for every graph.
THEOREM CycleAlwaysAnswered == SearchSpec => []CycleAnswers
<1>1. SearchInv => CycleAnswers
  BY DEF SearchInv
<1> QED
  BY SearchBegins, SearchStep, <1>1, PTL DEF SearchSpec

\* The graph of the search is the one that a reload to `plan` would install.
SearchesFor(plan) ==
  /\ Keys \subseteq Ids
  /\ \A id \in Ids : Edges(plan)[id] = IF id \in Keys THEN Inputs(id) ELSE {}

LEMMA SameCycles ==
  ASSUME NEW plan, SearchesFor(plan)
  PROVE  FeedsItself <=> HasCycle(Edges(plan))
<1>1. ASSUME FeedsItself PROVE HasCycle(Edges(plan))
  <2>1. PICK S \in SUBSET Keys : S # {} /\ \A n \in S : Inputs(n) \cap S # {}
    BY <1>1 DEF FeedsItself
  <2>2. S \in SUBSET Ids /\ \A n \in S : Edges(plan)[n] \cap S # {}
    BY <2>1 DEF SearchesFor
  <2> QED
    BY <2>1, <2>2 DEF HasCycle
<1>2. ASSUME HasCycle(Edges(plan)) PROVE FeedsItself
  <2>1. PICK S \in SUBSET Ids : S # {} /\ \A n \in S : Edges(plan)[n] \cap S # {}
    BY <1>2 DEF HasCycle
  <2>2. S \in SUBSET Keys /\ \A n \in S : Inputs(n) \cap S # {}
    BY <2>1 DEF SearchesFor
  <2> QED
    BY <2>1, <2>2 DEF FeedsItself
<1> QED
  BY <1>1, <1>2

\* What find_cycle answers for the graph of a reload is what PipelineReload
\* takes for the verdict of validate_no_cycles: a plan is let through exactly
\* when the search has come back with None.
THEOREM SearchDecidesReload ==
  SearchSpec =>
    [](\A plan \in Plans :
          SearchesFor(plan) /\ answer # Pending => (answer = NoCycle <=> validate_no_cycles(plan)))
<1>1. ASSUME CycleAnswers
      PROVE  \A plan \in Plans :
                SearchesFor(plan) /\ answer # Pending => (answer = NoCycle <=> validate_no_cycles(plan))
  <2> SUFFICES ASSUME NEW plan \in Plans, SearchesFor(plan), answer # Pending
               PROVE  answer = NoCycle <=> validate_no_cycles(plan)
    OBVIOUS
  <2>1. answer # NoCycle <=> FeedsItself
    BY <1>1 DEF CycleAnswers, FindsCycle
  <2> QED
    BY <2>1, SameCycles DEF validate_no_cycles
<1> QED
  BY CycleAlwaysAnswered, <1>1, PTL
=============================================================================
