--------------------------- MODULE SeriesAnalysis ---------------------------
(***************************************************************************)
(* What a trading plan is computed from: AnalysisGrid and                  *)
(* TransitionAnalysis of mlib (grid.rs, transition.rs), that is the sieve  *)
(* that chooses the cells of a series and the statistics of its moves      *)
(* between them; the random cut forest of anomaly scores (rcf.rs); and the *)
(* DAG strategy of qlib (graph/mod.rs).  A series grows sample by sample;  *)
(* every result is a function of it, compared with a definition of what it *)
(* counts.                                                                 *)
(*                                                                         *)
(* Values, bounds and steps are integers: min = 0 and max = RingCapacity,  *)
(* a multiple of 2^max_bit, so that every step of the sieve is exact.  The *)
(* thresholds 1.3 and 0.02 of SieveConfig are compared as fractions.       *)
(***************************************************************************)
EXTENDS Integers, Sequences, FiniteSets, SequencesExt

CONSTANTS RingCapacity, max_bit,
          Floors,          \* min_step_frac * ref_price; 0 for None
          Samples,         \* values, those outside of [0, RingCapacity] included
          Gaps,            \* seconds between two samples
          interval_secs,
          MaxSamples       \* bound

VARIABLES series,   \* <<ts, value>>, sorted by ts
          floor

savars == <<series, floor>>

SeriesInit == series = <<>> /\ floor \in Floors

observe_sample(gap, v) ==
  /\ Len(series) < MaxSamples
  /\ series' = Append(series, <<(IF series = <<>> THEN 0 ELSE Last(series)[1] + gap), v>>)
  /\ UNCHANGED floor

SeriesNext == \E gap \in Gaps, v \in Samples : observe_sample(gap, v)

(***************************************************************************)
(* The sieve.                                                              *)
(***************************************************************************)
values == <<>> \o [i \in DOMAIN series |-> series[i][2]]

Abs(a) == IF a < 0 THEN -a ELSE a

(* The cell of a value on the finest level.                                *)
RawCell(y) ==
  IF y <= 0 THEN 0
  ELSE IF y >= RingCapacity THEN 2^max_bit - 1
  ELSE (y * 2^max_bit) \div RingCapacity

StepOf(level) == RingCapacity \div 2^level

(* Crossings of a level: the raw cells shifted right.                      *)
SieveCrossings_Rounds(vs, level) ==
  LET At(i) == (RawCell(vs[i]) + 2^(max_bit - level) - 1) \div 2^(max_bit - level)
  IN FoldLeft(LAMBDA c, i : c + Abs(At(i + 1) - At(i)), 0, [i \in 1..(Len(vs) - 1) |-> i])

SieveCrossings(vs, level) ==
  LET At(i) == RawCell(vs[i]) \div 2^(max_bit - level)
  IN FoldLeft(LAMBDA c, i : c + Abs(At(i + 1) - At(i)), 0, [i \in 1..(Len(vs) - 1) |-> i])

(* delta > prev_delta * 1.3, delta >= 0.02 and prev_delta > 0, over the    *)
(* number of segments.                                                     *)
Sudden(delta, prev, segments) ==
  /\ delta * 10 > prev * 13
  /\ delta * 100 >= 2 * segments
  /\ prev > 0

(* One level of with_config: acc holds the best level so far, -1 for the   *)
(* initial one-cell grid, and whether the loop has broken off.             *)
SieveLevel(vs, acc, level) ==
  LET crossings == SieveCrossings(vs, level)
      delta == IF level = 0 THEN 0 ELSE crossings - acc.cross
  IN IF acc.over \/ (floor > 0 /\ StepOf(level) < floor)
        \/ (level >= 2 /\ Sudden(delta, acc.delta, Max({Len(vs) - 1, 1})))
     THEN [acc EXCEPT !.over = TRUE]
     ELSE [best |-> level, cross |-> crossings, delta |-> delta, over |-> FALSE]

with_config(vs) ==
  LET done == FoldLeft(LAMBDA acc, l : SieveLevel(vs, acc, l),
                       [best |-> -1, cross |-> 0, delta |-> 0, over |-> FALSE],
                       [i \in 1..(max_bit + 1) |-> i - 1])
  IN IF vs = <<>> THEN 1 ELSE IF done.best = -1 THEN RingCapacity ELSE StepOf(done.best)

(* AnalysisGrid::cell, num_cells, crossings and cell_range of a grid with  *)
(* the given step.                                                         *)
num_cells(step) == Max({(RingCapacity + step - 1) \div step, 1})

cell(step, y) ==
  IF y <= 0 THEN 0
  ELSE IF y >= RingCapacity THEN num_cells(step) - 1
  ELSE y \div step

crossings(step, vs) ==
  FoldLeft(LAMBDA c, i : c + Abs(cell(step, vs[i + 1]) - cell(step, vs[i])), 0,
           [i \in 1..(Len(vs) - 1) |-> i])

cell_range(step, c) == c * step .. ((c + 1) * step - 1)

(***************************************************************************)
(* The sieve counts what the grid it returns counts: at every level the    *)
(* shifted raw cells give the crossings of a grid of that step; a finer    *)
(* level never has fewer, so that the unsigned `crossings - prev_cross`    *)
(* does not wrap; a value lies in the range of its cell; and a grid chosen *)
(* under a floor is not finer than the floor unless it has one cell.       *)
(***************************************************************************)
SieveSound ==
  /\ \A level \in 0..max_bit :
       /\ SieveCrossings(values, level) = crossings(StepOf(level), values)
       /\ level > 0 => SieveCrossings(values, level) >= SieveCrossings(values, level - 1)
  /\ LET step == with_config(values) IN
     /\ \A y \in 0..(RingCapacity - 1) : y \in cell_range(step, cell(step, y))
     /\ values # <<>> => step >= floor \/ num_cells(step) = 1

(***************************************************************************)
(* TransitionAnalysis over the chosen grid.                                *)
(***************************************************************************)
occupancy(step) ==
  IF series = <<>> THEN <<>>
  ELSE LET start == series[1][1]
           n == (Last(series)[1] - start) \div interval_secs + 1
           Bucket(i) == Min({(series[i][1] - start) \div interval_secs, n - 1}) + 1
       IN <<>> \o [b \in 1..n |-> [c \in 0..(num_cells(step) - 1) |->
             Cardinality({i \in DOMAIN series :
                            Bucket(i) = b /\ cell(step, series[i][2]) = c})]]

(* max_by_key: the last of the cells with the largest count.               *)
Dominant(bucket) ==
  Max({c \in DOMAIN bucket : \A d \in DOMAIN bucket : bucket[d] <= bucket[c]})

dominant(step) ==
  LET found == occupancy(step) IN <<>> \o [b \in DOMAIN found |-> Dominant(found[b])]

(* TransitionAnalysis::new: the pass over the pairs of buckets.            *)
Counted(ns) ==
  LET Zero == [c \in ns |-> 0]
  IN [from |-> Zero, down |-> Zero, up |-> Zero, stay |-> Zero, moves |-> [c \in ns |-> Zero]]

Pair(acc, a, b) ==
  [from |-> [acc.from EXCEPT ![a] = @ + 1],
   down |-> IF b < a THEN [acc.down EXCEPT ![a] = @ + 1] ELSE acc.down,
   up |-> IF b > a THEN [acc.up EXCEPT ![a] = @ + 1] ELSE acc.up,
   stay |-> IF b = a THEN [acc.stay EXCEPT ![a] = @ + 1] ELSE acc.stay,
   moves |-> [acc.moves EXCEPT ![a][b] = @ + 1]]

transitions(dom, ns) ==
  FoldLeft(LAMBDA acc, i : Pair(acc, dom[i], dom[i + 1]), Counted(ns),
           [i \in 1..(Len(dom) - 1) |-> i])

(* The lengths of the runs of each cell; the last run is pushed after the  *)
(* loop.                                                                   *)
dwell(dom, ns) ==
  LET done == FoldLeft(LAMBDA acc, i :
                IF dom[i] = dom[i - 1] THEN [acc EXCEPT !.run = @ + 1]
                ELSE [acc EXCEPT !.runs[dom[i - 1]] = Append(@, acc.run), !.run = 1],
              [run |-> 1, runs |-> [c \in ns |-> <<>>]],
              [i \in 1..(Len(dom) - 1) |-> i + 1])
  IN IF dom = <<>> THEN done.runs
     ELSE [done.runs EXCEPT ![Last(dom)] = Append(@, done.run)]

Total(f) == FoldFunction(LAMBDA a, b : a + b, 0, f)

(***************************************************************************)
(* The statistics add up: a cell's moves are its moves down, up and its    *)
(* stays, once for each bucket it is dominant in but the last; its dwell   *)
(* times are the lengths of the maximal runs of the cell and together      *)
(* cover its buckets.                                                      *)
(***************************************************************************)
StatisticsAddUp ==
  LET step == with_config(values)
      ns == 0..(num_cells(step) - 1)
      dom == dominant(step)
      t == transitions(dom, ns)
      runs == dwell(dom, ns)
      In(c) == {b \in DOMAIN dom : dom[b] = c}
      Starts(c) == {b \in In(c) : b = 1 \/ dom[b - 1] # c}
  IN \A c \in ns :
       /\ t.from[c] = t.down[c] + t.up[c] + t.stay[c]
       /\ t.from[c] = Total(t.moves[c])
       /\ t.from[c] = Cardinality(In(c) \ {Len(dom)})
       /\ Total(runs[c]) = Cardinality(In(c))
       /\ Len(runs[c]) = Cardinality(Starts(c))

(***************************************************************************)
(* What the planner may rely on in the crossings and the transitions.      *)
(***************************************************************************)
AnalysisSound == series # <<>> => SieveSound /\ StatisticsAddUp

-----------------------------------------------------------------------------
(***************************************************************************)
(* The streaming random cut forest of mlib (rcf.rs): a window of the last  *)
(* sample_size points, and trees that hold the points of the window under  *)
(* random cuts.  A call inserts a point, inserts and removes one only to   *)
(* score it, or evicts the oldest.                                         *)
(*                                                                         *)
(* Coordinates are even integers and a cut is any integer between lo and   *)
(* hi: on a coordinate, or between two; the one draw of 2^53 that gives lo *)
(* itself is left out.  The trees of a forest differ in their cuts only;   *)
(* one tree under every choice of cuts stands for them.  The score         *)
(* (logarithms of sizes on the path) is left out.                          *)
(***************************************************************************)
CONSTANTS Coordinates,    \* values of a point (dims = 1)
          shingle_size, sample_size, leaf_capacity,
          MaxIds          \* bound: points added or scored

VARIABLES tree,      \* one Node
          window,    \* points of the model, oldest first
          shingle,   \* the last points, while shingle_size > 1
          next_id

rcvars == <<tree, window, shingle, next_id>>

NoNode == [is |-> "empty"]
Leaf(entries) == [is |-> "leaf", entries |-> entries]

(* The extent of the points of entries in one dimension.                   *)
Lo(entries, d) == Min({entries[i][2][d] : i \in DOMAIN entries})
Hi(entries, d) == Max({entries[i][2][d] : i \in DOMAIN entries})

(* split_cut: the dimensions and cuts it may draw, none when the points    *)
(* are all equal.                                                          *)
split_cut(entries) ==
  IF entries = <<>> THEN {}
  ELSE UNION {{<<d, c>> : c \in (Lo(entries, d) + 1) .. (Hi(entries, d) - 1)} :
                d \in DOMAIN entries[1][2]}

BBoxWith(box, p) ==
  [d \in DOMAIN p |-> <<Min({box[d][1], p[d]}), Max({box[d][2], p[d]})>>]

(* BBox::far_outside.                                                      *)
far_outside(box, p) ==
  \E d \in DOMAIN p :
    LET extent == box[d][2] - box[d][1]
    IN p[d] < box[d][1] - extent \/ p[d] > box[d][2] + extent

(* A full leaf cut in two, the new point e already on its side.            *)
Cut(entries, e, at) ==
  LET all == Append(entries, e)
  IN [is |-> "branch", dim |-> at[1], cut |-> at[2], size |-> Len(all),
      left |-> Leaf(SelectSeq(all, LAMBDA x : x[2][at[1]] < at[2])),
      right |-> Leaf(SelectSeq(all, LAMBDA x : ~(x[2][at[1]] < at[2]))),
      bbox |-> [d \in DOMAIN e[2] |-> <<Lo(all, d), Hi(all, d)>>]]

(* insert_inner: the trees the point may lead to.  After a cut the insert  *)
(* goes on in the side that holds the point.                               *)
RECURSIVE insert_inner(_, _)
insert_inner(n, e) ==
  LET Into(b) ==
        IF e[2][b.dim] < b.cut
        THEN {[b EXCEPT !.left = x] : x \in insert_inner(b.left, e)}
        ELSE {[b EXCEPT !.right = x] : x \in insert_inner(b.right, e)}
  IN CASE n.is = "empty" -> {Leaf(<<e>>)}
       [] n.is = "leaf" ->
            IF Len(n.entries) < leaf_capacity \/ split_cut(n.entries) = {}
            THEN {Leaf(Append(n.entries, e))}
            ELSE UNION {Into(Cut(n.entries, e, at)) : at \in split_cut(n.entries)}
       [] n.is = "branch" ->
            Into([n EXCEPT !.bbox = BBoxWith(@, e[2]), !.size = @ + 1])

(* Node::insert to score: a point far outside of the root's box is left    *)
(* out.                                                                    *)
insert_transient(n, e) ==
  IF n.is = "branch" /\ far_outside(n.bbox, e[2]) THEN {n} ELSE insert_inner(n, e)

RECURSIVE Ids(_)
Ids(n) ==
  CASE n.is = "empty" -> {}
    [] n.is = "leaf" -> {n.entries[i][1] : i \in DOMAIN n.entries}
    [] n.is = "branch" -> Ids(n.left) \cup Ids(n.right)

(* Mutant: a branch left with one child is not replaced by it, and the     *)
(* side on the right is not looked into.                                   *)
RECURSIVE remove_LeftOnly(_, _)
remove_LeftOnly(n, id) ==
  CASE n.is = "empty" -> n
    [] n.is = "leaf" ->
         LET rest == SelectSeq(n.entries, LAMBDA x : x[1] # id)
         IN IF rest = <<>> /\ n.entries # <<>> THEN NoNode ELSE Leaf(rest)
    [] n.is = "branch" ->
         IF id \notin Ids(n.left) THEN n
         ELSE [n EXCEPT !.left = remove_LeftOnly(n.left, id), !.size = @ - 1]

(* Node::remove: every entry with the id; an emptied leaf is Empty, a      *)
(* branch with an Empty child is replaced by the other.                    *)
RECURSIVE remove(_, _)
remove(n, id) ==
  CASE n.is = "empty" -> n
    [] n.is = "leaf" ->
         LET rest == SelectSeq(n.entries, LAMBDA x : x[1] # id)
         IN IF rest = <<>> /\ n.entries # <<>> THEN NoNode ELSE Leaf(rest)
    [] n.is = "branch" ->
         LET inLeft == id \in Ids(n.left)
             b == [n EXCEPT !.left = IF inLeft THEN remove(@, id) ELSE @,
                            !.right = IF inLeft THEN @ ELSE remove(@, id),
                            !.size = @ - 1]
         IN IF id \notin Ids(n) THEN n
            ELSE IF b.left = NoNode THEN b.right
            ELSE IF b.right = NoNode THEN b.left ELSE b

ForestInit == tree = NoNode /\ window = <<>> /\ shingle = <<>> /\ next_id = 1

(* The point a call works on: the last shingle_size values in one vector.  *)
Shingled(v) == Append(shingle, v)

(* score: insert, take the sizes on the path, remove.                      *)
Scored(n, e) == {remove(m, e[1]) : m \in insert_transient(n, e)}

score(v) ==
  /\ next_id <= MaxIds
  /\ next_id' = next_id + 1
  /\ tree' \in Scored(tree, <<next_id, Shingled(v)>>)
  /\ UNCHANGED <<window, shingle>>

(* add while the shingle is not full.                                      *)
add_buffered(v) ==
  /\ Len(shingle) + 1 < shingle_size
  /\ shingle' = Append(shingle, v)
  /\ UNCHANGED <<tree, window, next_id>>

(* add and insert_shingled: score, insert, and evict the oldest point when *)
(* the window is over its size.                                            *)
add(v) ==
  LET e == <<next_id, Shingled(v)>>
      w == Append(window, next_id)
      full == Len(w) > sample_size
  IN /\ next_id <= MaxIds /\ Len(shingle) + 1 = shingle_size
     /\ next_id' = next_id + 1
     /\ shingle' = Tail(Shingled(v))
     /\ window' = IF full THEN Tail(w) ELSE w
     /\ \E scored \in Scored(tree, e) : \E grown \in insert_inner(scored, e) :
          tree' = IF full THEN remove(grown, Head(w)) ELSE grown

ForestNext == \E v \in Coordinates : score(v) \/ add_buffered(v) \/ add(v)

(* The points below a node, and the nodes of a tree.                       *)
RECURSIVE Below(_)
Below(n) ==
  CASE n.is = "empty" -> {}
    [] n.is = "leaf" -> Range(n.entries)
    [] n.is = "branch" -> Below(n.left) \cup Below(n.right)

RECURSIVE NodesOf(_)
NodesOf(n) ==
  IF n.is = "branch" THEN {n} \cup NodesOf(n.left) \cup NodesOf(n.right) ELSE {n}

(***************************************************************************)
(* A tree holds the points of the window and no other, whatever was scored *)
(* in between; the points below a branch are on their sides of its cut and *)
(* in its box, so that insert and remove follow the same path; and a       *)
(* branch counts at least the points below it, so that `*size -= 1` of a   *)
(* removal never falls below zero.                                         *)
(***************************************************************************)
HoldsWindow ==
  /\ Ids(tree) = Range(window)
  /\ \A b \in {n \in NodesOf(tree) : n.is = "branch"} :
       /\ \A e \in Below(b.left) : e[2][b.dim] < b.cut
       /\ \A e \in Below(b.right) : e[2][b.dim] >= b.cut
       /\ \A e \in Below(b) : BBoxWith(b.bbox, e[2]) = b.bbox
       /\ b.size >= Cardinality(Below(b))

-----------------------------------------------------------------------------
(***************************************************************************)
(* The DAG strategy: the order in which build_onnx emits the nodes of a    *)
(* genome, and the compiled models that all graphs of the process share.   *)
(*                                                                         *)
(* A genome is the set of operator inputs of each node and the nodes that  *)
(* read an extractor; its heads are the nodes with head_features.  What an *)
(* operator computes is left out; a model is the bytes it is compiled      *)
(* from.  Hashing does not collide.                                        *)
(***************************************************************************)
CONSTANTS GraphSize,      \* nodes of a genome
          Wires, Feeds,   \* operator inputs and extractor-fed nodes a genome may have
          Rebuilders,     \* threads that rebuild a plan
          Structures,     \* genomes that only differ as a whole
          Artifacts,      \* prebuilt ONNX bytes
          PREDICTOR_CACHE_CAPACITY,
          MaxModels       \* bound: calls of model()

VARIABLES genome,     \* [inputs: node -> set of nodes, fed, heads: sets of nodes]
          emitted,    \* what build_onnx made of it, or Unbuilt
          drained,    \* history: the loop ended with an empty queue
          cached,    \* PREDICTOR_CACHE: <<key, model>>, oldest first
          rebuilding, \* per thread, the call of model() under way
          served      \* calls so far

sortvars == <<genome, emitted, drained>>
cachevars == <<cached, rebuilding, served>>

GNode == 1..GraphSize
Unbuilt == [is |-> "unbuilt"]
Refusal(why) == [is |-> why]

Genome(wires, fed, heads) ==
  [inputs |-> [i \in GNode |-> {k \in GNode : <<k, i>> \in wires}], fed |-> fed, heads |-> heads]

Genomes ==
  {Genome(wires, fed, heads) :
     wires \in SUBSET Wires, fed \in SUBSET Feeds, heads \in {{}, {1, GraphSize}}}

GraphInit == genome \in Genomes /\ emitted = Unbuilt /\ drained = FALSE

(***************************************************************************)
(* build_onnx: the topological sort.                                       *)
(***************************************************************************)
(* irefs: the nodes that read node i, in the order of their indices.       *)
irefs(g, i) == SetToSortSeq({c \in GNode : i \in g.inputs[c]}, LAMBDA a, b : a < b)

(* The queue before the loop: the consumers of the extractor-fed nodes,    *)
(* these in the order of a HashSet, which may be any.                      *)
Scanning0(g, fedOrder) == FlattenSeq([k \in DOMAIN fedOrder |-> irefs(g, fedOrder[k])])

(* Mutant: a node is leveled by the nearest of its inputs.                 *)
LevelOf_Nearest(g, levels, i) == 1 + Min({levels[k] : k \in g.inputs[i]})

LevelOf(g, levels, i) == 1 + Max({0} \cup {levels[k] : k \in g.inputs[i]})

(* One turn of the loop: the head of the queue is dropped while one of its *)
(* operator inputs is not scanned; otherwise it is leveled, its consumers  *)
(* are queued, and it is scanned.                                          *)
ScanOne(g, s) ==
  IF s.queue = <<>> THEN s
  ELSE LET i == Head(s.queue) IN
       IF ~(g.inputs[i] \subseteq s.scanned) THEN [s EXCEPT !.queue = Tail(@)]
       ELSE [queue |-> Tail(s.queue) \o irefs(g, i),
             levels |-> [s.levels EXCEPT ![i] = LevelOf(g, s.levels, i)],
             scanned |-> s.scanned \cup {i}]

Turns == 2 * GraphSize

Scan(g, fedOrder) ==
  FoldLeft(LAMBDA s, k : ScanOne(g, s),
           [queue |-> Scanning0(g, fedOrder), levels |-> [i \in GNode |-> 0], scanned |-> g.fed],
           [k \in 1..Turns |-> k])

(* The heap of (Reverse(level), i): lower levels first, then higher i.     *)
OrderOf(levels) ==
  SetToSortSeq(GNode, LAMBDA a, b : levels[a] < levels[b] \/ (levels[a] = levels[b] /\ a > b))

(* The nodes are emitted in that order; the last Head gives the output.    *)
Emit(g, sorted) ==
  LET heads == SelectSeq(sorted, LAMBDA i : i \in g.heads)
  IN IF heads = <<>> THEN Refusal("no head")
     ELSE [is |-> "model", order |-> sorted, output |-> Last(heads)]

build_onnx ==
  /\ emitted = Unbuilt
  /\ \E fedOrder \in SetToSeqs(genome.fed) :
       LET s == Scan(genome, fedOrder)
       IN /\ emitted' = IF s.scanned # GNode THEN Refusal("cycle")
                        ELSE Emit(genome, OrderOf(s.levels))
          /\ drained' = (s.queue = <<>>)
  /\ UNCHANGED genome

GraphNext == build_onnx

(* Whether there is a cycle, each node has an input, or at most one reader.*)
Acyclic(g) ==
  \E rank \in SetToSeqs(GNode) : \A a, b \in GNode : rank[a] \in g.inputs[rank[b]] => a < b
Grounded(g) == \A i \in GNode : i \in g.fed \/ g.inputs[i] # {}
OneReader(g) == \A i \in GNode : Len(irefs(g, i)) <= 1

(***************************************************************************)
(* The sort is right as long as the 2 * n turns of its loop last, which    *)
(* they do when each node has at most one reader: a genome without a cycle *)
(* all of whose nodes have inputs is not refused as cyclic, and a node is  *)
(* emitted after the nodes it reads, also when it reads an extractor as    *)
(* well and so starts out as scanned.                                      *)
(***************************************************************************)
SortedInTime ==
  (emitted # Unbuilt /\ Grounded(genome) /\ Acyclic(genome)) =>
    /\ OneReader(genome) => drained
    /\ drained => emitted.is # "cycle"
    /\ (drained /\ emitted.is = "model") =>
         \A a, b \in GNode : emitted.order[a] \in genome.inputs[emitted.order[b]] => a < b

(***************************************************************************)
(* model(): the compiled models are kept by the fingerprint of a genome    *)
(* and of its prebuilt bytes; the lock is held by get and by put, not in   *)
(* between, so that two threads may compile the same model.                *)
(***************************************************************************)
NotRebuilding == [is |-> "idle"]
NoBytes == 0
Strategies == [genome : Structures, prebuilt : Artifacts \cup {NoBytes}]

CacheInit ==
  cached = <<>> /\ rebuilding = [t \in Rebuilders |-> NotRebuilding] /\ served = 0

fingerprint(s) == s

(* onnx_bytes: the artifact if there is one, else what build_onnx emits.   *)
onnx_bytes(s) ==
  IF s.prebuilt # NoBytes THEN [artifact |-> s.prebuilt] ELSE [emitted |-> s.genome]

cache_get(t, s) ==
  LET found == {i \in DOMAIN cached : cached[i][1] = fingerprint(s)}
  IN /\ rebuilding[t].is # "compile" /\ served < MaxModels
     /\ served' = served + 1
     /\ rebuilding' = [rebuilding EXCEPT ![t] =
          IF found = {} THEN [is |-> "compile", of |-> s]
          ELSE [is |-> "model", of |-> s, model |-> cached[Min(found)][2]]]
     /\ UNCHANGED cached

(* The model is compiled and put: an entry of the same key is replaced and *)
(* moves to the back, the oldest go when there are too many.               *)
cache_put(t) ==
  LET s == rebuilding[t].of
      kept == SelectSeq(cached, LAMBDA e : e[1] # fingerprint(s))
      grown == Append(kept, <<fingerprint(s), onnx_bytes(s)>>)
      over == Max({0, Len(grown) - PREDICTOR_CACHE_CAPACITY})
  IN /\ rebuilding[t].is = "compile"
     /\ cached' = SubSeq(grown, over + 1, Len(grown))
     /\ rebuilding' = [rebuilding EXCEPT ![t] =
          [is |-> "model", of |-> s, model |-> onnx_bytes(s)]]
     /\ UNCHANGED served

(* Bytes that do not compile leave the cache alone.                        *)
compile_fails(t) ==
  /\ rebuilding[t].is = "compile" /\ rebuilding[t].of.prebuilt # NoBytes
  /\ rebuilding' = [rebuilding EXCEPT ![t] = NotRebuilding]
  /\ UNCHANGED <<cached, served>>

CacheNext ==
  \E t \in Rebuilders :
    (\E s \in Strategies : cache_get(t, s)) \/ cache_put(t) \/ compile_fails(t)

(***************************************************************************)
(* A strategy runs its own model, whoever compiled it and whatever the     *)
(* cache evicted, and the cache holds at most one model of a key.          *)
(***************************************************************************)
OwnModel ==
  /\ \A t \in Rebuilders :
       rebuilding[t].is = "model" => rebuilding[t].model = onnx_bytes(rebuilding[t].of)
  /\ Len(cached) <= PREDICTOR_CACHE_CAPACITY
  /\ \A i, j \in DOMAIN cached : cached[i][1] = cached[j][1] => i = j

(***************************************************************************)
(* What a caller of model() gets: operators after their inputs, and the    *)
(* predictor of its own genome.                                            *)
(***************************************************************************)
GraphSound == SortedInTime /\ OwnModel
=============================================================================
