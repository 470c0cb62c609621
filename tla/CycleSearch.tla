---------------------------- MODULE CycleSearch ----------------------------
(***************************************************************************)
(* find_cycle (runtime/engine.rs), the three-colour depth-first search     *)
(* behind validate_no_cycles.  The calls of visit under way are those of   *)
(* the nodes in path, innermost last; an action is one turn of a loop.     *)
(* The roots are taken in the order of the keys of a HashMap, that is in   *)
(* any order.  A graph may name nodes that it has no entry for.            *)
(***************************************************************************)
EXTENDS Naturals, Sequences

CONSTANTS
  Keys,      \* the nodes of the graph
  Strays,    \* names nodes may list that are no nodes
  Lists      \* the lists of inputs that a node may have

Known == Keys \cup Strays

ASSUME SearchAssumption ==
  /\ Keys \cap Strays = {}
  /\ Lists \subseteq Seq(Known)

VARIABLES
  edges,     \* node -> list of its inputs
  color,     \* name -> White, Gray or Black
  path,      \* the grey nodes, in the order in which they were entered
  passed,    \* name -> number of inputs that its loop has gone on to
  answer     \* what the call returned, or Pending

searchvars == <<edges, color, path, passed, answer>>

Pending == [is |-> "pending"]
NoCycle == [is |-> "none"]
Cycle(loop) == [is |-> "some", loop |-> loop]

\* edges.get(node).into_iter().flatten()
NextOf(node) == IF node \in Keys THEN edges[node] ELSE <<>>

Top == path[Len(path)]

SearchInit ==
  /\ edges \in [Keys -> Lists]
  /\ color = [n \in Known |-> "White"]
  /\ path = <<>>
  /\ passed = [n \in Known |-> 0]
  /\ answer = Pending

\* Mutant of visit: a node is marked as done when it is entered.
visit_BlackAtOnce(node) ==
  /\ color' = [color EXCEPT ![node] = "Black"]
  /\ path' = Append(path, node)

\* A call begins: its node turns grey and joins the path.
visit(node) ==
  /\ color' = [color EXCEPT ![node] = "Gray"]
  /\ path' = Append(path, node)

\* The loop over the keys calls visit for one that is still white.
root(node) ==
  /\ answer = Pending /\ path = <<>>
  /\ color[node] = "White"
  /\ visit(node)
  /\ UNCHANGED <<edges, passed, answer>>

\* Everything from `next` down to here.
BackEdge(next) ==
  LET start == CHOOSE k \in DOMAIN path : path[k] = next
  IN  Append(SubSeq(path, start, Len(path)), next)

\* The innermost loop goes on to the next input.
follow ==
  /\ answer = Pending /\ path # <<>>
  /\ passed[Top] < Len(NextOf(Top))
  /\ passed' = [passed EXCEPT ![Top] = @ + 1]
  /\ LET next == NextOf(Top)[passed[Top] + 1]
     IN  \/ color[next] = "Gray" /\ answer' = Cycle(BackEdge(next)) /\ UNCHANGED <<color, path>>
         \/ color[next] = "White" /\ visit(next) /\ UNCHANGED answer
         \/ color[next] = "Black" /\ UNCHANGED <<color, path, answer>>
  /\ UNCHANGED edges

\* The innermost loop ends, its call returns None.
leave ==
  /\ answer = Pending /\ path # <<>>
  /\ passed[Top] = Len(NextOf(Top))
  /\ path' = SubSeq(path, 1, Len(path) - 1)
  /\ color' = [color EXCEPT ![Top] = "Black"]
  /\ UNCHANGED <<edges, passed, answer>>

\* The loop over the keys ends.
no_root_left ==
  /\ answer = Pending /\ path = <<>>
  /\ \A n \in Keys : color[n] # "White"
  /\ answer' = NoCycle
  /\ UNCHANGED <<edges, color, path, passed>>

find_cycle == (\E n \in Keys : root(n)) \/ follow \/ leave \/ no_root_left

SearchSpec == SearchInit /\ [][find_cycle]_searchvars

-----------------------------------------------------------------------------
Inputs(n) == { edges[n][k] : k \in DOMAIN edges[n] }

\* A graph has a cycle iff some non-empty set of nodes feeds itself; this is
\* the HasCycle that PipelineReload uses for validate_no_cycles.
FeedsItself == \E S \in SUBSET Keys : S # {} /\ \A n \in S : Inputs(n) \cap S # {}

\* The search answers for every graph, whatever the order of keys and inputs:
\* None exactly for the graphs without a cycle (find_cycle's Black colour
\* cuts off second visits, which is only right if nothing behind a black
\* node can close a loop).
FindsCycle == answer # Pending => (answer # NoCycle <=> FeedsItself)

\* The path it reports to the user is a real loop of the graph: it starts and
\* ends on the same node, follows declared inputs and repeats nothing else.
CycleIsReal ==
  answer.is = "some" =>
    LET loop == answer.loop
    IN  /\ Len(loop) >= 2
        /\ loop[1] = loop[Len(loop)]
        /\ \A k \in 1 .. Len(loop) - 1 : loop[k] \in Keys /\ loop[k + 1] \in Inputs(loop[k])
        /\ \A i, j \in 1 .. Len(loop) - 1 : loop[i] = loop[j] => i = j

\* What a user who is refused a pipeline for a cycle relies on.
CycleAnswers == FindsCycle /\ CycleIsReal
=============================================================================
