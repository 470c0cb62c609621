--------------------------- MODULE MCPipelineTasks ---------------------------
(* Instances of PipelineTasks: a clock a and its consumer c.               *)
EXTENDS PipelineTasks

CONSTANTS a, c

Node(id, type, ins, ver) ==
  [id |-> id, type |-> type, inputs |-> ins, terminal |-> FALSE, ver |-> ver]

Src == Node(a, "Source", {}, 0)
Sink(id, ins, v) == Node(id, "Sink", ins, v)

MCIds == {a, c}

\* One consumer, added, changed back and forth, and removed with its clock.
MCPlans == { {}, {Src, Sink(c, {a}, 0)}, {Src, Sink(c, {a}, 1)} }
=============================================================================
