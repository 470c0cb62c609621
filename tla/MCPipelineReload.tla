-------------------------- MODULE MCPipelineReload --------------------------
(* Instances of PipelineReload: a source a, a middle node b and an end c,  *)
(* submitted in the lists a user edits a running pipeline through.         *)
EXTENDS PipelineReload

CONSTANTS a, b, c

Node(id, type, ins, term, ver) ==
  [id |-> id, type |-> type, inputs |-> ins, terminal |-> term, ver |-> ver]

Src == Node(a, "Input", {}, FALSE, 0)
Mid(ins, v) == Node(b, "Transform", ins, FALSE, v)
End(ins, v) == Node(c, "Sink", ins, FALSE, v)
Out == Node(c, "Output", {a}, FALSE, 0)
Station(ins) == Node(b, "Transform", ins, TRUE, 0)
Feedback == Node(a, "Transform", {b}, TRUE, 0)
Loop == Node(b, "Transform", {c}, TRUE, 1)

MCIds == {a, b, c}

MCPlans ==
  { {},                                        \* stop()
    {Src, End({a}, 0)},
    {Src, End({a}, 1)},                        \* c changed in place
    {Src, Out},                                \* c becomes an Output
    {Src, Mid({a}, 0), End({b}, 0)},
    {Src, Mid({a}, 0), End({a, b}, 0)},
    {Src, Mid({a}, 1), End({b}, 0)},
    {Src, Mid({a}, 0), End({a}, 1)},           \* b loses its reader
    {Src, Station({a})},                       \* b serves a station
    {Src, Station({a}), End({a}, 0)},
    {Src, Loop, End({b}, 0)},                  \* b and c feed each other
    {Feedback, Station({a}), End({b}, 0)},     \* a and b feed each other
    {Src, End({a, b}, 1)},                     \* c may read a removed b
    {Station({c}), End({b}, 0)} }
=============================================================================
