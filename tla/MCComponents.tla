---------------------------- MODULE MCComponents ----------------------------
(***************************************************************************)
(* The parts under and beside the pipeline, each explored by itself: the   *)
(* collectors, the analysis a plan is made of, the status of the nodes,    *)
(* the search for cycles.  part says which one moves.                      *)
(***************************************************************************)
EXTENDS Collectors, SeriesAnalysis, CycleSearch, NodeStatus

VARIABLE part
Parts == {"feed", "http", "vars", "telegram", "forest", "series", "graph", "models",
          "cycle", "status"}

MCSamples == {-1, 3, 8, 17}

(* Any wires that lead up, and one that leads down. *)
MCWires == {e \in GNode \X GNode : e[1] < e[2]} \cup {<<4, 3>>}

(* Any list of at most two names, the same one twice included. *)
MCLists == UNION {[1..n -> Known] : n \in 0..2}

(* A part that does not move starts from one of its initial states. *)
ComponentsInit ==
  /\ part \in Parts
  /\ IF part = "graph" THEN TRUE ELSE genome = Genome({}, {}, {})
  /\ IF part = "cycle" THEN TRUE ELSE edges = [k \in Keys |-> <<>>]
  /\ FeedInit /\ HttpInit /\ VarsInit /\ TgInit /\ ForestInit /\ SeriesInit
  /\ GraphInit /\ CacheInit /\ SearchInit /\ Init
  /\ part # "http" => shape = "source"
  /\ part # "series" => floor = 0

Rest(x) ==
  /\ x # "feed" => UNCHANGED fvars
  /\ x # "http" => UNCHANGED wvars
  /\ x # "vars" => UNCHANGED req
  /\ x # "telegram" => UNCHANGED tvars
  /\ x # "forest" => UNCHANGED rcvars
  /\ x # "series" => UNCHANGED savars
  /\ x # "graph" => UNCHANGED sortvars
  /\ x # "models" => UNCHANGED cachevars
  /\ x # "cycle" => UNCHANGED searchvars
  /\ x # "status" => UNCHANGED vars

ComponentsNext ==
  /\ UNCHANGED part
  /\ \/ part = "feed" /\ FeedNext
     \/ part = "http" /\ HttpNext
     \/ part = "vars" /\ VarsNext
     \/ part = "telegram" /\ TgNext
     \/ part = "forest" /\ ForestNext
     \/ part = "series" /\ SeriesNext
     \/ part = "graph" /\ GraphNext
     \/ part = "models" /\ CacheNext
     \/ part = "cycle" /\ find_cycle
     \/ part = "status" /\ Next
  /\ Rest(part)

ComponentsSpec ==
  ComponentsInit /\ [][ComponentsNext]_<<part, fvars, wvars, req, tvars, rcvars, savars,
                                         sortvars, cachevars, searchvars, vars>>
=============================================================================
