------------------------------ MODULE MCServices ------------------------------
(***************************************************************************)
(* The parts of the server process, each explored by itself: part says     *)
(* which one moves.                                                        *)
(***************************************************************************)
EXTENDS LakeMirror, ServerApi, Metrics, ConfigLoad, ClusterMesh, ModuleHost, ScriptRuntime

VARIABLE part
Parts == {"mirror", "api", "metrics", "config", "gossip", "detector", "raft", "sse", "page", "db", "script"}

MCBlockOfPoint == <<1, 2>>

ServicesInit ==
  /\ part \in Parts
  /\ MirrorInit /\ ApiInit /\ MetricsInit /\ ConfigInit
  /\ GossipInit /\ DetectorInit /\ RaftInit /\ SseInit /\ PageInit /\ DbInit /\ ScriptInit
  /\ part # "config" => cfg = Plain /\ sock = "none"

Rest(x) ==
  /\ x # "mirror" => UNCHANGED mirrorvars
  /\ x # "api" => UNCHANGED avars
  /\ x # "metrics" => UNCHANGED mvars
  /\ x # "config" => UNCHANGED cvars
  /\ x # "gossip" => UNCHANGED gvars
  /\ x # "detector" => UNCHANGED dvars
  /\ x # "raft" => UNCHANGED rvars
  /\ x # "sse" => UNCHANGED hvars
  /\ x # "page" => UNCHANGED pgvars
  /\ x # "db" => UNCHANGED dbvars
  /\ x # "script" => UNCHANGED scriptvars

ServicesNext ==
  /\ UNCHANGED part
  /\ \/ part = "mirror" /\ MirrorNext
     \/ part = "api" /\ ApiNext
     \/ part = "metrics" /\ MetricsNext
     \/ part = "config" /\ ConfigNext
     \/ part = "gossip" /\ GossipNext
     \/ part = "detector" /\ DetectorNext
     \/ part = "raft" /\ RaftNext
     \/ part = "sse" /\ SseNext
     \/ part = "page" /\ PageNext
     \/ part = "db" /\ DbNext
     \/ part = "script" /\ ScriptNext
  /\ Rest(part)

ServicesSpec ==
  ServicesInit /\ [][ServicesNext]_<<part, mirrorvars, avars, mvars, cvars, gvars, dvars, rvars,
                                     hvars, pgvars, dbvars, scriptvars>>
=============================================================================
