------------------------------ MODULE MCStorage ------------------------------
(***************************************************************************)
(* The parts under the stations, each explored by itself: part says which. *)
(***************************************************************************)
EXTENDS CategoryIndex, PatternStation, StorageBackends, IndexTables, Snowflake

VARIABLE part
Parts == {"index", "patterns", "timeseries", "tables", "ids"}

MCKeys == {<<1>>, <<1, 2>>, <<2, 1>>, <<1, 1, 2>>, <<1, 1>>, <<2, 1, 1, 2>>, <<2, 1, 1, 1, 2>>}
MCPatterns == UNION {[1..i -> {1, 2}] : i \in 1..3}
MCConfigs == {{<<1, 2>>, <<2>>}, {<<1, 1, 2>>, <<1, 2, 1>>, << >>}, {<<1, 1, 2, 1>>, <<1, 2, 2>>}}
MCSamples == UNION {[1..n -> {1, 2}] : n \in 2..5}
MCChains == {<<1>>, <<2, 3>>}

StorageInit ==
  /\ part \in Parts
  /\ IInit /\ PInit /\ BInit /\ TablesInit /\ SInit
  /\ part # "index" => backend = "memory"
  /\ part # "patterns" => pstore = "memory"
  /\ part # "ids" => wall = 0

StorageNext ==
  /\ UNCHANGED part
  /\ \/ part = "index" /\ INext /\ UNCHANGED <<pvars, bvars, tabvars, svars>>
     \/ part = "patterns" /\ PNext /\ UNCHANGED <<ivars, bvars, tabvars, svars>>
     \/ part = "timeseries" /\ BNext /\ UNCHANGED <<ivars, pvars, tabvars, svars>>
     \/ part = "tables" /\ TablesNext /\ UNCHANGED <<ivars, pvars, bvars, svars>>
     \/ part = "ids" /\ SNext /\ UNCHANGED <<ivars, pvars, bvars, tabvars>>

StorageSpec == StorageInit /\ [][StorageNext]_<<part, ivars, pvars, bvars, tabvars, svars>>

(***************************************************************************)
(* A user may change the storage of a station: the back ends answer alike, *)
(* for the timeseries and for the tables of the index.                     *)
(***************************************************************************)
StoresAgree == BackendsAgree /\ TablesAgree
=============================================================================
