------------------------------ MODULE MCStores ------------------------------
(***************************************************************************)
(* What a station's observations pass through: the cache in front of the   *)
(* storage, the arena that cache is made of, the local lake under it.      *)
(* part says which one moves.                                              *)
(***************************************************************************)
EXTENDS Lakehouse, TimeseriesStation, LruArena, TLC

CONSTANTS k1, k2, o1, o2, o3

VARIABLE part
Parts == {"lake", "station", "arena"}

(* Two keys in two blocks: retention can drop one and keep the other. *)
MCBlock == k1 :> 1 @@ k2 :> 2

(* Two observations share a block, the third is two blocks on, past a gap. *)
MCBlockOf == o1 :> 1 @@ o2 :> 1 @@ o3 :> 3

(* Two of the three keys share a shard. *)
MCShardOf == o1 :> 0 @@ o2 :> 0 @@ o3 :> 1

Symm == Permutations(Threads) \cup Permutations({o1, o2})

StoresInit == part \in Parts /\ Init /\ StationInit /\ LruInit

StoresNext ==
  /\ UNCHANGED part
  /\ \/ part = "lake" /\ Next /\ UNCHANGED <<stationvars, lvars>>
     \/ part = "station" /\ StationNext /\ UNCHANGED <<vars, lvars>>
     \/ part = "arena" /\ LruNext /\ UNCHANGED <<vars, stationvars>>

StoresSpec == StoresInit /\ [][StoresNext]_<<part, vars, stationvars, lvars>>
=============================================================================
