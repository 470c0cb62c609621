----------------------------- MODULE LakeMirror -----------------------------
(***************************************************************************)
(* The S3 mirror of the parquet lake (storage/parquet.rs): delta files and *)
(* their manifest are uploaded after a flush, the tables of a checkpoint   *)
(* and then their manifest after a snapshot, all outside of the lock; a    *)
(* lake that opens on an empty disk is restored from it.  A put or a       *)
(* delete may fail, the process may be killed, and the disk may be lost.   *)
(*                                                                         *)
(* What a kill does to the local files is module Lakehouse: here a flush   *)
(* and a checkpoint are one local step each, and points that are logged    *)
(* survive a kill.  A point is its number; a table's content is the number *)
(* of the checkpoint that wrote it.                                        *)
(***************************************************************************)
EXTENDS Integers, Sequences, FiniteSets, SequencesExt

CONSTANTS Callers,
          BlockOfPoint,   \* block_id_of: a sequence, the block of each point
          LakeTables,     \* TABLES
          KeepBlock,      \* keep_block of retention
          MaxMillis, MaxGeneration, MaxUses, MaxFaults, MaxMoves   \* bounds

ASSUME LakeShape == LakeTables # {} /\ MaxGeneration \in Nat

VARIABLES buf,         \* inner.ts: points not flushed (durable in wal.log)
          appended,    \* points so far
          listed,      \* inner.ts_manifest and ts_manifest.json
          held,        \* local delta files: rel -> points, {} for none
          generation,  \* inner.generation
          current,     \* _current: <<generation, checkpoint>>
          millis,      \* now_millis
          checkpoints, \* checkpoints so far
          remote,      \* the bucket
          upload,      \* per caller, what it has still to do
          restoring,   \* is the lake between _current and ts_manifest.json?
          excused,     \* history: files whose absence from the bucket has a cause
          uses, faults, moves

mirrorvars == <<buf, appended, listed, held, generation, current, millis, checkpoints,
                remote, upload, restoring, excused, uses, faults, moves>>

Rels == Range(BlockOfPoint) \X (0..MaxMillis)
NoFiles == [r \in Rels |-> {}]
NoCheckpoint == <<0, 0>>
NoUpload == [at |-> "idle"]

MirrorInit ==
  /\ buf = {} /\ appended = 0 /\ listed = {} /\ held = NoFiles
  /\ generation = 0 /\ current = NoCheckpoint /\ millis = 0 /\ checkpoints = 0
  /\ remote = [files |-> NoFiles, listed |-> {}, state |-> 0,
               tables |-> [x \in LakeTables \X (1..MaxGeneration) |-> 0]]
  /\ upload = [t \in Callers |-> NoUpload]
  /\ restoring = FALSE /\ excused = {} /\ uses = 0 /\ faults = 0 /\ moves = 0

Do(t, next) == upload' = [upload EXCEPT ![t] = next]
(* A caller that is free begins a call: the background task of a station   *)
(* on its schedule, or shutdown; both ignore the error of a call.          *)
Begin(t) ==
  /\ upload[t].at = "idle" /\ ~restoring
  /\ uses < MaxUses /\ uses' = uses + 1
Local == <<buf, appended, listed, held, generation, current, millis, checkpoints>>
World == <<restoring, excused, uses, faults, moves>>

append_point ==
  /\ ~restoring /\ appended < Len(BlockOfPoint)
  /\ appended' = appended + 1 /\ buf' = buf \cup {appended + 1}
  /\ UNCHANGED <<listed, held, generation, current, millis, checkpoints, remote, upload>>
  /\ UNCHANGED World

(* flush_timeseries, in the lock: the buffer goes to one file per block    *)
(* named by the millisecond, over any file of that name.  snap: called by  *)
(* snapshot, which goes on to the checkpoint.                              *)
WrittenBy(stamp) == {r \in Rels : r[2] = stamp /\ \E p \in buf : BlockOfPoint[p] = r[1]}

After(snap) == IF snap THEN [at |-> "checkpoint"] ELSE NoUpload

FlushFiles(t, snap) ==
  /\ Begin(t)
  /\ IF buf = {}
     THEN /\ snap /\ Do(t, After(snap))
          /\ UNCHANGED Local
     ELSE \E stamp \in millis..MaxMillis :
            LET files == WrittenBy(stamp) IN
            /\ generation < MaxGeneration
            /\ millis' = stamp /\ generation' = generation + 1
            /\ held' = [r \in Rels |-> IF r \notin files THEN held[r]
                                       ELSE {p \in buf : BlockOfPoint[p] = r[1]}]
            /\ listed' = listed \cup files /\ buf' = {}
            /\ Do(t, [at |-> "files", snap |-> snap, left |-> files])
            /\ UNCHANGED <<appended, current, checkpoints>>
  /\ UNCHANGED <<remote, restoring, excused, faults, moves>>

(* An error ends the call: what it had left to upload is never uploaded.   *)
Abort(t) ==
  /\ Do(t, NoUpload)
  /\ excused' = excused \cup (IF upload[t].at = "files" THEN upload[t].left ELSE {})

NextFile(u, r) ==
  [u EXCEPT !.left = @ \ {r}, !.at = IF u.left = {r} THEN "read list" ELSE @]

(* A delta file, in the order of blocks, is read and then put; retention   *)
(* may have removed it.                                                    *)
PutFile(t) ==
  LET u == upload[t] IN
  /\ u.at = "files"
  /\ \E r \in u.left :
       /\ \A q \in u.left : r[1] <= q[1]
       /\ IF held[r] = {}
          THEN Abort(t) /\ UNCHANGED remote
          ELSE /\ remote' = [remote EXCEPT !.files[r] = held[r]]
               /\ Do(t, NextFile(u, r)) /\ UNCHANGED excused
  /\ UNCHANGED Local /\ UNCHANGED <<restoring, uses, faults, moves>>

(* ts/manifest.json: read in the lock, put outside of it.                  *)
ReadList(t) ==
  /\ upload[t].at = "read list"
  /\ Do(t, [at |-> "put list", snap |-> upload[t].snap, list |-> listed])
  /\ UNCHANGED Local /\ UNCHANGED remote /\ UNCHANGED World

PutList(t) ==
  /\ upload[t].at = "put list"
  /\ remote' = [remote EXCEPT !.listed = upload[t].list]
  /\ Do(t, After(upload[t].snap))
  /\ UNCHANGED Local /\ UNCHANGED World

(* snapshot after its flush: the checkpoint, whose sweep removes the       *)
(* tables of the one before; then its tables are put, then its manifest.   *)
Checkpoint(t) ==
  /\ upload[t].at = "checkpoint" /\ generation < MaxGeneration
  /\ generation' = generation + 1 /\ checkpoints' = checkpoints + 1
  /\ current' = <<generation + 1, checkpoints + 1>>
  /\ Do(t, [at |-> "tables", gen |-> generation + 1, left |-> LakeTables])
  /\ UNCHANGED <<buf, appended, listed, held, millis, remote>> /\ UNCHANGED World

\* Mutant: one table is enough.
TablesPut_Started(u) == u.left # LakeTables

TablesPut(u) == u.left = {}
PutTable(t) ==
  LET u == upload[t] IN
  /\ u.at = "tables" /\ u.left # {}
  /\ IF u.gen # current[1]
     THEN Abort(t) /\ UNCHANGED remote
     ELSE \E name \in u.left :
            /\ remote' = [remote EXCEPT !.tables[<<name, u.gen>>] = current[2]]
            /\ Do(t, [u EXCEPT !.left = @ \ {name}])
            /\ UNCHANGED excused
  /\ UNCHANGED Local /\ UNCHANGED <<restoring, uses, faults, moves>>

PutState(t) ==
  /\ upload[t].at = "tables" /\ TablesPut(upload[t])
  /\ remote' = [remote EXCEPT !.state = upload[t].gen]
  /\ Do(t, NoUpload)
  /\ UNCHANGED Local /\ UNCHANGED World

(* Any put may fail; the call ends with the error.                         *)
PutFails(t) ==
  /\ upload[t].at \in {"files", "put list", "tables"} /\ faults < MaxFaults
  /\ faults' = faults + 1
  /\ Abort(t)
  /\ UNCHANGED Local /\ UNCHANGED <<remote, restoring, uses, moves>>

(* retain_block_partitions and clear_all_series: local files first, then   *)
(* those of the bucket, errors ignored; retention ends with the manifest,  *)
(* clear_all_series does not touch it.                                     *)
Removing(t, gone, next) ==
  /\ Begin(t)
  /\ listed' = listed \ gone /\ held' = [r \in Rels |-> IF r \in gone THEN {} ELSE held[r]]
  /\ excused' = excused \cup gone
  /\ Do(t, [at |-> "deletes", left |-> gone, next |-> next])
  /\ UNCHANGED <<appended, generation, current, millis, checkpoints, remote, restoring, faults, moves>>

retain_partitions(t) ==
  LET gone == {r \in listed : r[1] < KeepBlock} IN
  /\ gone # {}
  /\ Removing(t, gone, [at |-> "read list", snap |-> FALSE, left |-> {}])
  /\ UNCHANGED buf

clear_lake(t) ==
  /\ listed # {}
  /\ Removing(t, listed, NoUpload)
  /\ buf' = {}

DeleteFile(t) ==
  LET u == upload[t] IN
  /\ u.at = "deletes" /\ u.left # {}
  /\ \E r \in u.left :
       /\ Do(t, IF u.left = {r} THEN u.next ELSE [u EXCEPT !.left = @ \ {r}])
       /\ \/ remote' = [remote EXCEPT !.files[r] = {}] /\ UNCHANGED faults
          \/ faults < MaxFaults /\ faults' = faults + 1 /\ UNCHANGED remote
  /\ UNCHANGED Local /\ UNCHANGED <<restoring, excused, uses, moves>>

(* The process is killed and opens the lake again: not fresh once there is *)
(* a _current or a logged point, so a restore that was cut short after     *)
(* _current is not resumed.                                                *)
Lost == UNION {upload[t].left : t \in {c \in Callers : upload[c].at = "files"}}

KilledAndReopened ==
  /\ faults < MaxFaults /\ faults' = faults + 1
  /\ excused' = excused \cup Lost
  /\ upload' = [t \in Callers |-> NoUpload]
  /\ generation' = current[1] /\ restoring' = FALSE
  /\ UNCHANGED <<buf, appended, listed, held, current, millis, checkpoints, remote, uses, moves>>

(* The node is replaced: open_inner on an empty disk, and restore_from_s3  *)
(* up to _current.                                                         *)
Replaced ==
  LET g == remote.state IN
  /\ moves < MaxMoves /\ moves' = moves + 1
  /\ excused' = excused \cup Lost
  /\ upload' = [t \in Callers |-> NoUpload]
  /\ buf' = {} /\ listed' = {} /\ held' = NoFiles
  /\ generation' = g /\ restoring' = (g # 0)
  /\ current' = IF g = 0 THEN NoCheckpoint
                ELSE <<g, remote.tables[<<CHOOSE n \in LakeTables : TRUE, g>>]>>
  /\ UNCHANGED <<appended, millis, checkpoints, remote, uses, faults>>

(* The rest of restore_from_s3: the delta files that are there, the list.  *)
restore_ts ==
  /\ restoring /\ restoring' = FALSE
  /\ held' = [r \in Rels |-> IF r \in remote.listed THEN remote.files[r] ELSE {}]
  /\ listed' = remote.listed
  /\ UNCHANGED <<buf, appended, generation, current, millis, checkpoints, remote, upload,
                 excused, uses, faults, moves>>

MirrorNext ==
  \/ append_point \/ KilledAndReopened \/ Replaced \/ restore_ts
  \/ \E t \in Callers :
       \/ \E snap \in BOOLEAN : FlushFiles(t, snap)
       \/ PutFile(t) \/ ReadList(t) \/ PutList(t)
       \/ Checkpoint(t) \/ PutTable(t) \/ PutState(t) \/ PutFails(t)
       \/ retain_partitions(t) \/ clear_lake(t) \/ DeleteFile(t)

MirrorSpec == MirrorInit /\ [][MirrorNext]_mirrorvars

(***************************************************************************)
(* What a new node restores is one checkpoint: the state manifest of the   *)
(* bucket names a generation all of whose tables are there and come from   *)
(* the same checkpoint, whatever snapshots overlap, fail or are killed,    *)
(* and after nodes were replaced in the middle of one.                     *)
(***************************************************************************)
SnapshotWhole ==
  remote.state # 0 =>
    \E c \in 1..checkpoints : \A name \in LakeTables : remote.tables[<<name, remote.state>>] = c

(***************************************************************************)
(* A delta file that the bucket's list names and the bucket lacks was      *)
(* removed, or its own upload failed, was cut short, or is under way.      *)
(***************************************************************************)
LossExplained ==
  \A r \in remote.listed :
    remote.files[r] # {} \/ r \in excused \/ \E t \in Callers : upload[t].at = "files" /\ r \in upload[t].left

(***************************************************************************)
(* What a node that is restored from the bucket relies on.                 *)
(***************************************************************************)
MirrorSound == SnapshotWhole /\ LossExplained
=============================================================================
