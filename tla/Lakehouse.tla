----------------------------- MODULE Lakehouse -----------------------------
(***************************************************************************)
(* The local lake behind a station (storage/parquet.rs): tables in memory  *)
(* behind one mutex, a write-ahead log, checkpoints made current by a      *)
(* pointer file, and the timeseries buffer flushed to one file per block   *)
(* listed in a manifest.  Every step that reaches the disk is an action;   *)
(* the process may be killed between any two of them and reopened.  What   *)
(* a system call has written stays written (the kill of a process, not the *)
(* loss of power).                                                         *)
(*                                                                         *)
(* Data: a timeseries key is a (series, ts) pair with its block; the rt_*  *)
(* and ac_* tables are one row, Row; a value is the number of the write    *)
(* that produced it, 0 for none.  The clock of now_millis gives each flush *)
(* a stamp of its own.                                                     *)
(***************************************************************************)
EXTENDS Naturals, Sequences, FiniteSets

CONSTANTS
    Threads,          \* callers: appends of the cache, the background task, clear
    TsKeys, Row,      \* timeseries keys, and the one row of the other tables
    Block,            \* block_id_of: the block of a key, under a fixed block_secs
    KeepBlocks,       \* keep_block of the retention calls
    FlushThreshold,   \* flush_threshold, 0 = off
    SplitLine,        \* may a kill fall between a log line and its newline?
    MaxWrites, MaxFlushes, MaxGen,  \* bounds: logged calls, flushes, generation,
    MaxCrashes                      \* and kills

ASSUME LakeAssumption ==
    /\ Row \notin TsKeys
    /\ Block \in [TsKeys -> Nat]
    /\ KeepBlocks \subseteq Nat
    /\ FlushThreshold \in Nat
    /\ SplitLine \in BOOLEAN
    /\ {MaxWrites, MaxFlushes, MaxGen, MaxCrashes} \subseteq Nat

VARIABLES
    up,       \* is the process running?
    mem,      \* Inner: ts buffer, ts_next_id, the row, generation, ts_manifest
    disk,     \* wal.log, _current, table files, ts_manifest.json, delta files
    job,      \* the work of the thread that holds the mutex, or NoJob
    pc,       \* what a thread still has to do once it gets the mutex again
    writes,   \* number of logged calls so far: the value the next one writes
    latest,   \* key -> the value last written under it
    flushes,  \* number of flushes so far: the stamp of the next one
    crashes,  \* number of kills so far
    found     \* key -> value that a process opening the lake now would find

vars == <<up, mem, disk, job, pc, writes, latest, flushes, crashes, found>>

Keys == TsKeys \cup {Row}
NoJob == [op |-> "none"]
Empty == [id |-> 0, v |-> 0]
NoPoints == [k \in TsKeys |-> Empty]
Buffered(m) == {k \in TsKeys : m.buf[k].id > 0}
Larger(a, b) == IF a > b THEN a ELSE b
MaxOf(S) == CHOOSE x \in S : \A y \in S : y <= x
MinOf(S) == CHOOSE x \in S : \A y \in S : x <= y

-----------------------------------------------------------------------------
(* State and recovery.                                                     *)

\* Inner before anything is loaded: ids start at 1.
Fresh == [buf |-> NoPoints, next_id |-> 1, row |-> 0, gen |-> 0, manifest |-> <<>>]

EmptyDisk ==
    [wal |-> <<>>, ended |-> TRUE, current |-> 0, rt |-> <<>>, ts |-> <<>>,
     manifest |-> <<>>, files |-> <<>>]

\* Mutant: the flush mark spares the point with the highest id.
apply_wal_op_SparesLast(m, rec) ==
    CASE rec.type = "TsPoint" ->
           [m EXCEPT !.buf[rec.k] = [id |-> rec.id, v |-> rec.v],
                     !.next_id = Larger(@, rec.id + 1)]
      [] rec.type = "TsFlush" ->
           [m EXCEPT !.buf = [k \in TsKeys |-> IF @[k].id >= rec.id THEN @[k] ELSE Empty]]
      [] rec.type = "TsClearAll" -> [m EXCEPT !.buf = NoPoints]
      [] rec.type = "SetRow" -> [m EXCEPT !.row = rec.v]
      [] rec.type = "ClearTable" -> [m EXCEPT !.row = 0]
      [] rec.type = "seq" -> [m EXCEPT !.gen = Larger(@, rec.gen)]

\* One log record, applied the same way live and in a replay.
apply_wal_op(m, rec) ==
    CASE rec.type = "TsPoint" ->
           [m EXCEPT !.buf[rec.k] = [id |-> rec.id, v |-> rec.v],
                     !.next_id = Larger(@, rec.id + 1)]
      [] rec.type = "TsFlush" ->
           [m EXCEPT !.buf = [k \in TsKeys |-> IF @[k].id > rec.id THEN @[k] ELSE Empty]]
      [] rec.type = "TsClearAll" -> [m EXCEPT !.buf = NoPoints]
      [] rec.type = "SetRow" -> [m EXCEPT !.row = rec.v]
      [] rec.type = "ClearTable" -> [m EXCEPT !.row = 0]
      [] rec.type = "seq" -> [m EXCEPT !.gen = Larger(@, rec.gen)]

\* Rows of the table files into memory; loaded ids raise ts_next_id.
apply_table_rows(m, row, buf) ==
    [m EXCEPT !.row = row, !.buf = buf,
              !.next_id = 1 + MaxOf({0} \cup {buf[k].id : k \in TsKeys})]

\* The checkpoint that _current names; a table without a file is skipped.
load_tables(d) ==
    LET g == d.current
    IN  IF g = 0 THEN Fresh
        ELSE apply_table_rows([Fresh EXCEPT !.gen = g],
                              IF g \in DOMAIN d.rt THEN d.rt[g] ELSE 0,
                              IF g \in DOMAIN d.ts THEN d.ts[g] ELSE NoPoints)

\* A line is parsed as one record: two records on one line are an error.
Parses(d) == \A i \in DOMAIN d.wal : Len(d.wal[i]) = 1

\* What the first n lines of a log make of a state, for every n.
replay(wal, start) ==
    LET after[n \in 0..Len(wal)] ==
            IF n = 0 THEN start ELSE apply_wal_op(after[n - 1], wal[n][1])
    IN  after

\* Inner::open: checkpoint, then the whole log, then the manifest.
open(d) ==
    [replay(d.wal, load_tables(d))[Len(d.wal)] EXCEPT !.manifest = d.manifest]

\* merged_ts: the buffer wins, then the file latest in the manifest; a listed
\* file that is gone is skipped.
merged_ts(m, files, k) ==
    LET hits == {i \in DOMAIN m.manifest :
                    /\ m.manifest[i] \in DOMAIN files
                    /\ k \in DOMAIN files[m.manifest[i]]}
    IN  IF m.buf[k].id > 0 THEN m.buf[k].v
        ELSE IF hits = {} THEN 0
        ELSE files[m.manifest[MaxOf(hits)]][k]

ViewOf(m, files) ==
    [k \in Keys |-> IF k = Row THEN m.row ELSE merged_ts(m, files, k)]

-----------------------------------------------------------------------------
(* Calls: each takes the mutex.                                            *)

Init ==
    /\ up = TRUE
    /\ mem = open(EmptyDisk)
    /\ disk = EmptyDisk
    /\ job = NoJob
    /\ pc = [t \in Threads |-> "idle"]
    /\ writes = 0
    /\ latest = [k \in Keys |-> 0]
    /\ flushes = 0
    /\ crashes = 0
    /\ found = ViewOf(mem, disk.files)

\* A durable write, and what it changes for a process that opens the lake.
Save(d) == disk' = d /\ found' = ViewOf(open(d), d.files)

Unlocked == up /\ job = NoJob

\* The mutex is taken to log `rec`; afterwards the thread goes on with `then`.
Logging(t, rec, then) == [op |-> "line", by |-> t, rec |-> rec, then |-> then]

Write(t, rec, then) ==
    /\ Unlocked /\ pc[t] = "idle" /\ writes < MaxWrites
    /\ job' = Logging(t, rec, then)
    /\ UNCHANGED <<up, mem, disk, pc, writes, latest, flushes, crashes, found>>

append(t, k) ==
    Write(t, [type |-> "TsPoint", k |-> k, id |-> mem.next_id, v |-> writes + 1], "append")

\* Every setter of the category, edge, chain, shortcut, meta, bloom and
\* pattern tables.
SetRow(t) == Write(t, [type |-> "SetRow", k |-> Row, v |-> writes + 1], "idle")

ClearTable(t) == Write(t, [type |-> "ClearTable"], "idle")

\* flush_timeseries up to the first file; an empty buffer returns at once.
flush_timeseries(t, then) ==
    /\ Unlocked /\ flushes < MaxFlushes /\ mem.gen < MaxGen
    /\ IF Buffered(mem) = {}
       THEN pc' = [pc EXCEPT ![t] = then] /\ UNCHANGED <<job, flushes>>
       ELSE /\ job' = [op |-> "files", by |-> t, then |-> then, written |-> <<>>,
                       todo |-> {Block[k] : k \in Buffered(mem)}, stamp |-> flushes + 1]
            /\ flushes' = flushes + 1
            /\ UNCHANGED pc
    /\ UNCHANGED <<up, mem, disk, writes, latest, crashes, found>>

flush(t) == pc[t] \in {"idle", "flush"} /\ flush_timeseries(t, "idle")

\* snapshot flushes, gives the mutex back, and takes it again to checkpoint.
snapshot(t) == pc[t] = "idle" /\ flush_timeseries(t, "checkpoint")

checkpoint(t) ==
    /\ Unlocked /\ pc[t] = "checkpoint" /\ mem.gen < MaxGen
    /\ mem' = [mem EXCEPT !.gen = @ + 1]
    /\ job' = [op |-> "table_rt", by |-> t]
    /\ UNCHANGED <<up, disk, pc, writes, latest, flushes, crashes, found>>

\* Files of the manifest go, one by one and in flush order, with all points of
\* `keys`: `todo` are their places, `kept` the files that stay.
Removal(t, op, keys, todo, kept) ==
    [op |-> op, by |-> t, keys |-> keys, todo |-> todo, kept |-> kept]

\* The files of blocks from `keep` on.
KeptFiles(manifest, keep) ==
    LET kept[n \in 0..Len(manifest)] ==
            IF n = 0 THEN <<>>
            ELSE IF manifest[n][1] >= keep THEN Append(kept[n - 1], manifest[n])
            ELSE kept[n - 1]
    IN  kept[Len(manifest)]

retain_block_partitions(t, keep) ==
    /\ Unlocked /\ pc[t] = "idle"
    /\ \E i \in DOMAIN mem.manifest : mem.manifest[i][1] < keep
    /\ job' = Removal(t, "remove", {k \in TsKeys : Block[k] < keep},
                      {i \in DOMAIN mem.manifest : mem.manifest[i][1] < keep},
                      KeptFiles(mem.manifest, keep))
    /\ UNCHANGED <<up, mem, disk, pc, writes, latest, flushes, crashes, found>>

clear_all_series(t) ==
    /\ Unlocked /\ pc[t] = "idle" /\ writes < MaxWrites
    /\ job' = Removal(t, "clear", TsKeys, DOMAIN mem.manifest, <<>>)
    /\ UNCHANGED <<up, mem, disk, pc, writes, latest, flushes, crashes, found>>

-----------------------------------------------------------------------------
(* The steps of the thread that holds the mutex.                           *)

\* mutate: apply, append the line ...
WalLine ==
    /\ job.op = "line"
    /\ mem' = apply_wal_op(mem, job.rec)
    /\ Save([disk EXCEPT
                  !.wal = IF disk.ended THEN Append(@, <<job.rec>>)
                          ELSE [@ EXCEPT ![Len(@)] = Append(@, job.rec)],
                  !.ended = FALSE])
    /\ writes' = writes + (IF job.rec.type = "TsFlush" THEN 0 ELSE 1)
    /\ latest' = IF job.rec.type \in {"TsPoint", "SetRow"}
                 THEN [latest EXCEPT ![job.rec.k] = job.rec.v] ELSE latest
    /\ job' = [op |-> "newline", by |-> job.by, rec |-> job.rec, then |-> job.then]
    /\ UNCHANGED <<up, pc, flushes, crashes>>

\* ... and its newline, sync; the mutex is released.  A flush counts as a
\* generation, an append that filled the buffer goes on with a flush.
Newline ==
    /\ job.op = "newline"
    /\ Save([disk EXCEPT !.ended = TRUE])
    /\ mem' = [mem EXCEPT !.gen = @ + (IF job.rec.type = "TsFlush" THEN 1 ELSE 0)]
    /\ pc' = [pc EXCEPT ![job.by] =
                 IF job.then # "append" THEN job.then
                 ELSE IF FlushThreshold > 0 /\ Cardinality(Buffered(mem)) >= FlushThreshold
                      THEN "flush" ELSE "idle"]
    /\ job' = NoJob
    /\ UNCHANGED <<up, writes, latest, flushes, crashes>>

\* One delta file per block, blocks ascending.
FlushFile ==
    /\ job.op = "files" /\ job.todo # {}
    /\ LET b == MinOf(job.todo)
           name == <<b, job.stamp>>
           rows == [k \in {q \in Buffered(mem) : Block[q] = b} |-> mem.buf[k].v]
       IN  /\ Save([disk EXCEPT !.files = [f \in DOMAIN @ \cup {name} |->
                                                IF f = name THEN rows ELSE @[f]]])
           /\ job' = [job EXCEPT !.todo = @ \ {b}, !.written = Append(@, name)]
    /\ UNCHANGED <<up, mem, pc, writes, latest, flushes, crashes>>

\* The files enter the manifest, the buffer is emptied, the mark is logged.
FlushManifest ==
    /\ job.op = "files" /\ job.todo = {}
    /\ LET max_id == MaxOf({mem.buf[k].id : k \in TsKeys})
           manifest == mem.manifest \o job.written
       IN  /\ mem' = [mem EXCEPT !.manifest = manifest, !.buf = NoPoints]
           /\ Save([disk EXCEPT !.manifest = manifest])
           /\ job' = Logging(job.by, [type |-> "TsFlush", id |-> max_id], job.then)
    /\ UNCHANGED <<up, pc, writes, latest, flushes, crashes>>

\* write_parquet and rename: the file of one table in the new generation.
WithFile(tables, rows) ==
    [g \in DOMAIN tables \cup {mem.gen} |-> IF g = mem.gen THEN rows ELSE tables[g]]

\* checkpoint: the table files of the new generation ...
WriteTable ==
    /\ job.op \in {"table_rt", "table_ts"}
    /\ IF job.op = "table_rt"
       THEN /\ Save([disk EXCEPT !.rt = WithFile(@, mem.row)])
            /\ job' = [job EXCEPT !.op = "table_ts"]
       ELSE /\ Save([disk EXCEPT !.ts = WithFile(@, mem.buf)])
            /\ job' = [job EXCEPT !.op = "current"]
    /\ UNCHANGED <<up, mem, pc, writes, latest, flushes, crashes>>

\* ... the pointer that makes them current ...
WriteCurrent ==
    /\ job.op = "current"
    /\ Save([disk EXCEPT !.current = mem.gen])
    /\ job' = [job EXCEPT !.op = "truncate"]
    /\ UNCHANGED <<up, mem, pc, writes, latest, flushes, crashes>>

\* ... the log cut to nothing, then to its header ...
wal_head ==
    /\ job.op \in {"truncate", "header"}
    /\ IF job.op = "truncate"
       THEN /\ Save([disk EXCEPT !.wal = <<>>, !.ended = TRUE])
            /\ job' = [job EXCEPT !.op = "header"]
       ELSE /\ Save([disk EXCEPT !.wal = <<<<[type |-> "seq", gen |-> mem.gen]>>>>])
            /\ job' = [job EXCEPT !.op = "sweep"]
    /\ UNCHANGED <<up, mem, pc, writes, latest, flushes, crashes>>

\* ... and the files of other generations.
Sweep ==
    /\ job.op = "sweep"
    /\ LET Only(tables) == [g \in DOMAIN tables \cap {mem.gen} |-> tables[g]]
       IN  Save([disk EXCEPT !.rt = Only(@), !.ts = Only(@)])
    /\ job' = NoJob
    /\ pc' = [pc EXCEPT ![job.by] = "idle"]
    /\ UNCHANGED <<up, mem, writes, latest, flushes, crashes>>

\* Mutant: the newest file goes first.
RemoveFile_NewestFirst ==
    /\ job.op \in {"remove", "clear"} /\ job.todo # {}
    /\ LET i == MaxOf(job.todo)
       IN  /\ Save([disk EXCEPT !.files = [f \in DOMAIN @ \ {mem.manifest[i]} |-> @[f]]])
           /\ job' = [job EXCEPT !.todo = @ \ {i}]
    /\ UNCHANGED <<up, mem, pc, writes, latest, flushes, crashes>>

RemoveFile ==
    /\ job.op \in {"remove", "clear"} /\ job.todo # {}
    /\ LET i == MinOf(job.todo)
       IN  /\ Save([disk EXCEPT !.files = [f \in DOMAIN @ \ {mem.manifest[i]} |-> @[f]]])
           /\ job' = [job EXCEPT !.todo = @ \ {i}]
    /\ UNCHANGED <<up, mem, pc, writes, latest, flushes, crashes>>

\* The manifest without the removed files; clear_all_series then empties the
\* buffer, starts the ids over and logs it.
WriteKept ==
    /\ job.op \in {"remove", "clear"} /\ job.todo = {}
    /\ Save([disk EXCEPT !.manifest = job.kept])
    /\ IF job.op = "remove"
       THEN mem' = [mem EXCEPT !.manifest = job.kept] /\ job' = NoJob
       ELSE /\ mem' = [mem EXCEPT !.manifest = job.kept, !.buf = NoPoints, !.next_id = 1]
            /\ job' = Logging(job.by, [type |-> "TsClearAll"], "idle")
    /\ UNCHANGED <<up, pc, writes, latest, flushes, crashes>>

-----------------------------------------------------------------------------
(* The process dies and is started again.                                  *)

Crash ==
    /\ up /\ crashes < MaxCrashes
    /\ SplitLine \/ job.op # "newline"
    /\ up' = FALSE
    /\ mem' = Fresh
    /\ job' = NoJob
    /\ pc' = [t \in Threads |-> "idle"]
    /\ crashes' = crashes + 1
    /\ UNCHANGED <<disk, writes, latest, flushes, found>>

\* open fails on a line it cannot parse: the process stays down.
Open ==
    /\ ~up /\ Parses(disk)
    /\ up' = TRUE
    /\ mem' = open(disk)
    /\ UNCHANGED <<disk, job, pc, writes, latest, flushes, crashes, found>>

Call(t) ==
    \/ \E k \in TsKeys : append(t, k)
    \/ SetRow(t)
    \/ ClearTable(t)
    \/ flush(t)
    \/ snapshot(t)
    \/ checkpoint(t)
    \/ \E b \in KeepBlocks : retain_block_partitions(t, b)
    \/ clear_all_series(t)

Next ==
    \/ \E t \in Threads : Call(t)
    \/ WalLine \/ Newline
    \/ FlushFile \/ FlushManifest
    \/ WriteTable \/ WriteCurrent \/ wal_head \/ Sweep
    \/ RemoveFile \/ WriteKept
    \/ Crash \/ Open

Spec == Init /\ [][Next]_vars

-----------------------------------------------------------------------------
(* Properties.                                                             *)

\* "Every mutation goes to the log at once, and replay never departs from the
\* state": whenever the mutex is free, a reopening would give the very buffer,
\* row and manifest that are in memory (parquet.rs:14-17, 96-98).
MemoryIsLog ==
    Unlocked =>
        LET r == open(disk)
        IN  r.buf = mem.buf /\ r.row = mem.row /\ r.manifest = mem.manifest

\* The pointer file never names a checkpoint with a table missing, and the log
\* header never runs ahead of it.
CheckpointWhole ==
    /\ disk.current # 0 => disk.current \in DOMAIN disk.rt \cap DOMAIN disk.ts
    /\ \A i \in DOMAIN disk.wal : \A j \in DOMAIN disk.wal[i] :
          disk.wal[i][j].type = "seq" => disk.wal[i][j].gen <= disk.current

\* The log and the checkpoint, whichever a reopening reads, are the state.
LakeSound == MemoryIsLog /\ CheckpointWhole

\* The keys that the operation under way was asked to drop.
Dropping ==
    CASE job.op \in {"remove", "clear"} -> job.keys
      [] job.op = "line" /\ job.rec.type = "TsClearAll" -> TsKeys
      [] job.op = "line" /\ job.rec.type = "ClearTable" -> {Row}
      [] OTHER -> {}

Promise == INSTANCE DurableView WITH view <- found, allowed <- Dropping

\* A kill at any step loses no written value, brings back no overwritten or
\* dropped one, and flush, checkpoint and reopening change nothing that can be
\* found (parquet.rs:14-23, "crash giữa chừng không mất dữ liệu").
CrashSafe == Promise!Spec

\* A lake that was killed can be opened again (parquet.rs:16-17, "Khi open()
\* lại, WAL được replay trên checkpoint mới nhất").
Reopens == Parses(disk)
=============================================================================
