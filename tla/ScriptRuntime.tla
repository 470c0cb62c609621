--------------------------- MODULE ScriptRuntime ---------------------------
(***************************************************************************)
(* Rhai transforms (opsense-rhai runtime.rs, transform.rs, station.rs): a  *)
(* node hands each message to a script on a blocking thread and waits for  *)
(* it under a timeout that ends the wait and not the thread; the compiled  *)
(* scripts are shared in a cache, and a file that changed is compiled      *)
(* again; natives leave their faults in one slot of the process.           *)
(*                                                                         *)
(* All nodes run one script file.  Its text is the number of the edit that *)
(* wrote it, which is also its mtime; odd ones do not compile.  A thread   *)
(* is named by the number of the message it runs for.                      *)
(***************************************************************************)
EXTENDS Integers, FiniteSets

CONSTANTS Transforms,              \* nodes with a script
          MaxSaves, MaxBatches     \* bounds: edits, and messages

VARIABLES edit,      \* text and mtime of the file
          compiled,  \* CACHE: [mtime, ast], or NoScript
          batches,   \* messages received by all nodes
          batch,     \* per node, its last message
          waiting,   \* per node: "recv", "join", or the result "ok", "err"
          thread,    \* message -> the blocking thread
          slot,      \* LAST_FAULT
          faulty,    \* NODES_WITH_FAULT
          inError,   \* nodes whose status has a last_error
          written    \* own stations: messages whose output is there

scriptvars == <<edit, compiled, batches, batch, waiting, thread, slot, faulty, inError, written>>

Jobs == 1..MaxBatches
NoScript == [mtime |-> -1, ast |-> -1]
NoThread == [at |-> "none"]
Compiles(text) == text % 2 = 0

ScriptInit ==
  /\ edit = 0 /\ compiled = NoScript
  /\ batches = 0 /\ batch = [n \in Transforms |-> 0] /\ waiting = [n \in Transforms |-> "recv"]
  /\ thread = [j \in Jobs |-> NoThread]
  /\ slot = FALSE /\ faulty = {} /\ inError = {} /\ written = {}

(* The user saves the script.                                              *)
edit_script ==
  /\ edit < MaxSaves /\ edit' = edit + 1
  /\ UNCHANGED <<compiled, batches, batch, waiting, thread, slot, faulty, inError, written>>

(* run: a message starts a thread; the node waits for it.                  *)
receive(n) ==
  /\ waiting[n] = "recv" /\ batches < MaxBatches
  /\ batches' = batches + 1 /\ batch' = [batch EXCEPT ![n] = batches + 1]
  /\ thread' = [thread EXCEPT ![batches + 1] = [at |-> "begin", began |-> edit]]
  /\ waiting' = [waiting EXCEPT ![n] = "join"]
  /\ UNCHANGED <<edit, compiled, slot, faulty, inError, written>>

To(j, next) == thread' = [thread EXCEPT ![j] = next]

(* The result reaches the node while it waits for this thread; an error    *)
(* or an output after a timeout reaches nobody.                            *)
Report(j, result) ==
  /\ To(j, [thread[j] EXCEPT !.at = "over"])
  /\ waiting' = [n \in Transforms |->
                   IF batch[n] = j /\ waiting[n] = "join" THEN result ELSE waiting[n]]

(* acquire_any: the mtime is read before the lock is taken.                *)
source_fingerprint(j) ==
  /\ thread[j].at = "begin"
  /\ To(j, [at |-> "lock", began |-> thread[j].began, mtime |-> edit])
  /\ UNCHANGED <<edit, compiled, batches, batch, waiting, slot, faulty, inError, written>>

(* In the lock: the compiled script if its mtime is the one read, else the *)
(* text is read as it is now.                                              *)
Locked == \E j \in Jobs : thread[j].at = "compile"

acquire_any(j) ==
  LET t == thread[j] IN
  /\ t.at = "lock" /\ ~Locked
  /\ To(j, IF compiled.mtime = t.mtime
           THEN [at |-> "run", began |-> t.began, ast |-> compiled.ast]
           ELSE [at |-> "compile", began |-> t.began, mtime |-> t.mtime, text |-> edit])
  /\ UNCHANGED <<edit, compiled, batches, batch, waiting, slot, faulty, inError, written>>

(* Mutant: the mtime that is kept is read after the text.                  *)
Stamp_Now(t) == edit

Stamp(t) == t.mtime

(* Still in the lock: the text is compiled and kept under that mtime; one  *)
(* that does not compile leaves the cache alone.                           *)
compile(j) ==
  LET t == thread[j] IN
  /\ t.at = "compile"
  /\ IF Compiles(t.text)
     THEN /\ compiled' = [mtime |-> Stamp(t), ast |-> t.text]
          /\ To(j, [at |-> "run", began |-> t.began, ast |-> t.text])
          /\ UNCHANGED waiting
     ELSE Report(j, "err") /\ UNCHANGED compiled
  /\ UNCHANGED <<edit, batches, batch, slot, faulty, inError, written>>

(* call_fn: a native may leave a fault in the slot.                        *)
native_fault(j) ==
  /\ thread[j].at = "run" /\ ~slot /\ slot' = TRUE
  /\ UNCHANGED <<edit, compiled, batches, batch, waiting, thread, faulty, inError, written>>

(* station_write to the node's own station, also after the wait is over.   *)
station_write(j) ==
  /\ thread[j].at = "run" /\ j \notin written
  /\ written' = written \cup {j}
  /\ UNCHANGED <<edit, compiled, batches, batch, waiting, thread, slot, faulty, inError>>

(* The script returns, fails, or is stopped by on_progress.                *)
finish(j, result) ==
  /\ thread[j].at = "run"
  /\ Report(j, result)
  /\ UNCHANGED <<edit, compiled, batches, batch, slot, faulty, inError, written>>

(* The timeout of call_process_with.                                       *)
timed_out(n) ==
  /\ waiting[n] = "join" /\ waiting' = [waiting EXCEPT ![n] = "err"]
  /\ UNCHANGED <<edit, compiled, batches, batch, thread, slot, faulty, inError, written>>

(* run, on an error: a Fault; processed is forwarded all the same.         *)
batch_failed(n) ==
  /\ waiting[n] = "err" /\ waiting' = [waiting EXCEPT ![n] = "recv"]
  /\ inError' = inError \cup {n}
  /\ UNCHANGED <<edit, compiled, batches, batch, thread, slot, faulty, written>>

(* run, on success: take_fault and note_fault, then the output is written  *)
(* to the node's station and processed is forwarded.                       *)
batch_done(n) ==
  /\ waiting[n] = "ok" /\ waiting' = [waiting EXCEPT ![n] = "recv"]
  /\ slot' = FALSE
  /\ faulty' = IF slot THEN faulty \cup {n} ELSE faulty \ {n}
  /\ inError' = IF slot THEN inError \cup {n} ELSE IF n \in faulty THEN inError \ {n} ELSE inError
  /\ written' = written \cup {batch[n]}
  /\ UNCHANGED <<edit, compiled, batches, batch, thread>>

ScriptNext ==
  \/ edit_script
  \/ \E n \in Transforms : receive(n) \/ timed_out(n) \/ batch_failed(n) \/ batch_done(n)
  \/ \E j \in Jobs :
       \/ source_fingerprint(j) \/ acquire_any(j) \/ compile(j) \/ native_fault(j) \/ station_write(j)
       \/ \E result \in {"ok", "err"} : finish(j, result)

ScriptSpec == ScriptInit /\ [][ScriptNext]_scriptvars

(***************************************************************************)
(* "editing a script is picked up by the next batch": a batch runs a text  *)
(* no older than the one that was on disk when it began, although mtime    *)
(* and text are read apart and threads overlap.                            *)
(***************************************************************************)
PickedUp == \A j \in Jobs : thread[j].at = "run" => thread[j].ast >= thread[j].began

=============================================================================
