----------------------------- MODULE ServerApi -----------------------------
(***************************************************************************)
(* The calls that change a running server: the GraphQL mutations of        *)
(* api/repl/v1.rs, the audit trail of api/mod.rs, the attribute and        *)
(* station tables of opsense-core's context.rs, and the host calls that    *)
(* loaded modules make (serve.rs).  Handlers run concurrently and hold the *)
(* runtime's lock only around one read or one reload, so every await that  *)
(* separates two of them is a step boundary here.                          *)
(***************************************************************************)
EXTENDS Naturals, Sequences

CONSTANTS Nodes,     \* component ids
          Settings,  \* values of the one setting of a component that is edited
          Names,     \* attribute names
          Clients,   \* concurrent callers
          MaxEdits   \* bound: edits started in a run

VARIABLES pipeline,  \* the running components: id -> setting
          attrs,     \* the attribute table: name -> value
          audit_st,  \* the audit station in the station table, or 0
          rows,      \* per opened audit station its rows
          req,       \* per client the call it is in
          edits,     \* number of edits started, names the next audit row
          trail,     \* rows whose audit call has returned without a warning
          owed       \* history: patches answered with reloaded and not edited since

avars == <<pipeline, attrs, audit_st, rows, req, edits, trail, owed>>

NoReq == [at |-> "free", id |-> 0, to |-> 0, seen |-> <<>>, row |-> 0, st |-> 0]
Lists == UNION {[S -> Settings] : S \in (SUBSET Nodes) \ {{}}}

ApiInit ==
    /\ pipeline = [n \in Nodes |-> CHOOSE v \in Settings : TRUE]
    /\ attrs = [n \in {} |-> 0]
    /\ audit_st = 0
    /\ rows = <<>>
    /\ req = [c \in Clients |-> NoReq]
    /\ edits = 0
    /\ trail = {}
    /\ owed = {}

At(c, place) == req[c].at = place
Go(c, r) == req' = [req EXCEPT ![c] = r]
Answer(c) == Go(c, NoReq)

\* components(): a snapshot of the running list under the read lock.
components == pipeline

\* Runtime::reload takes the whole list or none of it (PipelineReload); a
\* list it refuses leaves the runtime as it was and the caller gets the error.
Reloaded(list) == pipeline' = list

-----------------------------------------------------------------------------
\* Mutation.reload: the caller's list replaces the pipeline.  Components that
\* do not parse are refused before the runtime is asked.
reload(c) ==
    /\ At(c, "free")
    /\ \E list \in Lists :
         /\ Reloaded(list)
         /\ owed' = {}
    /\ UNCHANGED <<attrs, audit_st, rows, req, edits, trail>>

\* Mutation.patchComponent, first read: the target as it is now.  No such
\* node, a value that is no JSON or a bad path end the call.
ReadTarget(c) ==
    /\ At(c, "free")
    /\ edits < MaxEdits
    /\ \E n \in DOMAIN components, v \in Settings :
         /\ edits' = edits + 1
         /\ IF components[n] = v
            THEN UNCHANGED req                       \* nothing to change: reloaded = false
            ELSE Go(c, [NoReq EXCEPT !.at = "patch", !.id = n, !.to = v, !.row = edits + 1])
    /\ UNCHANGED <<pipeline, attrs, audit_st, rows, trail, owed>>

\* Second read: all components, with the patched one in its slot.
ReadAll(c) ==
    /\ At(c, "patch")
    /\ IF req[c].id \in DOMAIN components
       THEN Go(c, [req[c] EXCEPT !.at = "submit", !.seen = [components EXCEPT ![req[c].id] = req[c].to]])
       ELSE Answer(c)
    /\ UNCHANGED <<pipeline, attrs, audit_st, rows, edits, trail, owed>>

\* The write lock is taken only now, for the reload of the list built before.
Submit(c) ==
    /\ At(c, "submit")
    /\ \/ /\ Reloaded(req[c].seen)
          /\ owed' = {e \in owed : e.id # req[c].id} \cup
               {[id |-> req[c].id, to |-> req[c].to, raced |-> \E d \in Clients \ {c} : At(d, "submit")]}
          /\ Go(c, [req[c] EXCEPT !.at = "audit", !.seen = <<>>])
       \/ Answer(c) /\ UNCHANGED <<pipeline, owed>>  \* refused
    /\ UNCHANGED <<attrs, audit_st, rows, edits, trail>>

\* A module may ask the host to write an audit row of its own.
HostAudit(c) ==
    /\ At(c, "free")
    /\ edits < MaxEdits
    /\ edits' = edits + 1
    /\ Go(c, [NoReq EXCEPT !.at = "audit", !.row = edits + 1])
    /\ UNCHANGED <<pipeline, attrs, audit_st, rows, trail, owed>>

-----------------------------------------------------------------------------
\* audit(): the station is looked up and, the first time, opened and put in
\* the table; between the look-up and the registration others do the same.
AuditLookup(c) ==
    /\ At(c, "audit")
    /\ Go(c, IF audit_st = 0 THEN [req[c] EXCEPT !.at = "open"] ELSE [req[c] EXCEPT !.at = "write", !.st = audit_st])
    /\ UNCHANGED <<pipeline, attrs, audit_st, rows, edits, trail, owed>>

\* from_storage: a station of its own over the same storage, or a warning.
AuditOpen(c) ==
    /\ At(c, "open")
    /\ \/ /\ rows' = Append(rows, {})
          /\ Go(c, [req[c] EXCEPT !.at = "register", !.st = Len(rows) + 1])
       \/ Answer(c) /\ UNCHANGED rows
    /\ UNCHANGED <<pipeline, attrs, audit_st, edits, trail, owed>>

\* Context::registry: the first one in wins, under the table's write lock.
registry(st) == audit_st' = IF audit_st = 0 THEN st ELSE audit_st

\* The late comer goes on with the station it has just opened.
AuditRegister_OwnHandle(c) ==
    /\ At(c, "register")
    /\ registry(req[c].st)
    /\ Go(c, [req[c] EXCEPT !.at = "write"])
    /\ UNCHANGED <<pipeline, attrs, rows, edits, trail, owed>>

\* AlreadyExists is no error here: the station is fetched again.
AuditRegister(c) ==
    /\ At(c, "register")
    /\ registry(req[c].st)
    /\ Go(c, [req[c] EXCEPT !.at = "audit"])
    /\ UNCHANGED <<pipeline, attrs, rows, edits, trail, owed>>

AuditWrite(c) ==
    /\ At(c, "write")
    /\ rows' = [rows EXCEPT ![req[c].st] = @ \cup {req[c].row}]
    /\ trail' = trail \cup {req[c].row}
    /\ Answer(c)
    /\ UNCHANGED <<pipeline, attrs, audit_st, edits, owed>>

-----------------------------------------------------------------------------
\* Attributes are one table under one lock; the environment is read once.
set_attribute(c) ==
    /\ At(c, "free")
    /\ \E n \in Names : attrs' = [x \in DOMAIN attrs \cup {n} |-> IF x = n THEN 1 ELSE attrs[x]]
    /\ UNCHANGED <<pipeline, audit_st, rows, req, edits, trail, owed>>

remove_attribute(c) ==
    /\ At(c, "free")
    /\ \E n \in DOMAIN attrs : attrs' = [x \in DOMAIN attrs \ {n} |-> attrs[x]]
    /\ UNCHANGED <<pipeline, audit_st, rows, req, edits, trail, owed>>

\* clearStation: the station leaves the table's lock before it is emptied.
clear_station(c) ==
    /\ At(c, "free")
    /\ audit_st # 0
    /\ Go(c, [NoReq EXCEPT !.at = "clear", !.st = audit_st])
    /\ UNCHANGED <<pipeline, attrs, audit_st, rows, edits, trail, owed>>

\* clearAllStations: the table is copied, then its stations are emptied one by
\* one; an empty table is answered at once, and so is one whose station fails.
clear_all_stations(c) ==
    /\ At(c, "free")
    /\ IF audit_st = 0 THEN UNCHANGED req ELSE Go(c, [NoReq EXCEPT !.at = "clear", !.st = audit_st])
    /\ UNCHANGED <<pipeline, attrs, audit_st, rows, edits, trail, owed>>

ClearRows(c) ==
    /\ At(c, "clear")
    /\ rows' = [rows EXCEPT ![req[c].st] = {}]
    /\ trail' = {}
    /\ Answer(c)
    /\ UNCHANGED <<pipeline, attrs, audit_st, edits, owed>>

ApiNext == \E c \in Clients :
    \/ reload(c) \/ ReadTarget(c) \/ ReadAll(c) \/ Submit(c)
    \/ HostAudit(c) \/ AuditLookup(c) \/ AuditOpen(c) \/ AuditRegister(c) \/ AuditWrite(c)
    \/ set_attribute(c) \/ remove_attribute(c) \/ clear_station(c) \/ clear_all_stations(c) \/ ClearRows(c)

ApiSpec == ApiInit /\ [][ApiNext]_avars

-----------------------------------------------------------------------------
\* Every audit row that was written without a warning can be read back from
\* the station in the table, however many callers opened one at first; only a
\* clear takes rows away.
AuditKept == trail \subseteq (IF audit_st = 0 THEN {} ELSE rows[audit_st])

\* A patch that was answered with reloaded is in force until somebody edits
\* that node again or replaces the whole list, unless another patch had read
\* the list when it was submitted: the handlers lose an update in no other way.
PatchLostOnlyByRace ==
    \A e \in owed : e.raced \/ (e.id \in DOMAIN pipeline => pipeline[e.id] = e.to)

\* What a caller was told is done stays done.
EditsKept == AuditKept /\ PatchLostOnlyByRace
=============================================================================
