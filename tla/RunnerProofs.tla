---------------------------- MODULE RunnerProofs ----------------------------
(***************************************************************************)
(* Proofs about KernelRunner: which kernels the registry knows of, and     *)
(* whose events an answer holds.                                           *)
(***************************************************************************)
EXTENDS KernelRunner, SequenceTheorems, TLAPS

-----------------------------------------------------------------------------
(* Records.  Requests and calls are changed one field at a time.           *)

Messages == {"hello", "start", "code", "interrupt", "close", "welcome", "handle", "ack", "event"}
AllKinds == Kinds \cup {None, "done", "cancelled", "plain", "other"}
Envelopes == [msg : Messages, request : Requests \cup {NoRequest}, kind : AllKinds]

Ops == {"idle", "start", "verify", "execute", "interrupt", "close"}
Pre == {"handshake", "session", "insert"}
Pcs == Pre \cup {"idle", "lock", "register", "challenge", "compare", "drain", "kill", "forget"}

CallRecs == [op : Ops, pc : Pcs, session : Sessions \cup {None}, request : Requests \cup {NoRequest},
             kind : AllKinds, timeout : BOOLEAN, events : Seq(Envelopes)]

SetOp(r, x) == [r EXCEPT !.op = x]
SetPc(r, x) == [r EXCEPT !.pc = x]
SetSession(r, x) == [r EXCEPT !.session = x]
SetRequest(r, x) == [r EXCEPT !.request = x]
SetKind(r, x) == [r EXCEPT !.kind = x]
SetTimeout(r, x) == [r EXCEPT !.timeout = x]
SetEvents(r, x) == [r EXCEPT !.events = x]

\* Fields that steps depend on: all but kind and timeout.
SameFields(r, q, F) ==
  /\ "op" \notin F => r.op = q.op
  /\ "pc" \notin F => r.pc = q.pc
  /\ "session" \notin F => r.session = q.session
  /\ "request" \notin F => r.request = q.request
  /\ "events" \notin F => r.events = q.events

LEMMA CallFields ==
  ASSUME NEW r \in CallRecs
  PROVE  /\ \A x \in Ops : SetOp(r, x) \in CallRecs /\ SetOp(r, x).op = x /\ SameFields(SetOp(r, x), r, {"op"})
         /\ \A x \in Pcs : SetPc(r, x) \in CallRecs /\ SetPc(r, x).pc = x /\ SameFields(SetPc(r, x), r, {"pc"})
         /\ \A x \in Sessions : /\ SetSession(r, x) \in CallRecs /\ SetSession(r, x).session = x
                                /\ SameFields(SetSession(r, x), r, {"session"})
         /\ \A x \in Requests : /\ SetRequest(r, x) \in CallRecs /\ SetRequest(r, x).request = x
                                /\ SameFields(SetRequest(r, x), r, {"request"})
         /\ \A x \in AllKinds : SetKind(r, x) \in CallRecs /\ SameFields(SetKind(r, x), r, {})
         /\ \A x \in BOOLEAN : SetTimeout(r, x) \in CallRecs /\ SameFields(SetTimeout(r, x), r, {})
         /\ \A x \in Seq(Envelopes) : /\ SetEvents(r, x) \in CallRecs /\ SetEvents(r, x).events = x
                                      /\ SameFields(SetEvents(r, x), r, {"events"})
<1>1. \A x \in Ops : SetOp(r, x) \in CallRecs /\ SetOp(r, x).op = x /\ SameFields(SetOp(r, x), r, {"op"})
  BY DEF SetOp, CallRecs, SameFields
<1>2. \A x \in Pcs : SetPc(r, x) \in CallRecs /\ SetPc(r, x).pc = x /\ SameFields(SetPc(r, x), r, {"pc"})
  BY DEF SetPc, CallRecs, SameFields
<1>3. \A x \in Sessions : /\ SetSession(r, x) \in CallRecs /\ SetSession(r, x).session = x
                          /\ SameFields(SetSession(r, x), r, {"session"})
  BY DEF SetSession, CallRecs, SameFields
<1>4. \A x \in Requests : /\ SetRequest(r, x) \in CallRecs /\ SetRequest(r, x).request = x
                          /\ SameFields(SetRequest(r, x), r, {"request"})
  BY DEF SetRequest, CallRecs, SameFields
<1>5. \A x \in AllKinds : SetKind(r, x) \in CallRecs /\ SameFields(SetKind(r, x), r, {})
  BY DEF SetKind, CallRecs, SameFields
<1>6. \A x \in BOOLEAN : SetTimeout(r, x) \in CallRecs /\ SameFields(SetTimeout(r, x), r, {})
  BY DEF SetTimeout, CallRecs, SameFields
<1>7. \A x \in Seq(Envelopes) : /\ SetEvents(r, x) \in CallRecs /\ SetEvents(r, x).events = x
                                /\ SameFields(SetEvents(r, x), r, {"events"})
  BY DEF SetEvents, CallRecs, SameFields
<1>8. QED  BY <1>1, <1>2, <1>3, <1>4, <1>5, <1>6, <1>7

LEMMA IdleCall ==
  /\ Idle \in CallRecs /\ Idle.op = "idle" /\ Idle.pc = "idle" /\ Idle.events = <<>>
<1>1. <<>> \in Seq(Envelopes)
  OBVIOUS
<1>2. None \in AllKinds
  BY DEF AllKinds
<1>3. "idle" \in Ops /\ "idle" \in Pcs
  BY DEF Ops, Pcs
<1>4. QED  BY <1>1, <1>2, <1>3 DEF Idle, CallRecs

\* A task begins at the mutex, without events.
LEMMA TaskCall ==
  ASSUME NEW o \in Ops, NEW s \in Sessions
  PROVE  /\ Task(o, s) \in CallRecs /\ Task(o, s).op = o /\ Task(o, s).pc = "lock" /\ Task(o, s).session = s
         /\ Task(o, s).events = <<>>
<1>1. Task(o, s) = SetSession(SetPc(SetOp(Idle, o), "lock"), s)
  BY DEF Task, SetSession, SetPc, SetOp
<1>2. /\ SetOp(Idle, o) \in CallRecs /\ SetOp(Idle, o).op = o /\ SetOp(Idle, o).events = <<>>
  BY IdleCall, CallFields DEF SameFields
<1>3. "lock" \in Pcs
  BY DEF Pcs
<1>4. /\ SetPc(SetOp(Idle, o), "lock") \in CallRecs /\ SetPc(SetOp(Idle, o), "lock").op = o
      /\ SetPc(SetOp(Idle, o), "lock").pc = "lock" /\ SetPc(SetOp(Idle, o), "lock").events = <<>>
  BY <1>2, <1>3, CallFields DEF SameFields
<1>5. QED  BY <1>1, <1>4, CallFields DEF SameFields

-----------------------------------------------------------------------------
(***************************************************************************)
(* The two maps.  A session is launched once its process was spawned and   *)
(* its Start is past the insertion; it stays so, because an id is started  *)
(* once.  Whatever is in a map, is swept or is being closed is launched,   *)
(* so nothing that was taken out of the map of kernels comes back.         *)
(***************************************************************************)
LiveMetas == [idle : BOOLEAN, role : {None, "role"}, asked : {None, "role"}, challenge : {None, "plain"}]
Procs == {"unborn", "spawned", "live", "closing", "dead"}

Known(s) == meta[s] # NoMeta

Launched(s) == proc[s] # "unborn" /\ \A c \in Calls : call[c].session = s => call[c].pc \notin Pre

CallOk(r) ==
  /\ r.pc \in Pre \cup {"register", "challenge"} <=> r.op = "start"
  /\ r.pc # "idle" => r.session \in Sessions
  /\ r.pc \in Pre => proc[r.session] # "unborn"
  /\ r.pc \in {"register", "challenge", "kill", "forget"} => Launched(r.session)
  /\ r.pc \in {"kill", "forget"} => r.session \notin kernels
  /\ r.pc = "challenge" => Known(r.session) \/ r.session \notin kernels

Starting(s) == \E c \in Calls : call[c].op = "start" /\ call[c].session = s

StartedOnce ==
  \A c, d \in Calls : call[c].op = "start" /\ call[d].op = "start" /\ call[c].session = call[d].session => c = d

TrackTypes ==
  /\ call \in [Calls -> CallRecs] /\ meta \in [Sessions -> LiveMetas \cup {NoMeta}] /\ proc \in [Sessions -> Procs]
  /\ kernels \subseteq Sessions
  /\ sweep \in [pc : {"tick", "next", "kill", "forget"}, left : SUBSET Sessions, at : Sessions \cup {None}]

KernelRecs == [pc : {"loop", "sleeping"}, request : Requests \cup {NoRequest}, inbox : Seq(Envelopes)]

PipeTypes ==
  /\ toKernel \in [Sessions -> Seq(Envelopes)] /\ toHost \in [Sessions -> Seq(Envelopes)]
  /\ kernel \in [Sessions -> KernelRecs]

SweepOk ==
  /\ \A s \in sweep.left : Launched(s)
  /\ sweep.pc \in {"kill", "forget"} => sweep.at \in Sessions /\ sweep.at \notin kernels /\ Launched(sweep.at)

TrackInv ==
  /\ TrackTypes /\ SweepOk /\ StartedOnce /\ KernelsTracked
  /\ \A s \in kernels : Launched(s)
  /\ \A s \in Sessions : Known(s) => Launched(s)
  /\ \A c \in Calls : CallOk(call[c])

LEMMA TrackStart == RInit => TrackInv
<1> SUFFICES ASSUME RInit PROVE TrackInv
  OBVIOUS
<1>1. TrackTypes
  BY IdleCall DEF RInit, TrackTypes, Procs
<1>2. SweepOk /\ StartedOnce /\ KernelsTracked
  BY IdleCall DEF RInit, SweepOk, StartedOnce, KernelsTracked
<1>3. \A c \in Calls : CallOk(call[c])
  BY IdleCall DEF RInit, CallOk, Pre
<1>4. QED  BY <1>1, <1>2, <1>3 DEF RInit, TrackInv, Known

\* What is alive in the registry differs from what is not.
LEMMA LiveIsKnown == NoMeta \notin LiveMetas
  BY DEF NoMeta, LiveMetas, None

\* One call goes on or ends; the maps and the sweeper stay.
LEMMA CallMoves ==
  ASSUME TrackInv, NEW c \in Calls, NEW r \in CallRecs, call' = [call EXCEPT ![c] = r],
         UNCHANGED <<kernels, sweep>>, cancelled \subseteq cancelled',
         meta' \in [Sessions -> LiveMetas \cup {NoMeta}], proc' \in [Sessions -> Procs],
         \A s \in Sessions : Known(s)' <=> Known(s),
         \A s \in Sessions : proc[s] # "unborn" => proc'[s] # "unborn",
         r.op = "start" => r.session = call[c].session /\ r.pc \in Pre /\ call[c].pc \in Pre,
         r.pc \in Pre => r.op = "start",
         r.pc \notin {"register", "challenge", "kill", "forget"},
         r.pc # "idle" => r.session \in Sessions,
         call[c].op = "start" /\ r.op # "start" =>
           \/ call[c].session \notin kernels \/ Known(call[c].session) \/ call[c].session \in cancelled'
  PROVE  TrackInv'
<1>1. \A d \in Calls : call'[d] = IF d = c THEN r ELSE call[d]
  BY DEF TrackInv, TrackTypes
<1>2. TrackTypes'
  BY DEF TrackInv, TrackTypes
<1>3. ASSUME NEW s \in Sessions, Launched(s) PROVE Launched(s)'
  <2>1. \A d \in Calls : call'[d].session = s /\ call'[d].pc \in Pre => call[d].session = s /\ call[d].pc \in Pre
    BY <1>1
  <2>2. proc'[s] # "unborn"
    BY <1>3 DEF Launched
  <2>3. QED  BY <1>3, <2>1, <2>2 DEF Launched
<1>4. SweepOk'
  BY <1>3 DEF TrackInv, TrackTypes, SweepOk
<1>5. StartedOnce'
  BY <1>1 DEF TrackInv, StartedOnce, CallOk
<1>6. KernelsTracked'
  BY <1>1, <1>2 DEF TrackInv, TrackTypes, KernelsTracked, Known
<1>7. \A s \in kernels' : Launched(s)'
  BY <1>3 DEF TrackInv, TrackTypes
<1>8. \A s \in Sessions : Known(s)' => Launched(s)'
  BY <1>3 DEF TrackInv
<1>9. ASSUME NEW d \in Calls PROVE CallOk(call[d])'
  <2>1. CASE d = c
    <3>1. call'[d] = r /\ CallOk(call[c])
      BY <1>1, <2>1 DEF TrackInv
    <3>2. r.pc \in Pre => proc'[r.session] # "unborn"
      BY <3>1 DEF CallOk, Pre
    <3>3. QED  BY <3>1, <3>2 DEF CallOk, Pre
  <2>2. CASE d # c
    <3>1. call'[d] = call[d] /\ CallOk(call[d])
      BY <1>1, <2>2 DEF TrackInv
    <3>2. call[d].pc # "idle" => call[d].session \in Sessions
      BY <3>1 DEF CallOk
    <3>3. QED  BY <1>3, <3>1, <3>2 DEF CallOk, Pre
  <2>3. QED  BY <2>1, <2>2
<1>10. QED  BY <1>2, <1>4, <1>5, <1>6, <1>7, <1>8, <1>9 DEF TrackInv

-----------------------------------------------------------------------------
(* Entries of the registry stay entries.                                   *)

SetIdle(m, x) == [m EXCEPT !.idle = x]
SetRole(m, x) == [m EXCEPT !.role = x]
SetAsked(m, x) == [m EXCEPT !.asked = x]
SetChallenge(m, x) == [m EXCEPT !.challenge = x]

LEMMA MetaFields ==
  ASSUME NEW m \in LiveMetas
  PROVE  /\ \A x \in BOOLEAN : SetIdle(m, x) \in LiveMetas
         /\ \A x \in {None, "role"} : SetRole(m, x) \in LiveMetas /\ SetAsked(m, x) \in LiveMetas
         /\ \A x \in {None, "plain"} : SetChallenge(m, x) \in LiveMetas
         /\ m.asked \in {None, "role"} /\ m.role \in {None, "role"}
<1>1. \A x \in BOOLEAN : SetIdle(m, x) \in LiveMetas
  BY DEF SetIdle, LiveMetas
<1>2. \A x \in {None, "role"} : SetRole(m, x) \in LiveMetas
  BY DEF SetRole, LiveMetas
<1>3. \A x \in {None, "role"} : SetAsked(m, x) \in LiveMetas
  BY DEF SetAsked, LiveMetas
<1>4. \A x \in {None, "plain"} : SetChallenge(m, x) \in LiveMetas
  BY DEF SetChallenge, LiveMetas
<1>5. QED  BY <1>1, <1>2, <1>3, <1>4 DEF LiveMetas

LEMMA EntryStays ==
  ASSUME TrackInv, NEW s \in Sessions, Known(s), NEW m \in LiveMetas, meta' = [meta EXCEPT ![s] = m]
  PROVE  /\ meta' \in [Sessions -> LiveMetas \cup {NoMeta}]
         /\ \A t \in Sessions : Known(t)' <=> Known(t)
  BY LiveIsKnown DEF TrackInv, TrackTypes, Known

LEMMA RegistryStays ==
  ASSUME TrackInv, meta' = meta
  PROVE  /\ meta' \in [Sessions -> LiveMetas \cup {NoMeta}]
         /\ \A t \in Sessions : Known(t)' <=> Known(t)
  BY DEF TrackInv, TrackTypes, Known

LEMMA TouchStays ==
  ASSUME TrackInv, NEW s \in Sessions, touch(s)
  PROVE  /\ meta' \in [Sessions -> LiveMetas \cup {NoMeta}]
         /\ \A t \in Sessions : Known(t)' <=> Known(t)
<1>1. CASE meta[s] = NoMeta
  BY <1>1, RegistryStays DEF touch
<1>2. CASE meta[s] # NoMeta
  <2>1. meta[s] \in LiveMetas /\ Known(s)
    BY <1>2 DEF TrackInv, TrackTypes, Known
  <2>2. SetIdle(meta[s], FALSE) \in LiveMetas
    BY <2>1, MetaFields
  <2>3. meta' = [meta EXCEPT ![s] = SetIdle(meta[s], FALSE)]
    BY <1>2 DEF touch, SetIdle
  <2>4. QED  BY <2>1, <2>2, <2>3, EntryStays
<1>3. QED  BY <1>1, <1>2

-----------------------------------------------------------------------------
(* The calls that touch neither of the maps.                               *)

LEMMA Ends ==
  ASSUME TrackInv, NEW c \in Calls, Finish(c), UNCHANGED <<kernels, sweep>>, cancelled \subseteq cancelled',
         meta' \in [Sessions -> LiveMetas \cup {NoMeta}], proc' \in [Sessions -> Procs],
         \A s \in Sessions : Known(s)' <=> Known(s),
         \A s \in Sessions : proc[s] # "unborn" => proc'[s] # "unborn",
         call[c].op = "start" =>
           \/ call[c].session \notin kernels \/ Known(call[c].session) \/ call[c].session \in cancelled'
  PROVE  TrackInv'
<1>1. call' = [call EXCEPT ![c] = Idle]
  BY DEF Finish
<1>2. /\ Idle \in CallRecs /\ Idle.op # "start" /\ Idle.pc = "idle"
      /\ Idle.pc \notin Pre /\ Idle.pc \notin {"register", "challenge", "kill", "forget"}
  BY IdleCall DEF Pre
<1>3. QED  BY <1>1, <1>2, CallMoves

LEMMA Begins ==
  ASSUME TrackInv, NEW c \in Calls, NEW r \in CallRecs, Begin(c, r), UNCHANGED <<kernels, sweep, proc, cancelled>>,
         meta' \in [Sessions -> LiveMetas \cup {NoMeta}], \A s \in Sessions : Known(s)' <=> Known(s),
         r.pc \in {"lock", "compare"}, r.op # "start", r.session \in Sessions
  PROVE  TrackInv'
<1>1. call' = [call EXCEPT ![c] = r] /\ call[c].pc = "idle"
  BY DEF Begin
<1>2. call[c].op # "start"
  BY <1>1 DEF TrackInv, CallOk, Pre
<1>3. r.pc \notin Pre /\ r.pc \notin {"register", "challenge", "kill", "forget"}
  BY DEF Pre
<1>4. proc' \in [Sessions -> Procs] /\ \A s \in Sessions : proc[s] # "unborn" => proc'[s] # "unborn"
  BY DEF TrackInv, TrackTypes
<1>5. QED  BY <1>1, <1>2, <1>3, <1>4, CallMoves

LEMMA NewCalls ==
  ASSUME TrackInv, NEW c \in Calls, NEW s \in Sessions,
         \/ Interrupt(c, s) \/ Close(c, s)
         \/ \E response \in {"plain", "other"} : Verify(c, s, response)
         \/ \E r \in Requests, kind \in Kinds : Execute(c, s, r, kind)
  PROVE  TrackInv'
<1>1. \A o \in Ops : /\ Task(o, s) \in CallRecs /\ Task(o, s).op = o /\ Task(o, s).pc = "lock"
                     /\ Task(o, s).session = s
  BY TaskCall
<1>2. CASE Interrupt(c, s)
  <2>1. "interrupt" \in Ops
    BY DEF Ops
  <2>2. Begin(c, Task("interrupt", s)) /\ touch(s) /\ UNCHANGED <<kernels, sweep, proc, cancelled>>
    BY <1>2 DEF Interrupt
  <2>3. QED  BY <1>1, <2>1, <2>2, TouchStays, Begins
<1>3. CASE Close(c, s)
  <2>1. "close" \in Ops
    BY DEF Ops
  <2>2. Begin(c, Task("close", s)) /\ touch(s) /\ UNCHANGED <<kernels, sweep, proc, cancelled>>
    BY <1>3 DEF Close
  <2>3. QED  BY <1>1, <2>1, <2>2, TouchStays, Begins
<1>4. ASSUME NEW response \in {"plain", "other"}, Verify(c, s, response) PROVE TrackInv'
  <2> DEFINE r == SetKind(SetPc(Task("verify", s), "compare"), response)
             m == SetChallenge(SetIdle(meta[s], FALSE), None)
  <2>1. "verify" \in Ops /\ "compare" \in Pcs /\ response \in AllKinds
    BY DEF Ops, Pcs, AllKinds
  <2>2. r \in CallRecs /\ r.op = "verify" /\ r.pc = "compare" /\ r.session = s
    <3> DEFINE q == SetPc(Task("verify", s), "compare")
    <3>1. q \in CallRecs /\ q.pc = "compare" /\ SameFields(q, Task("verify", s), {"pc"})
      BY <1>1, <2>1, CallFields
    <3>2. q.op = "verify" /\ q.session = s
      BY <1>1, <2>1, <3>1 DEF SameFields
    <3> HIDE DEF q
    <3>3. SetKind(q, response) \in CallRecs /\ SameFields(SetKind(q, response), q, {})
      BY <2>1, <3>1, CallFields
    <3>4. QED  BY <3>1, <3>2, <3>3 DEF SameFields, q
  <2>3. /\ Begin(c, r) /\ Known(s) /\ UNCHANGED <<kernels, sweep, proc, cancelled>>
    BY <1>4 DEF Verify, Known, SetKind, SetPc
  <2>4. meta[s] \in LiveMetas
    BY <2>3 DEF TrackInv, TrackTypes, Known
  <2>5. meta' = [meta EXCEPT ![s] = m]
    <3>1. meta' = [meta EXCEPT ![s].idle = FALSE, ![s].challenge = None]
      BY <1>4 DEF Verify
    <3> DEFINE first == [meta EXCEPT ![s] = SetIdle(meta[s], FALSE)]
    <3>2. first = [meta EXCEPT ![s].idle = FALSE]
      BY DEF SetIdle
    <3>3. meta' = [first EXCEPT ![s].challenge = None]
      BY <3>1, <3>2
    <3>4. meta' = [first EXCEPT ![s] = SetChallenge(first[s], None)]
      BY <3>3 DEF SetChallenge
    <3>5. first[s] = SetIdle(meta[s], FALSE)
      BY DEF TrackInv, TrackTypes
    <3>6. [first EXCEPT ![s] = SetChallenge(first[s], None)] = [meta EXCEPT ![s] = SetChallenge(first[s], None)]
      BY DEF TrackInv, TrackTypes
    <3>7. QED  BY <3>4, <3>5, <3>6
  <2>6. m \in LiveMetas
    BY <2>4, MetaFields
  <2> HIDE DEF r, m
  <2>7. QED  BY <2>2, <2>3, <2>5, <2>6, EntryStays, Begins
<1>5. ASSUME NEW q \in Requests, NEW kind \in Kinds, Execute(c, s, q, kind) PROVE TrackInv'
  <2>1. PICK timed \in BOOLEAN :
          Begin(c, [Task("execute", s) EXCEPT !.request = q, !.kind = kind, !.timeout = timed])
    BY <1>5 DEF Execute
  <2> DEFINE r == SetTimeout(SetKind(SetRequest(Task("execute", s), q), kind), timed)
  <2>2. Begin(c, r) /\ touch(s) /\ UNCHANGED <<kernels, sweep, proc, cancelled>>
    BY <1>5, <2>1 DEF Execute, SetTimeout, SetKind, SetRequest
  <2>3. "execute" \in Ops /\ kind \in AllKinds
    BY DEF Ops, AllKinds
  <2>4. /\ SetRequest(Task("execute", s), q) \in CallRecs
        /\ SameFields(SetRequest(Task("execute", s), q), Task("execute", s), {"request"})
    BY <1>1, <2>3, CallFields
  <2>5. r \in CallRecs /\ SameFields(r, SetRequest(Task("execute", s), q), {})
    BY <2>3, <2>4, CallFields DEF SameFields
  <2>6. r \in CallRecs /\ r.op = "execute" /\ r.pc = "lock" /\ r.session = s
    BY <1>1, <2>3, <2>4, <2>5 DEF SameFields
  <2> HIDE DEF r
  <2>7. QED  BY <2>2, <2>6, TouchStays, Begins
<1>6. QED  BY <1>2, <1>3, <1>4, <1>5

\* A Start that waits for its kernel has no kernel in the map.
LEMMA NotYetInserted ==
  ASSUME TrackInv, NEW c \in Calls, call[c].pc \in Pre
  PROVE  call[c].session \notin kernels /\ ~Known(call[c].session) /\ call[c].session \in Sessions
  BY DEF TrackInv, Launched, CallOk, Pre

LEMMA HandshakeKeeps ==
  ASSUME TrackInv, NEW c \in Calls, handshake(c) \/ start_session(c)
  PROVE  TrackInv'
<1>1. /\ UNCHANGED <<meta, kernels, proc, sweep, cancelled>> /\ call[c].pc \in Pre
      /\ Finish(c) \/ Goto(c, "session") \/ Goto(c, "insert")
  BY DEF handshake, start_session, pipes, Pre
<1>2. call[c].session \notin kernels /\ call[c].session \in Sessions /\ call[c].op = "start" /\ call[c] \in CallRecs
  BY <1>1, NotYetInserted DEF TrackInv, CallOk, TrackTypes
<1>3. /\ meta' \in [Sessions -> LiveMetas \cup {NoMeta}] /\ \A t \in Sessions : Known(t)' <=> Known(t)
      /\ proc' \in [Sessions -> Procs] /\ \A s \in Sessions : proc[s] # "unborn" => proc'[s] # "unborn"
      /\ cancelled \subseteq cancelled'
  BY <1>1, RegistryStays DEF TrackInv, TrackTypes
<1>4. CASE Finish(c)
  BY <1>1, <1>2, <1>3, <1>4, Ends
<1>5. ASSUME NEW x \in {"session", "insert"}, Goto(c, x) PROVE TrackInv'
  <2> DEFINE r == SetPc(call[c], x)
  <2>1. call' = [call EXCEPT ![c] = r]
    BY <1>5 DEF Goto, SetPc
  <2>2. x \in Pcs /\ x \in Pre /\ x \notin {"register", "challenge", "kill", "forget"}
    BY DEF Pcs, Pre
  <2>3. r \in CallRecs /\ r.pc = x /\ r.op = "start" /\ r.session = call[c].session
    BY <1>2, <2>2, CallFields DEF SameFields
  <2> HIDE DEF r
  <2>4. QED  BY <1>1, <1>2, <1>3, <2>1, <2>2, <2>3, CallMoves
<1>6. QED  BY <1>1, <1>4, <1>5

LEMMA ChallengeKeeps ==
  ASSUME TrackInv, NEW c \in Calls, attach_challenge(c) \/ verify_challenge(c)
  PROVE  TrackInv'
<1> DEFINE s == call[c].session
<1>1. /\ Finish(c) /\ UNCHANGED <<kernels, proc, sweep, cancelled>> /\ s \in Sessions
      /\ call[c].op = "start" => s \notin kernels \/ Known(s)
  BY DEF attach_challenge, verify_challenge, TrackInv, CallOk, Pre
<1>2. /\ proc' \in [Sessions -> Procs] /\ \A t \in Sessions : proc[t] # "unborn" => proc'[t] # "unborn"
      /\ cancelled \subseteq cancelled'
  BY <1>1 DEF TrackInv, TrackTypes
<1>3. meta' \in [Sessions -> LiveMetas \cup {NoMeta}] /\ \A t \in Sessions : Known(t)' <=> Known(t)
  <2>1. CASE meta[s] = NoMeta
    BY <2>1, RegistryStays DEF attach_challenge, verify_challenge
  <2>2. CASE meta[s] # NoMeta
    <3>1. Known(s) /\ meta[s] \in LiveMetas
      BY <1>1, <2>2 DEF TrackInv, TrackTypes, Known
    <3>2. CASE attach_challenge(c)
      <4> DEFINE m == [idle |-> FALSE, role |-> meta[s].role, asked |-> "role", challenge |-> "plain"]
      <4>1. m \in LiveMetas /\ meta' = [meta EXCEPT ![s] = m]
        BY <2>2, <3>1, <3>2 DEF LiveMetas, attach_challenge
      <4> HIDE DEF m
      <4>2. QED  BY <1>1, <3>1, <4>1, EntryStays
    <3>3. CASE verify_challenge(c) /\ call[c].kind = "plain"
      <4> DEFINE first == [meta EXCEPT ![s] = SetRole(meta[s], meta[s].asked)]
                 m == SetAsked(SetRole(meta[s], meta[s].asked), None)
      <4>1. meta' = [meta EXCEPT ![s].role = meta[s].asked, ![s].asked = None]
        BY <2>2, <3>3 DEF verify_challenge
      <4>2. first = [meta EXCEPT ![s].role = meta[s].asked]
        BY DEF SetRole
      <4>3. meta' = [first EXCEPT ![s].asked = None]
        BY <4>1, <4>2
      <4>4. meta' = [first EXCEPT ![s] = SetAsked(first[s], None)]
        BY <4>3 DEF SetAsked
      <4>5. first[s] = SetRole(meta[s], meta[s].asked)
        BY <1>1 DEF TrackInv, TrackTypes
      <4>6. [first EXCEPT ![s] = SetAsked(first[s], None)] = [meta EXCEPT ![s] = SetAsked(first[s], None)]
        BY <1>1 DEF TrackInv, TrackTypes
      <4>7. meta' = [meta EXCEPT ![s] = m]
        BY <4>4, <4>5, <4>6
      <4>8. m \in LiveMetas
        BY <3>1, MetaFields
      <4> HIDE DEF m
      <4>9. QED  BY <1>1, <3>1, <4>7, <4>8, EntryStays
    <3>4. CASE verify_challenge(c) /\ call[c].kind # "plain"
      <4>1. meta' = [meta EXCEPT ![s] = SetChallenge(meta[s], "plain")]
        BY <2>2, <3>4 DEF verify_challenge, SetChallenge
      <4>2. SetChallenge(meta[s], "plain") \in LiveMetas
        BY <3>1, MetaFields
      <4>3. QED  BY <1>1, <3>1, <4>1, <4>2, EntryStays
    <3>5. QED  BY <3>2, <3>3, <3>4
  <2>3. QED  BY <2>1, <2>2
<1>4. QED  BY <1>1, <1>2, <1>3, Ends

\* Calls that execute, interrupt, time out or end.
LEMMA ExecuteKeeps ==
  ASSUME TrackInv, PipeTypes, NEW c \in Calls, LockKernels(c) \/ Drain(c) \/ DrainClosed(c) \/ Timeout(c)
  PROVE  TrackInv'
<1>1. /\ UNCHANGED <<meta, kernels, proc, sweep, cancelled>> /\ call[c].pc \in {"lock", "drain"}
      /\ Finish(c) \/ Goto(c, "drain") \/ (Received(call[c].session) /\ drain(c, recv(call[c].session)))
  BY DEF LockKernels, Drain, DrainClosed, Timeout, pipes
<1>2. call[c].op # "start" /\ call[c].session \in Sessions /\ call[c] \in CallRecs
  BY <1>1 DEF TrackInv, TrackTypes, CallOk, Pre
<1>3. /\ meta' \in [Sessions -> LiveMetas \cup {NoMeta}] /\ \A t \in Sessions : Known(t)' <=> Known(t)
      /\ proc' \in [Sessions -> Procs] /\ \A s \in Sessions : proc[s] # "unborn" => proc'[s] # "unborn"
      /\ cancelled \subseteq cancelled'
  BY <1>1, RegistryStays DEF TrackInv, TrackTypes
<1>4. CASE Finish(c)
  BY <1>1, <1>2, <1>3, <1>4, Ends
<1>5. CASE Goto(c, "drain")
  <2> DEFINE r == SetPc(call[c], "drain")
  <2>1. call' = [call EXCEPT ![c] = r]
    BY <1>5 DEF Goto, SetPc
  <2>2. "drain" \in Pcs /\ "drain" \notin Pre /\ "drain" \notin {"register", "challenge", "kill", "forget"}
    BY DEF Pcs, Pre
  <2>3. r \in CallRecs /\ r.pc = "drain" /\ r.op = call[c].op /\ r.session = call[c].session
    BY <1>2, <2>2, CallFields DEF SameFields
  <2> HIDE DEF r
  <2>4. QED  BY <1>1, <1>2, <1>3, <2>1, <2>2, <2>3, CallMoves
<1>6. CASE Received(call[c].session) /\ drain(c, recv(call[c].session))
  <2> DEFINE more == Append(call[c].events, recv(call[c].session))
             r == SetEvents(call[c], more)
  <2>1. recv(call[c].session) \in Envelopes
    BY <1>2, <1>6 DEF Received, recv, PipeTypes
  <2>2. call[c].events \in Seq(Envelopes)
    BY <1>2 DEF CallRecs
  <2>3. more \in Seq(Envelopes)
    BY <2>1, <2>2
  <2>4. call' = [call EXCEPT ![c] = r]
    BY <1>6 DEF drain, SetEvents
  <2> HIDE DEF more
  <2>5. r \in CallRecs /\ r.pc = call[c].pc /\ r.op = call[c].op /\ r.session = call[c].session
    BY <1>2, <2>3, CallFields DEF SameFields
  <2> HIDE DEF r
  <2>6. r.pc \notin Pre /\ r.pc \notin {"register", "challenge", "kill", "forget"} /\ r.op # "start"
    BY <1>1, <1>2, <2>5 DEF Pre
  <2>7. QED  BY <1>1, <1>2, <1>3, <2>4, <2>5, <2>6, CallMoves
<1>7. QED  BY <1>1, <1>4, <1>5, <1>6

LEMMA CancelKeeps ==
  ASSUME TrackInv, NEW c \in Calls, Cancel(c)
  PROVE  TrackInv'
<1> DEFINE s == call[c].session
<1>1. /\ Finish(c) /\ UNCHANGED <<meta, kernels, sweep>>
      /\ proc' = IF s \in kernels THEN proc ELSE [proc EXCEPT ![s] = "dead"]
      /\ cancelled' = IF call[c].op = "start" THEN cancelled \cup {s} ELSE cancelled
  BY DEF Cancel
<1>2. proc' \in [Sessions -> Procs] /\ \A t \in Sessions : proc[t] # "unborn" => proc'[t] # "unborn"
  BY <1>1 DEF TrackInv, TrackTypes, Procs
<1>3. cancelled \subseteq cancelled' /\ (call[c].op = "start" => s \in cancelled')
  BY <1>1
<1>4. QED  BY <1>1, <1>2, <1>3, RegistryStays, Ends

\* A new Start: the one call that launches a session that was not launched.
LEMMA StartKeeps ==
  ASSUME TrackInv, NEW c \in Calls, NEW s \in Sessions, Start(c, s)
  PROVE  TrackInv'
<1>1. PICK ask \in BOOLEAN : Begin(c, [Task("start", s) EXCEPT !.pc = "handshake", !.timeout = ask])
  BY DEF Start
<1> DEFINE r == SetTimeout(SetPc(Task("start", s), "handshake"), ask)
<1>2. /\ call' = [call EXCEPT ![c] = r] /\ call[c].pc = "idle" /\ proc' = [proc EXCEPT ![s] = "spawned"]
      /\ UNCHANGED <<meta, kernels, sweep, cancelled>> /\ proc[s] = "unborn"
      /\ \A d \in Calls : ~(call[d].op = "start" /\ call[d].session = s)
  BY <1>1 DEF Start, Begin, SetTimeout, SetPc
<1>3. "start" \in Ops /\ "handshake" \in Pcs
  BY DEF Ops, Pcs, Pre
<1>4. /\ Task("start", s) \in CallRecs /\ Task("start", s).op = "start" /\ Task("start", s).session = s
  BY <1>3, TaskCall
<1>5. r \in CallRecs /\ r.op = "start" /\ r.pc = "handshake" /\ r.session = s
  <2> DEFINE q == SetPc(Task("start", s), "handshake")
  <2>1. q \in CallRecs /\ q.pc = "handshake" /\ SameFields(q, Task("start", s), {"pc"})
    BY <1>3, <1>4, CallFields
  <2>2. q.op = "start" /\ q.session = s
    BY <1>4, <2>1 DEF SameFields
  <2> HIDE DEF q
  <2>3. SetTimeout(q, ask) \in CallRecs /\ SameFields(SetTimeout(q, ask), q, {})
    BY <2>1, CallFields
  <2>4. QED  BY <2>1, <2>2, <2>3 DEF SameFields, q
<1> HIDE DEF r
<1>6. /\ \A d \in Calls : call'[d] = IF d = c THEN r ELSE call[d]
      /\ \A t \in Sessions : proc'[t] = IF t = s THEN "spawned" ELSE proc[t]
  BY <1>2 DEF TrackInv, TrackTypes
<1>7. TrackTypes'
  BY <1>2, <1>5 DEF TrackInv, TrackTypes, Procs
<1>8. ASSUME NEW t \in Sessions, Launched(t) PROVE Launched(t)' /\ t # s
  BY <1>2, <1>5, <1>6, <1>8 DEF Launched
<1>9. SweepOk'
  BY <1>2, <1>8 DEF TrackInv, TrackTypes, SweepOk
<1>10. StartedOnce'
  BY <1>2, <1>5, <1>6 DEF TrackInv, StartedOnce
<1>11. call[c].op # "start"
  BY <1>2 DEF TrackInv, CallOk, Pre
<1>12. KernelsTracked'
  BY <1>2, <1>6, <1>11 DEF TrackInv, KernelsTracked
<1>13. (\A t \in kernels' : Launched(t)') /\ \A t \in Sessions : Known(t)' => Launched(t)'
  BY <1>2, <1>8 DEF TrackInv, TrackTypes, Known
<1>14. ASSUME NEW d \in Calls PROVE CallOk(call[d])'
  <2>1. CASE d = c
    BY <1>5, <1>6, <2>1 DEF CallOk, Pre
  <2>2. CASE d # c
    <3>1. call'[d] = call[d] /\ CallOk(call[d]) /\ meta' = meta /\ kernels' = kernels
      BY <1>2, <1>6, <2>2 DEF TrackInv
    <3>2. call[d].pc # "idle" => call[d].session \in Sessions
      BY <3>1 DEF CallOk
    <3>3. call[d].pc \in Pre => proc'[call[d].session] # "unborn"
      BY <1>6, <3>1, <3>2 DEF CallOk, Pre
    <3>4. QED  BY <1>8, <3>1, <3>2, <3>3 DEF CallOk, Pre, Known
  <2>3. QED  BY <2>1, <2>2
<1>15. QED  BY <1>7, <1>9, <1>10, <1>12, <1>13, <1>14 DEF TrackInv

-----------------------------------------------------------------------------
(* The steps that change one of the maps.                                  *)

\* What the maps may do without disturbing the calls and the sweeper.
MapsStep ==
  /\ \A t \in Sessions : Launched(t) => Launched(t)'
  /\ \A t \in Sessions : proc[t] # "unborn" => proc'[t] # "unborn"
  /\ \A t \in kernels' : t \in kernels \/ ~Launched(t)
  /\ \A t \in Sessions : Known(t) => Known(t)' \/ t \notin kernels'

LEMMA OtherCall ==
  ASSUME TrackInv, MapsStep, NEW d \in Calls, call'[d] = call[d]
  PROVE  CallOk(call[d])'
<1>1. CallOk(call[d])
  BY DEF TrackInv
<1>2. call[d].pc # "idle" => call[d].session \in Sessions
  BY <1>1 DEF CallOk
<1>3. call[d].pc \in Pre => proc'[call[d].session] # "unborn"
  BY <1>1, <1>2 DEF CallOk, MapsStep, Pre
<1>4. call[d].pc \in {"register", "challenge", "kill", "forget"} => Launched(call[d].session) /\ Launched(call[d].session)'
  <2> SUFFICES ASSUME call[d].pc \in {"register", "challenge", "kill", "forget"}
               PROVE  Launched(call[d].session) /\ Launched(call[d].session)'
    OBVIOUS
  <2>1. call[d].session \in Sessions /\ Launched(call[d].session)
    BY <1>1, <1>2 DEF CallOk
  <2>2. \A t \in Sessions : t = call[d].session => Launched(t)'
    BY <2>1 DEF MapsStep
  <2>3. \A t \in Sessions : t = call'[d].session => Launched(t)'
    BY <2>2
  <2>4. QED  BY <2>1, <2>3 DEF Launched
<1>5. call[d].pc \in {"kill", "forget"} => call[d].session \notin kernels'
  BY <1>1, <1>2, <1>4 DEF CallOk, MapsStep
<1>6. call[d].pc = "challenge" => meta'[call[d].session] # NoMeta \/ call[d].session \notin kernels'
  BY <1>1, <1>2, <1>4 DEF CallOk, MapsStep, Known
<1>7. QED  BY <1>1, <1>2, <1>3, <1>4, <1>5, <1>6 DEF CallOk, Known, Launched

LEMMA SameSweep ==
  ASSUME TrackInv, MapsStep, sweep' = sweep
  PROVE  SweepOk'
  BY DEF TrackInv, TrackTypes, SweepOk, MapsStep

\* The kernel goes into the map.
LEMMA InsertKeeps ==
  ASSUME TrackInv, NEW c \in Calls, InsertKernel(c)
  PROVE  TrackInv'
<1>0. PICK s \in Sessions : s = call[c].session
  BY DEF InsertKernel, TrackInv, CallOk
<1> DEFINE r == SetPc(call[c], "register")
<1>1. /\ call[c].pc = "insert" /\ kernels' = kernels \cup {s} /\ call' = [call EXCEPT ![c] = r]
      /\ proc' = [proc EXCEPT ![s] = IF proc[s] = "dead" THEN proc[s] ELSE "live"]
      /\ UNCHANGED <<meta, sweep, cancelled>>
  BY <1>0 DEF InsertKernel, Goto, SetPc
<1>2. call[c].pc \in Pre /\ call[c].op = "start" /\ proc[s] # "unborn" /\ call[c] \in CallRecs
  BY <1>0, <1>1 DEF TrackInv, TrackTypes, CallOk, Pre
<1>3. r \in CallRecs /\ r.pc = "register" /\ r.op = "start" /\ r.session = s
  <2>1. "register" \in Pcs
    BY DEF Pcs
  <2>2. QED  BY <1>0, <1>2, <2>1, CallFields DEF SameFields
<1> HIDE DEF r
<1>4. /\ \A d \in Calls : call'[d] = IF d = c THEN r ELSE call[d]
      /\ proc'[s] # "unborn" /\ \A t \in Sessions : t # s => proc'[t] = proc[t]
      /\ proc' \in [Sessions -> Procs]
  BY <1>1, <1>2 DEF TrackInv, TrackTypes, Procs
<1>5. TrackTypes'
  BY <1>1, <1>2, <1>3, <1>4 DEF TrackInv, TrackTypes
<1>6. ~Launched(s)
  BY <1>0, <1>2 DEF Launched
<1>7. Launched(s)'
  <2>1. ASSUME NEW d \in Calls, call'[d].session = s PROVE call'[d].pc \notin Pre
    <3>1. CASE d = c
      BY <1>3, <1>4, <3>1 DEF Pre
    <3>2. CASE d # c
      <4>1. call'[d] = call[d] /\ CallOk(call[d])
        BY <1>4, <3>2 DEF TrackInv
      <4>2. ~(call[d].op = "start" /\ call[d].session = s)
        BY <1>0, <1>2, <3>2 DEF TrackInv, StartedOnce
      <4>3. QED  BY <2>1, <4>1, <4>2 DEF CallOk
    <3>3. QED  BY <3>1, <3>2
  <2>2. QED  BY <1>4, <2>1 DEF Launched
<1>8. ASSUME NEW t \in Sessions, Launched(t) PROVE Launched(t)'
  BY <1>3, <1>4, <1>6, <1>8 DEF Launched, Pre
<1>9. MapsStep
  BY <1>1, <1>2, <1>4, <1>6, <1>8 DEF MapsStep, Known
<1>10. StartedOnce'
  BY <1>0, <1>2, <1>3, <1>4 DEF TrackInv, StartedOnce
<1>11. KernelsTracked'
  BY <1>0, <1>1, <1>2, <1>3, <1>4 DEF TrackInv, KernelsTracked
<1>12. (\A t \in kernels' : Launched(t)') /\ \A t \in Sessions : Known(t)' => Launched(t)'
  BY <1>1, <1>7, <1>8 DEF TrackInv, TrackTypes, Known
<1>13. ASSUME NEW d \in Calls PROVE CallOk(call[d])'
  <2>1. CASE d = c
    <3>1. call'[d] = r /\ r.session \in Sessions
      BY <1>2, <1>3, <1>4, <2>1
    <3>2. QED  BY <1>3, <1>7, <3>1 DEF CallOk, Pre, Launched
  <2>2. CASE d # c
    BY <1>4, <1>9, <2>2, OtherCall
  <2>3. QED  BY <2>1, <2>2
<1>14. QED  BY <1>1, <1>5, <1>9, <1>10, <1>11, <1>12, <1>13, SameSweep DEF TrackInv

\* The invariant after a step of the maps and of one call.
LEMMA OneCallAndMaps ==
  ASSUME TrackInv, NEW c \in Calls, NEW r \in CallRecs, call' = [call EXCEPT ![c] = r], MapsStep, SweepOk',
         CallOk(r)', r.session = call[c].session \/ r.op # "start", r.op = "start" => call[c].op = "start",
         kernels' \subseteq kernels, cancelled \subseteq cancelled',
         meta' \in [Sessions -> LiveMetas \cup {NoMeta}], proc' \in [Sessions -> Procs],
         sweep' \in [pc : {"tick", "next", "kill", "forget"}, left : SUBSET Sessions, at : Sessions \cup {None}],
         \A s \in Sessions : Known(s)' => Launched(s),
         call[c].op = "start" /\ r.op # "start" => meta'[call[c].session] # NoMeta
  PROVE  TrackInv'
<1>1. \A d \in Calls : call'[d] = IF d = c THEN r ELSE call[d]
  BY DEF TrackInv, TrackTypes
<1>2. TrackTypes'
  BY DEF TrackInv, TrackTypes
<1>3. StartedOnce'
  BY <1>1 DEF TrackInv, StartedOnce
<1>4. ASSUME NEW s \in kernels' PROVE meta'[s] # NoMeta \/ s \in cancelled' \/ Starting(s)'
  <2>1. s \in Sessions /\ (Known(s) \/ s \in cancelled \/ Starting(s))
    BY DEF TrackInv, TrackTypes, KernelsTracked, Known, Starting
  <2>2. CASE Known(s)
    BY <2>1, <2>2 DEF MapsStep, Known
  <2>3. CASE s \in cancelled
    BY <2>3
  <2>4. CASE Starting(s)
    <3>1. PICK d \in Calls : call[d].op = "start" /\ call[d].session = s
      BY <2>4 DEF Starting
    <3>2. CASE d # c
      BY <1>1, <3>1, <3>2 DEF Starting
    <3>3. CASE d = c /\ r.op = "start"
      BY <1>1, <3>1, <3>3 DEF Starting
    <3>4. CASE d = c /\ r.op # "start"
      <4>1. call[c].op = "start" /\ call[c].session = s /\ r.op # "start"
        BY <3>1, <3>4
      <4>2. meta'[s] # NoMeta
        BY <4>1
      <4>3. QED  BY <4>2
    <3>5. QED  BY <3>2, <3>3, <3>4
  <2>5. QED  BY <2>1, <2>2, <2>3, <2>4
<1>5. KernelsTracked'
  BY <1>4 DEF KernelsTracked, Starting
<1>6. (\A t \in kernels' : Launched(t)') /\ \A t \in Sessions : Known(t)' => Launched(t)'
  BY DEF TrackInv, TrackTypes, MapsStep
<1>7. ASSUME NEW d \in Calls PROVE CallOk(call[d])'
  <2>1. CASE d = c
    BY <1>1, <2>1 DEF CallOk, Launched, Known
  <2>2. CASE d # c
    BY <1>1, <2>2, OtherCall
  <2>3. QED  BY <2>1, <2>2
<1>8. QED  BY <1>2, <1>3, <1>5, <1>6, <1>7 DEF TrackInv

\* The pc of one call moves on, not into a handshake.
LEMMA PcMoves ==
  ASSUME TrackInv, NEW c \in Calls, NEW r, call' = [call EXCEPT ![c] = r], r.pc \notin Pre,
         NEW t \in Sessions, Launched(t), proc[t] # "unborn" => proc'[t] # "unborn"
  PROVE  Launched(t)'
<1>1. \A d \in Calls : call'[d] = IF d = c THEN r ELSE call[d]
  BY DEF TrackInv, TrackTypes
<1>2. QED  BY <1>1 DEF Launched

\* The registry learns of the session.
LEMMA RegisterKeeps ==
  ASSUME TrackInv, NEW c \in Calls, Register(c)
  PROVE  TrackInv'
<1>1. PICK s \in Sessions : s = call[c].session
  BY DEF Register, TrackInv, CallOk
<1> DEFINE m == [idle |-> FALSE, role |-> None, asked |-> None, challenge |-> None]
<1>2. /\ call[c].pc = "register" /\ meta' = [meta EXCEPT ![s] = m] /\ UNCHANGED <<kernels, proc, sweep, cancelled>>
      /\ Finish(c) \/ Goto(c, "challenge")
  BY <1>1 DEF Register
<1>3. m \in LiveMetas
  BY DEF LiveMetas
<1> HIDE DEF m
<1>4. /\ meta' \in [Sessions -> LiveMetas \cup {NoMeta}] /\ meta'[s] = m /\ m # NoMeta
      /\ \A t \in Sessions : t # s => meta'[t] = meta[t]
      /\ call[c] \in CallRecs /\ call[c].op = "start" /\ Launched(s)
  BY <1>1, <1>2, <1>3, LiveIsKnown DEF TrackInv, TrackTypes, CallOk, Pre
<1>5. PICK r \in CallRecs : /\ call' = [call EXCEPT ![c] = r] /\ r.pc \in {"idle", "challenge"}
                            /\ r.pc = "idle" => r.op = "idle"
                            /\ r.pc = "challenge" => r.op = "start" /\ r.session = s
  <2>1. CASE Finish(c)
    BY <2>1, IdleCall DEF Finish
  <2>2. CASE Goto(c, "challenge")
    <3>1. "challenge" \in Pcs
      BY DEF Pcs
    <3>2. /\ SetPc(call[c], "challenge") \in CallRecs /\ SetPc(call[c], "challenge").pc = "challenge"
          /\ SetPc(call[c], "challenge").op = "start" /\ SetPc(call[c], "challenge").session = s
      BY <1>1, <1>4, <3>1, CallFields DEF SameFields
    <3>3. call' = [call EXCEPT ![c] = SetPc(call[c], "challenge")]
      BY <2>2 DEF Goto, SetPc
    <3>4. QED  BY <3>2, <3>3
  <2>3. QED  BY <1>2, <2>1, <2>2
<1>6. r.pc \notin Pre
  BY <1>5 DEF Pre
<1>7. proc' \in [Sessions -> Procs] /\ \A t \in Sessions : proc[t] # "unborn" => proc'[t] # "unborn"
  BY <1>2 DEF TrackInv, TrackTypes
<1>8. \A t \in Sessions : Launched(t) => Launched(t)'
  BY <1>5, <1>6, <1>7, PcMoves
<1>9. MapsStep
  BY <1>2, <1>4, <1>7, <1>8 DEF MapsStep, Known
<1>10. CallOk(r)'
  BY <1>4, <1>5, <1>8 DEF CallOk, Known, Pre
<1>11. \A t \in Sessions : Known(t)' => Launched(t)
  BY <1>4 DEF TrackInv, Known
<1>12. sweep' \in [pc : {"tick", "next", "kill", "forget"}, left : SUBSET Sessions, at : Sessions \cup {None}]
  BY <1>2 DEF TrackInv, TrackTypes
<1>13. SweepOk'
  BY <1>2, <1>9, SameSweep
<1>14. /\ r.session = call[c].session \/ r.op # "start"
       /\ r.op = "start" => call[c].op = "start"
       /\ meta'[call[c].session] # NoMeta
  BY <1>1, <1>4, <1>5
<1>15. QED
  BY <1>2, <1>4, <1>5, <1>7, <1>9, <1>10, <1>11, <1>12, <1>13, <1>14, OneCallAndMaps

\* Close takes the kernel out of the map, kills it, and only then forgets it.
LEMMA CloseKeeps ==
  ASSUME TrackInv, NEW c \in Calls, CloseRemoves(c) \/ CloseKills(c) \/ CloseForgets(c)
  PROVE  TrackInv'
<1>1. PICK s \in Sessions : s = call[c].session
  BY DEF CloseRemoves, CloseKills, CloseForgets, TrackInv, CallOk
<1>2. /\ call[c] \in CallRecs /\ call[c].op # "start" /\ UNCHANGED <<sweep, cancelled>>
      /\ sweep' \in [pc : {"tick", "next", "kill", "forget"}, left : SUBSET Sessions, at : Sessions \cup {None}]
  BY DEF CloseRemoves, CloseKills, CloseForgets, TrackInv, TrackTypes, CallOk, Pre
<1>3. CASE CloseRemoves(c) /\ s \notin kernels
  <2>1. Finish(c) /\ UNCHANGED <<kernels, proc, meta>>
    BY <1>1, <1>3 DEF CloseRemoves, RemoveKernel
  <2>2. proc' \in [Sessions -> Procs] /\ \A t \in Sessions : proc[t] # "unborn" => proc'[t] # "unborn"
    BY <2>1 DEF TrackInv, TrackTypes
  <2>3. QED  BY <1>2, <2>1, <2>2, RegistryStays, Ends
<1>4. CASE \/ CloseRemoves(c) /\ s \in kernels
           \/ CloseKills(c) \/ CloseForgets(c)
  <2>1. /\ Launched(s) /\ s \notin kernels' /\ kernels' \subseteq kernels
        /\ proc' \in [Sessions -> Procs] /\ \A t \in Sessions : proc[t] # "unborn" => proc'[t] # "unborn"
    <3>1. CASE CloseRemoves(c) /\ s \in kernels
      <4>1. kernels' = kernels \ {s} /\ proc' = [proc EXCEPT ![s] = IF @ = "dead" THEN @ ELSE "closing"]
        BY <1>1, <3>1 DEF CloseRemoves, RemoveKernel
      <4>2. QED  BY <3>1, <4>1 DEF TrackInv, TrackTypes, Procs
    <3>2. CASE CloseKills(c)
      <4>1. kernels' = kernels /\ proc' = [proc EXCEPT ![s] = "dead"] /\ call[c].pc = "kill"
        BY <1>1, <3>2 DEF CloseKills, Kill
      <4>2. QED  BY <1>1, <4>1 DEF TrackInv, TrackTypes, Procs, CallOk
    <3>3. CASE CloseForgets(c)
      <4>1. kernels' = kernels /\ proc' = proc /\ call[c].pc = "forget"
        BY <3>3 DEF CloseForgets
      <4>2. QED  BY <1>1, <4>1 DEF TrackInv, TrackTypes, CallOk
    <3>4. QED  BY <1>4, <3>1, <3>2, <3>3
  <2>2. /\ meta' \in [Sessions -> LiveMetas \cup {NoMeta}]
        /\ \A t \in Sessions : /\ t # s => meta'[t] = meta[t]
                               /\ meta'[t] \in {meta[t], NoMeta}
    <3>1. meta' = meta \/ meta' = [meta EXCEPT ![s] = NoMeta]
      BY <1>1, <1>4 DEF CloseRemoves, CloseKills, CloseForgets
    <3>2. QED  BY <3>1 DEF TrackInv, TrackTypes
  <2>3. PICK r \in CallRecs : /\ call' = [call EXCEPT ![c] = r] /\ r.pc \in {"idle", "kill", "forget"}
                              /\ r.op # "start" /\ (r.pc # "idle" => r.session = s)
    <3>1. CASE CloseForgets(c)
      BY <3>1, IdleCall DEF CloseForgets, Finish
    <3>2. ASSUME NEW x \in {"kill", "forget"}, Goto(c, x)
          PROVE  /\ SetPc(call[c], x) \in CallRecs /\ SetPc(call[c], x).pc = x
                 /\ SetPc(call[c], x).op # "start" /\ SetPc(call[c], x).session = s
                 /\ call' = [call EXCEPT ![c] = SetPc(call[c], x)]
      <4>1. x \in Pcs
        BY DEF Pcs
      <4>2. call' = [call EXCEPT ![c] = SetPc(call[c], x)]
        BY <3>2 DEF Goto, SetPc
      <4>3. QED  BY <1>1, <1>2, <4>1, <4>2, CallFields DEF SameFields
    <3>3. CASE ~CloseForgets(c)
      <4>1. Goto(c, "kill") \/ Goto(c, "forget")
        BY <1>1, <1>4, <3>3 DEF CloseRemoves, CloseKills
      <4>2. PICK x \in {"kill", "forget"} : Goto(c, x)
        BY <4>1
      <4>3. QED  BY <3>2, <4>2
    <3>4. QED  BY <3>1, <3>3
  <2>4. r.pc \notin Pre
    BY <2>3 DEF Pre
  <2>5. \A t \in Sessions : Launched(t) => Launched(t)'
    BY <2>1, <2>3, <2>4, PcMoves
  <2>6. MapsStep
    BY <2>1, <2>2, <2>5 DEF MapsStep, Known, TrackInv, TrackTypes
  <2>7. CallOk(r)'
    BY <2>1, <2>3, <2>4, <2>5 DEF CallOk
  <2>8. SweepOk'
    BY <1>2, <2>6, SameSweep
  <2>9. \A t \in Sessions : Known(t)' => Launched(t)
    BY <2>2 DEF TrackInv, Known
  <2>10. QED  BY <1>2, <2>1, <2>2, <2>3, <2>6, <2>7, <2>8, <2>9, OneCallAndMaps
<1>5. QED  BY <1>3, <1>4

-----------------------------------------------------------------------------
(* The steps of no call: the kernels, the clock and the sweeper.           *)

LEMMA QuietKeeps ==
  ASSUME TrackInv, UNCHANGED <<call, cancelled>>, SweepOk',
         \A t \in Sessions : proc[t] # "unborn" => proc'[t] # "unborn",
         kernels' \subseteq kernels, meta' \in [Sessions -> LiveMetas \cup {NoMeta}], proc' \in [Sessions -> Procs],
         sweep' \in [pc : {"tick", "next", "kill", "forget"}, left : SUBSET Sessions, at : Sessions \cup {None}],
         \A t \in Sessions : meta'[t] # NoMeta => meta[t] # NoMeta,
         \A t \in Sessions : meta[t] # NoMeta => meta'[t] # NoMeta \/ t \notin kernels'
  PROVE  TrackInv'
<1>1. \A t \in Sessions : Launched(t) => Launched(t)'
  BY DEF Launched
<1>2. MapsStep
  BY <1>1 DEF MapsStep, Known, TrackInv, TrackTypes
<1>3. \A d \in Calls : CallOk(call[d])'
  BY <1>2, OtherCall
<1>4. TrackTypes' /\ StartedOnce'
  BY DEF TrackInv, TrackTypes, StartedOnce
<1>5. KernelsTracked'
  BY DEF TrackInv, TrackTypes, KernelsTracked
<1>6. (\A t \in kernels' : Launched(t)') /\ \A t \in Sessions : Known(t)' => Launched(t)'
  BY <1>1 DEF TrackInv, TrackTypes, Known
<1>7. QED  BY <1>3, <1>4, <1>5, <1>6 DEF TrackInv

\* Launched sessions stay so when no call moves.
LEMMA QuietLaunched ==
  ASSUME call' = call, \A t \in Sessions : proc[t] # "unborn" => proc'[t] # "unborn"
  PROVE  \A t \in Sessions : Launched(t) => Launched(t)'
  BY DEF Launched

LEMMA KernelQuiet ==
  ASSUME TrackInv, NEW s \in Sessions, KernelStep(s) \/ SleepEnds(s) \/ KernelDies(s) \/ ping(s) \/ GoIdle(s)
  PROVE  TrackInv'
<1>1. UNCHANGED <<call, cancelled, kernels, sweep>>
  BY DEF KernelStep, handle, sleep_interruptible, SleepEnds, KernelDies, ping, GoIdle
<1>2. proc' \in [Sessions -> Procs] /\ \A t \in Sessions : proc[t] # "unborn" => proc'[t] # "unborn"
  <2>1. proc' = proc \/ proc' = [proc EXCEPT ![s] = "dead"]
    BY DEF KernelStep, handle, sleep_interruptible, SleepEnds, KernelDies, ping, GoIdle
  <2>2. QED  BY <2>1 DEF TrackInv, TrackTypes, Procs
<1>3. meta' \in [Sessions -> LiveMetas \cup {NoMeta}] /\ \A t \in Sessions : Known(t)' <=> Known(t)
  <2>1. CASE ping(s)
    BY <2>1, TouchStays DEF ping
  <2>2. CASE GoIdle(s)
    <3>1. meta[s] \in LiveMetas /\ Known(s)
      BY <2>2 DEF TrackInv, TrackTypes, Known, GoIdle
    <3>2. SetIdle(meta[s], TRUE) \in LiveMetas
      BY <3>1, MetaFields
    <3>3. meta' = [meta EXCEPT ![s] = SetIdle(meta[s], TRUE)]
      BY <2>2 DEF GoIdle, SetIdle
    <3>4. QED  BY <3>1, <3>2, <3>3, EntryStays
  <2>3. CASE ~ping(s) /\ ~GoIdle(s)
    <3>1. meta' = meta
      BY <2>3 DEF KernelStep, handle, sleep_interruptible, SleepEnds, KernelDies
    <3>2. QED  BY <3>1, RegistryStays
  <2>4. QED  BY <2>1, <2>2, <2>3
<1>4. \A t \in Sessions : Launched(t) => Launched(t)'
  BY <1>1, <1>2, QuietLaunched
<1>5. SweepOk'
  BY <1>1, <1>4 DEF TrackInv, TrackTypes, SweepOk
<1>6. sweep' \in [pc : {"tick", "next", "kill", "forget"}, left : SUBSET Sessions, at : Sessions \cup {None}]
  BY <1>1 DEF TrackInv, TrackTypes
<1>7. QED  BY <1>1, <1>2, <1>3, <1>5, <1>6, QuietKeeps DEF Known

\* The sweeper: what it collected was launched, and what it forgets is out of
\* the map for good.
LEMMA SweepKeeps ==
  ASSUME TrackInv, SweepTick \/ SweepKills \/ SweepForgets \/ \E s \in Sessions : SweepClose(s)
  PROVE  TrackInv'
<1>1. UNCHANGED <<call, cancelled>> /\ kernels' \subseteq kernels
  BY DEF SweepTick, SweepKills, SweepForgets, SweepClose, RemoveKernel
<1>2. /\ sweep.left \subseteq Sessions /\ sweep.at \in Sessions \cup {None}
      /\ sweep.pc \in {"kill", "forget"} => sweep.at \in Sessions /\ sweep.at \notin kernels /\ Launched(sweep.at)
      /\ \A t \in sweep.left : Launched(t)
      /\ sweep \in [pc : {"tick", "next", "kill", "forget"}, left : SUBSET Sessions, at : Sessions \cup {None}]
  BY DEF TrackInv, TrackTypes, SweepOk
<1>3. proc' \in [Sessions -> Procs] /\ \A t \in Sessions : proc[t] # "unborn" => proc'[t] # "unborn"
  <2>1. \/ proc' = proc
        \/ \E s \in Sessions : proc' = [proc EXCEPT ![s] = "dead"]
        \/ \E s \in kernels : proc' = [proc EXCEPT ![s] = IF @ = "dead" THEN @ ELSE "closing"]
    BY <1>2 DEF SweepTick, SweepKills, SweepForgets, SweepClose, RemoveKernel, Kill
  <2>2. \A s \in kernels : proc[s] # "unborn"
    BY DEF TrackInv, Launched
  <2>3. QED  BY <2>1, <2>2 DEF TrackInv, TrackTypes, Procs
<1>4. \A t \in Sessions : Launched(t) => Launched(t)'
  BY <1>1, <1>3, QuietLaunched
<1>5. /\ meta' \in [Sessions -> LiveMetas \cup {NoMeta}]
      /\ \A t \in Sessions : /\ meta'[t] # NoMeta => meta[t] # NoMeta
                             /\ meta[t] # NoMeta => meta'[t] # NoMeta \/ t \notin kernels'
  <2>1. CASE SweepForgets
    <3>1. PICK s \in Sessions : s = sweep.at /\ s \notin kernels
      BY <1>2, <2>1 DEF SweepForgets
    <3>2. meta' = [meta EXCEPT ![s] = NoMeta]
      BY <2>1, <3>1 DEF SweepForgets
    <3>3. QED  BY <1>1, <3>1, <3>2 DEF TrackInv, TrackTypes
  <2>2. CASE ~SweepForgets
    <3>1. meta' = meta
      BY <2>2 DEF SweepTick, SweepKills, SweepClose
    <3>2. QED  BY <3>1 DEF TrackInv, TrackTypes
  <2>3. QED  BY <2>1, <2>2
<1>6. /\ sweep' \in [pc : {"tick", "next", "kill", "forget"}, left : SUBSET Sessions, at : Sessions \cup {None}]
      /\ \A t \in sweep'.left : Launched(t)
      /\ sweep'.pc \in {"kill", "forget"} => sweep'.at \in Sessions /\ sweep'.at \notin kernels' /\ Launched(sweep'.at)
  <2>1. CASE SweepTick
    <3>1. sweep' = [pc |-> "next", left |-> {s \in Sessions : meta[s] # NoMeta /\ meta[s].idle}, at |-> None]
      BY <2>1 DEF SweepTick
    <3>2. QED  BY <3>1 DEF TrackInv, Known
  <2>2. CASE SweepKills
    <3>1. sweep' = [sweep EXCEPT !.pc = "forget"] /\ kernels' = kernels /\ sweep.pc = "kill"
      BY <2>2 DEF SweepKills
    <3>2. QED  BY <1>2, <3>1
  <2>3. CASE SweepForgets
    <3>1. sweep'.pc \in {"tick", "next"} /\ sweep'.left = sweep.left \ {sweep.at} /\ sweep'.at = None
      BY <2>3 DEF SweepForgets
    <3>2. sweep' = [pc |-> sweep'.pc, left |-> sweep'.left, at |-> sweep'.at]
      BY <2>3 DEF SweepForgets
    <3>3. sweep'.left \subseteq Sessions /\ sweep'.at \in Sessions \cup {None}
      BY <1>2, <3>1
    <3>4. sweep' \in [pc : {"tick", "next", "kill", "forget"}, left : SUBSET Sessions, at : Sessions \cup {None}]
      BY <3>1, <3>2, <3>3
    <3>5. QED  BY <1>2, <3>1, <3>4
  <2>4. ASSUME NEW s \in Sessions, SweepClose(s)
        PROVE  /\ sweep' \in [pc : {"tick", "next", "kill", "forget"}, left : SUBSET Sessions, at : Sessions \cup {None}]
               /\ sweep'.left = sweep.left /\ sweep'.at = s /\ s \notin kernels' /\ Launched(s)
    <3>1. s \in sweep.left /\ s \notin kernels'
      BY <2>4 DEF SweepClose, RemoveKernel
    <3>2. \/ sweep' = [sweep EXCEPT !.pc = "kill", !.at = s]
          \/ sweep' = [sweep EXCEPT !.pc = "forget", !.at = s]
      BY <2>4 DEF SweepClose
    <3>3. QED  BY <1>2, <3>1, <3>2
  <2>5. QED  BY <1>2, <2>1, <2>2, <2>3, <2>4
<1>7. SweepOk'
  <2>1. \A t \in Sessions : t \in sweep'.left => Launched(t)'
    BY <1>4, <1>6
  <2>2. sweep'.left \subseteq Sessions
    BY <1>6
  <2>3. \A t \in Sessions : t = sweep'.at /\ sweep'.pc \in {"kill", "forget"} => Launched(t)'
    BY <1>4, <1>6
  <2>4. QED  BY <1>6, <2>1, <2>2, <2>3 DEF SweepOk
<1>8. QED  BY <1>1, <1>3, <1>5, <1>6, <1>7, QuietKeeps

LEMMA TrackStutters ==
  ASSUME TrackInv, UNCHANGED vars
  PROVE  TrackInv'
<1>1. UNCHANGED <<meta, kernels, proc, call, sweep, cancelled>>
  BY DEF vars
<1>2. QED  BY <1>1 DEF TrackInv, TrackTypes, SweepOk, StartedOnce, KernelsTracked, Launched, Known, CallOk

LEMMA TrackStep ==
  ASSUME TrackInv, PipeTypes, [RNext]_vars
  PROVE  TrackInv'
<1>1. ASSUME NEW c \in Calls, CallStep(c) \/ Cancel(c) \/ Timeout(c) PROVE TrackInv'
  BY <1>1, HandshakeKeeps, InsertKeeps, RegisterKeeps, ChallengeKeeps, ExecuteKeeps, CloseKeeps, CancelKeeps
     DEF CallStep
<1>2. ASSUME NEW c \in Calls, NEW s \in Sessions,
             \/ Start(c, s) \/ Interrupt(c, s) \/ Close(c, s)
             \/ \E response \in {"plain", "other"} : Verify(c, s, response)
             \/ \E r \in Requests, kind \in Kinds : Execute(c, s, r, kind)
      PROVE  TrackInv'
  BY <1>2, StartKeeps, NewCalls
<1>3. QED  BY <1>1, <1>2, KernelQuiet, SweepKeeps, TrackStutters DEF RNext

-----------------------------------------------------------------------------
(* The pipes.  A kernel writes an event and the end of its stream in one   *)
(* batch, so an event on the pipe is followed by one of its own request.   *)

WellFormed(q) ==
  \A i \in DOMAIN q : q[i].msg = "event" /\ q[i].kind # "done" =>
     i + 1 \in DOMAIN q /\ q[i + 1].msg = "event" /\ q[i + 1].request = q[i].request

Batches == {q \in Seq(Envelopes) : WellFormed(q)}

Emits(s) == \E q \in Batches : toHost' = [toHost EXCEPT ![s] = toHost[s] \o q]

LEMMA EnvelopeTypes ==
  ASSUME NEW m \in Messages, NEW r \in Requests \cup {NoRequest}, NEW k \in AllKinds
  PROVE  /\ Envelope(m, r, k) \in Envelopes /\ Envelope(m, r, k).msg = m
         /\ Envelope(m, r, k).request = r /\ Envelope(m, r, k).kind = k
  BY DEF Envelope, Envelopes

LEMMA PlainTypes ==
  ASSUME NEW m \in Messages
  PROVE  Plain(m) \in Envelopes /\ Plain(m).msg = m
<1>1. None \in AllKinds /\ NoRequest \in Requests \cup {NoRequest}
  BY DEF AllKinds
<1>2. QED  BY <1>1, EnvelopeTypes DEF Plain

LEMMA EmptyBatch == <<>> \in Batches
  BY DEF Batches, WellFormed

LEMMA PlainBatch ==
  ASSUME NEW m \in Messages, m # "event"
  PROVE  <<Plain(m)>> \in Batches
<1>1. Plain(m) \in Envelopes /\ Plain(m).msg = m
  BY PlainTypes
<1>2. <<Plain(m)>> \in Seq(Envelopes)
  BY <1>1
<1>3. WellFormed(<<Plain(m)>>)
  BY <1>1 DEF WellFormed
<1>4. QED  BY <1>2, <1>3 DEF Batches

LEMMA EventBatch ==
  ASSUME NEW r \in Requests \cup {NoRequest}, NEW k \in AllKinds
  PROVE  <<Event(r, k)>> \o <<Done(r)>> \in Batches /\ <<>> \o <<Done(r)>> \in Batches
<1>1. "event" \in Messages /\ "done" \in AllKinds
  BY DEF Messages, AllKinds
<1>2. /\ Event(r, k) \in Envelopes /\ Done(r) \in Envelopes
      /\ Event(r, k).request = r /\ Done(r).request = r /\ Done(r).msg = "event" /\ Done(r).kind = "done"
  BY <1>1, EnvelopeTypes DEF Event, Done
<1>3. PICK e \in Envelopes, d \in Envelopes :
         e = Event(r, k) /\ d = Done(r) /\ e.request = d.request /\ d.msg = "event" /\ d.kind = "done"
  BY <1>2
<1>4. PICK y, z : y = <<e>> \o <<d>> /\ z = <<>> \o <<d>>
  OBVIOUS
<1>5. /\ y \in Seq(Envelopes) /\ DOMAIN y = 1..2 /\ y[1] = e /\ y[2] = d
      /\ z \in Seq(Envelopes) /\ DOMAIN z = 1..1 /\ z[1] = d
  BY <1>4
<1>6. WellFormed(y) /\ WellFormed(z)
  BY <1>3, <1>5 DEF WellFormed
<1>7. QED  BY <1>3, <1>4, <1>5, <1>6 DEF Batches

LEMMA BatchAppends ==
  ASSUME NEW p \in Seq(Envelopes), WellFormed(p), NEW q \in Batches
  PROVE  p \o q \in Seq(Envelopes) /\ WellFormed(p \o q)
<1>1. q \in Seq(Envelopes) /\ WellFormed(q)
  BY DEF Batches
<1>2. p \o q \in Seq(Envelopes)
  BY <1>1
<1>3. /\ Len(p \o q) = Len(p) + Len(q) /\ DOMAIN (p \o q) = 1..(Len(p) + Len(q))
      /\ \A i \in 1..(Len(p) + Len(q)) : (p \o q)[i] = IF i <= Len(p) THEN p[i] ELSE q[i - Len(p)]
      /\ Len(p) \in Nat /\ Len(q) \in Nat /\ DOMAIN p = 1..Len(p) /\ DOMAIN q = 1..Len(q)
  BY <1>1
<1>4. PICK z : z = p \o q
  OBVIOUS
<1>5. ASSUME NEW i \in DOMAIN z, z[i].msg = "event" /\ z[i].kind # "done"
      PROVE  i + 1 \in DOMAIN z /\ z[i + 1].msg = "event" /\ z[i + 1].request = z[i].request
  <2>1. CASE i <= Len(p)
    <3>1. z[i] = p[i] /\ i \in DOMAIN p
      BY <1>3, <1>4, <2>1
    <3>2. i + 1 \in DOMAIN p /\ p[i + 1].msg = "event" /\ p[i + 1].request = p[i].request
      BY <1>5, <3>1 DEF WellFormed
    <3>3. i + 1 \in DOMAIN z /\ z[i + 1] = p[i + 1]
      BY <1>3, <1>4, <3>2
    <3>4. QED  BY <3>1, <3>2, <3>3
  <2>2. CASE ~(i <= Len(p))
    <3>0. PICK j \in DOMAIN q : i = j + Len(p) /\ z[i] = q[j]
      <4>1. i - Len(p) \in DOMAIN q /\ z[i] = q[i - Len(p)] /\ i = (i - Len(p)) + Len(p)
        BY <1>3, <1>4, <2>2
      <4>2. QED  BY <4>1
    <3>2. j + 1 \in DOMAIN q /\ q[j + 1].msg = "event" /\ q[j + 1].request = q[j].request
      BY <1>1, <1>5, <3>0 DEF WellFormed
    <3>3. i + 1 \in DOMAIN z /\ z[i + 1] = q[j + 1]
      BY <1>3, <1>4, <3>0, <3>2
    <3>4. QED  BY <3>0, <3>2, <3>3
  <2>3. QED  BY <2>1, <2>2
<1>6. WellFormed(z)
  BY <1>5 DEF WellFormed
<1>7. QED  BY <1>2, <1>4, <1>6

LEMMA TailWellFormed ==
  ASSUME NEW p \in Seq(Envelopes), p # <<>>, WellFormed(p)
  PROVE  Tail(p) \in Seq(Envelopes) /\ WellFormed(Tail(p))
<1>1. /\ Tail(p) \in Seq(Envelopes) /\ Len(p) \in Nat /\ Len(p) > 0 /\ Len(Tail(p)) = Len(p) - 1
      /\ DOMAIN p = 1..Len(p) /\ DOMAIN Tail(p) = 1..(Len(p) - 1)
      /\ \A i \in 1..(Len(p) - 1) : Tail(p)[i] = p[i + 1]
  OBVIOUS
<1>2. PICK z : z = Tail(p)
  OBVIOUS
<1>3. ASSUME NEW i \in DOMAIN z, z[i].msg = "event" /\ z[i].kind # "done"
      PROVE  i + 1 \in DOMAIN z /\ z[i + 1].msg = "event" /\ z[i + 1].request = z[i].request
  <2>1. PICK j \in DOMAIN p : j = i + 1 /\ z[i] = p[j] /\ i \in Nat
    BY <1>1, <1>2
  <2>2. j + 1 \in DOMAIN p /\ p[j + 1].msg = "event" /\ p[j + 1].request = p[j].request
    BY <1>3, <2>1 DEF WellFormed
  <2>3. i + 1 \in DOMAIN z /\ z[i + 1] = p[j + 1]
    BY <1>1, <1>2, <2>1, <2>2
  <2>4. QED  BY <2>1, <2>2, <2>3
<1>4. WellFormed(z)
  BY <1>3 DEF WellFormed
<1>5. QED  BY <1>1, <1>2, <1>4

PipeInv == PipeTypes /\ \A s \in Sessions : WellFormed(toHost[s])

LEMMA FrameTypes ==
  ASSUME PipeTypes, NEW s \in Sessions, HasFrame(s), NEW k \in KernelRecs, TakeFrame(s, k), k.inbox = kernel[s].inbox
  PROVE  toKernel' \in [Sessions -> Seq(Envelopes)] /\ kernel' \in [Sessions -> KernelRecs]
<1>1. kernel[s].inbox \in Seq(Envelopes) /\ toKernel[s] \in Seq(Envelopes)
  BY DEF PipeTypes, KernelRecs
<1>2. CASE kernel[s].inbox # <<>>
  <2>1. /\ kernel' = [kernel EXCEPT ![s] = [k EXCEPT !.inbox = Tail(k.inbox)]] /\ toKernel' = toKernel
    BY <1>2 DEF TakeFrame
  <2>2. Tail(k.inbox) \in Seq(Envelopes)
    BY <1>1, <1>2
  <2>3. [k EXCEPT !.inbox = Tail(k.inbox)] \in KernelRecs
    BY <2>2 DEF KernelRecs
  <2>4. QED  BY <2>1, <2>3 DEF PipeTypes
<1>3. CASE kernel[s].inbox = <<>>
  <2>1. toKernel' = [toKernel EXCEPT ![s] = Tail(toKernel[s])] /\ kernel' = [kernel EXCEPT ![s] = k]
        /\ toKernel[s] # <<>>
    BY <1>3 DEF TakeFrame, HasFrame
  <2>2. Tail(toKernel[s]) \in Seq(Envelopes)
    BY <1>1, <2>1
  <2>3. QED  BY <2>1, <2>2 DEF PipeTypes
<1>4. QED  BY <1>2, <1>3

LEMMA NextFrameTypes ==
  ASSUME PipeTypes, NEW s \in Sessions, HasFrame(s)
  PROVE  NextFrame(s) \in Envelopes
<1>1. kernel[s].inbox \in Seq(Envelopes) /\ toKernel[s] \in Seq(Envelopes)
  BY DEF PipeTypes, KernelRecs
<1>2. QED  BY <1>1 DEF NextFrame, HasFrame

LEMMA EmitIsBatch ==
  ASSUME PipeTypes, NEW s \in Sessions, NEW r \in Requests \cup {NoRequest}, NEW k \in AllKinds,
         emit(s, r, <<Event(r, k)>>) \/ emit(s, r, <<>>)
  PROVE  Emits(s)
<1>1. Event(r, k) \in Envelopes /\ Done(r) \in Envelopes
  <2>1. "event" \in Messages /\ "done" \in AllKinds
    BY DEF Messages, AllKinds
  <2>2. QED  BY <2>1, EnvelopeTypes DEF Event, Done
<1>2. <<Event(r, k)>> \in Seq(Envelopes) /\ <<>> \in Seq(Envelopes) /\ <<Done(r)>> \in Seq(Envelopes)
  BY <1>1
<1>3. toHost[s] \in Seq(Envelopes)
  BY DEF PipeTypes
<1>4. CASE emit(s, r, <<Event(r, k)>>)
  <2>1. toHost' = [toHost EXCEPT ![s] = (toHost[s] \o <<Event(r, k)>>) \o <<Done(r)>>]
    BY <1>4 DEF emit
  <2>2. (toHost[s] \o <<Event(r, k)>>) \o <<Done(r)>> = toHost[s] \o (<<Event(r, k)>> \o <<Done(r)>>)
    BY <1>2, <1>3, ConcatAssociative
  <2>3. QED  BY <2>1, <2>2, EventBatch DEF Emits
<1>5. CASE emit(s, r, <<>>)
  <2>1. toHost' = [toHost EXCEPT ![s] = (toHost[s] \o <<>>) \o <<Done(r)>>]
    BY <1>5 DEF emit
  <2>2. (toHost[s] \o <<>>) \o <<Done(r)>> = toHost[s] \o (<<>> \o <<Done(r)>>)
    BY <1>2, <1>3, ConcatAssociative
  <2>3. QED  BY <2>1, <2>2, EventBatch DEF Emits
<1>6. QED  BY <1>4, <1>5

LEMMA PlainIsBatch ==
  ASSUME PipeTypes, NEW s \in Sessions, NEW m \in Messages, m # "event",
         toHost' = [toHost EXCEPT ![s] = Append(toHost[s], Plain(m))]
  PROVE  Emits(s)
<1>1. toHost[s] \in Seq(Envelopes) /\ Plain(m) \in Envelopes
  BY PlainTypes DEF PipeTypes
<1>2. Append(toHost[s], Plain(m)) = toHost[s] \o <<Plain(m)>>
  BY <1>1, AppendIsConcat
<1>3. QED  BY <1>2, PlainBatch DEF Emits

LEMMA NoneIsBatch ==
  ASSUME PipeTypes, NEW s \in Sessions, toHost' = toHost
  PROVE  Emits(s)
<1>1. toHost[s] \in Seq(Envelopes)
  BY DEF PipeTypes
<1>2. toHost[s] \o <<>> = toHost[s]
  BY <1>1, ConcatEmptySeq
<1>3. toHost' = [toHost EXCEPT ![s] = toHost[s] \o <<>>]
  BY <1>2 DEF PipeTypes
<1>4. QED  BY <1>3, EmptyBatch DEF Emits

\* Whatever a kernel does, it adds a batch to its pipe.
LEMMA KernelEmits ==
  ASSUME PipeTypes, NEW s \in Sessions, KernelStep(s) \/ SleepEnds(s)
  PROVE  Emits(s) /\ toKernel' \in [Sessions -> Seq(Envelopes)] /\ kernel' \in [Sessions -> KernelRecs]
<1>1. kernel[s] \in KernelRecs /\ kernel[s].request \in Requests \cup {NoRequest}
      /\ kernel[s].inbox \in Seq(Envelopes) /\ toKernel[s] \in Seq(Envelopes)
  BY DEF PipeTypes, KernelRecs
<1>2. "cancelled" \in AllKinds
  BY DEF AllKinds
<1>3. CASE handle(s)
  <2>1. HasFrame(s) /\ NextFrame(s) \in Envelopes
    BY <1>3, NextFrameTypes DEF handle
  <2>2. PICK env \in Envelopes : env = NextFrame(s)
    BY <2>1
  <2>3. env.request \in Requests \cup {NoRequest} /\ env.kind \in AllKinds
    BY DEF Envelopes
  <2>4. CASE env.msg = "code" /\ exec_code(s, env) /\ env.kind = "sleep"
    <3>1. /\ TakeFrame(s, [kernel[s] EXCEPT !.pc = "sleeping", !.request = env.request]) /\ toHost' = toHost
      BY <2>4 DEF exec_code
    <3>2. PICK k : k = [kernel[s] EXCEPT !.pc = "sleeping", !.request = env.request]
      OBVIOUS
    <3>3. k \in KernelRecs /\ k.inbox = kernel[s].inbox
      BY <1>1, <2>3, <3>2 DEF KernelRecs
    <3>4. QED  BY <2>1, <3>1, <3>2, <3>3, FrameTypes, NoneIsBatch
  <2>5. CASE env.msg = "code" /\ exec_code(s, env) /\ env.kind # "sleep"
    <3>1. TakeFrame(s, kernel[s]) /\ emit(s, env.request, <<Event(env.request, env.kind)>>)
      BY <2>5 DEF exec_code
    <3>2. QED  BY <1>1, <2>1, <2>3, <3>1, FrameTypes, EmitIsBatch
  <2>6. CASE env.msg # "code"
    <3>1. TakeFrame(s, kernel[s])
      BY <1>3, <2>2, <2>6 DEF handle
    <3>2. \E m \in {"welcome", "handle", "ack"} : toHost' = [toHost EXCEPT ![s] = Append(toHost[s], Plain(m))]
      BY <1>3, <2>2, <2>6 DEF handle, ack
    <3>3. PICK m \in {"welcome", "handle", "ack"} : toHost' = [toHost EXCEPT ![s] = Append(toHost[s], Plain(m))]
      BY <3>2
    <3>4. m \in Messages /\ m # "event"
      BY DEF Messages
    <3>5. QED  BY <1>1, <2>1, <3>1, <3>3, <3>4, FrameTypes, PlainIsBatch
  <2>7. QED  BY <1>3, <2>2, <2>4, <2>5, <2>6 DEF handle
<1>4. CASE SleepEnds(s)
  <2>1. /\ kernel' = [kernel EXCEPT ![s] = [kernel[s] EXCEPT !.pc = "loop", !.request = NoRequest]]
        /\ emit(s, kernel[s].request, <<>>) /\ toKernel' = toKernel
    BY <1>4 DEF SleepEnds
  <2>2. [kernel[s] EXCEPT !.pc = "loop", !.request = NoRequest] \in KernelRecs
    BY <1>1 DEF KernelRecs
  <2>3. Emits(s)
    BY <1>1, <1>2, <2>1, EmitIsBatch
  <2>4. QED  BY <2>1, <2>2, <2>3 DEF PipeTypes
<1>5. CASE sleep_interruptible(s)
  <2>1. toKernel' = [toKernel EXCEPT ![s] = Tail(toKernel[s])] /\ toKernel[s] # <<>>
    BY <1>5 DEF sleep_interruptible
  <2>2. toKernel' \in [Sessions -> Seq(Envelopes)]
    BY <1>1, <2>1 DEF PipeTypes
  <2>3. CASE Head(toKernel[s]).msg = "interrupt"
    <3>1. /\ kernel' = [kernel EXCEPT ![s] = [kernel[s] EXCEPT !.pc = "loop", !.request = NoRequest]]
          /\ emit(s, kernel[s].request, <<Event(kernel[s].request, "cancelled")>>)
      BY <1>5, <2>3 DEF sleep_interruptible
    <3>2. [kernel[s] EXCEPT !.pc = "loop", !.request = NoRequest] \in KernelRecs
      BY <1>1 DEF KernelRecs
    <3>3. Emits(s)
      BY <1>1, <1>2, <3>1, EmitIsBatch
    <3>4. QED  BY <2>2, <3>1, <3>2, <3>3 DEF PipeTypes
  <2>4. CASE Head(toKernel[s]).msg # "interrupt"
    <3>1. /\ kernel' = [kernel EXCEPT ![s] = [kernel[s] EXCEPT !.inbox = Append(kernel[s].inbox, Head(toKernel[s]))]]
          /\ toHost' = toHost
      BY <1>5, <2>4 DEF sleep_interruptible
    <3>2. Append(kernel[s].inbox, Head(toKernel[s])) \in Seq(Envelopes)
      BY <1>1, <2>1
    <3>3. [kernel[s] EXCEPT !.inbox = Append(kernel[s].inbox, Head(toKernel[s]))] \in KernelRecs
      BY <1>1, <3>2 DEF KernelRecs
    <3>4. QED  BY <2>2, <3>1, <3>3, NoneIsBatch DEF PipeTypes
  <2>5. QED  BY <2>3, <2>4
<1>6. QED  BY <1>3, <1>4, <1>5 DEF KernelStep

\* The host takes the first envelope off a pipe.
Takes(s) == toHost[s] # <<>> /\ toHost' = [toHost EXCEPT ![s] = Tail(toHost[s])]

LEMMA SendTypes ==
  ASSUME PipeTypes, NEW s \in Sessions, NEW e \in Envelopes, send(s, e)
  PROVE  toKernel' \in [Sessions -> Seq(Envelopes)]
<1>1. Append(toKernel[s], e) \in Seq(Envelopes)
  BY DEF PipeTypes
<1>2. QED  BY <1>1 DEF send, PipeTypes

\* What a step does to the pipes.
LEMMA PipesMove ==
  ASSUME TrackInv, PipeTypes, [RNext]_vars
  PROVE  /\ toKernel' \in [Sessions -> Seq(Envelopes)] /\ kernel' \in [Sessions -> KernelRecs]
         /\ \/ toHost' = toHost
            \/ \E s \in Sessions : Emits(s) /\ UNCHANGED <<call, lock, kernels, answers>>
            \/ \E c \in Calls : (handshake(c) \/ start_session(c) \/ Drain(c)) /\ Takes(call[c].session)
<1> USE DEF pipes
<1>1. /\ Plain("hello") \in Envelopes /\ Plain("start") \in Envelopes /\ Plain("interrupt") \in Envelopes
      /\ Plain("close") \in Envelopes
  <2>1. "hello" \in Messages /\ "start" \in Messages /\ "interrupt" \in Messages /\ "close" \in Messages
    BY DEF Messages
  <2>2. QED  BY <2>1, PlainTypes
<1>2. \A c \in Calls : call[c].pc # "idle" => call[c].session \in Sessions
  BY DEF TrackInv, CallOk
<1>3. ASSUME UNCHANGED <<toKernel, toHost, kernel>>
      PROVE  toKernel' \in [Sessions -> Seq(Envelopes)] /\ kernel' \in [Sessions -> KernelRecs] /\ toHost' = toHost
  BY <1>3 DEF PipeTypes
<1>4. ASSUME UNCHANGED <<toHost, kernel>>, NEW s \in Sessions, NEW e \in Envelopes, send(s, e)
      PROVE  toKernel' \in [Sessions -> Seq(Envelopes)] /\ kernel' \in [Sessions -> KernelRecs] /\ toHost' = toHost
  BY <1>4, SendTypes DEF PipeTypes
<1>5. ASSUME NEW c \in Calls, handshake(c) \/ start_session(c) \/ Drain(c)
      PROVE  /\ toKernel' \in [Sessions -> Seq(Envelopes)] /\ kernel' \in [Sessions -> KernelRecs]
             /\ toHost' = toHost \/ Takes(call[c].session)
  <2>1. call[c].session \in Sessions
    BY <1>2, <1>5 DEF handshake, start_session, Drain
  <2>2. kernel' = kernel /\ (toHost' = toHost \/ Takes(call[c].session))
    BY <1>5 DEF handshake, start_session, Drain, Takes, Received
  <2>3. toKernel' = toKernel \/ send(call[c].session, Plain("start"))
    BY <1>5 DEF handshake, start_session, Drain
  <2>4. QED  BY <1>1, <2>1, <2>2, <2>3, SendTypes DEF PipeTypes
<1>6. ASSUME NEW c \in Calls, LockKernels(c)
      PROVE  toKernel' \in [Sessions -> Seq(Envelopes)] /\ kernel' \in [Sessions -> KernelRecs] /\ toHost' = toHost
  <2>1. call[c].session \in Sessions /\ call[c] \in CallRecs
    BY <1>2, <1>6 DEF LockKernels, TrackInv, TrackTypes
  <2>2. Envelope("code", call[c].request, call[c].kind) \in Envelopes
    <3>1. "code" \in Messages /\ call[c].request \in Requests \cup {NoRequest} /\ call[c].kind \in AllKinds
      BY <2>1 DEF Messages, CallRecs
    <3>2. QED  BY <3>1, EnvelopeTypes
  <2>3. /\ UNCHANGED <<toHost, kernel>>
        /\ \/ toKernel' = toKernel \/ send(call[c].session, Plain("interrupt"))
           \/ send(call[c].session, Envelope("code", call[c].request, call[c].kind))
    BY <1>6 DEF LockKernels
  <2>4. QED  BY <1>1, <1>3, <1>4, <2>1, <2>2, <2>3
<1>7. ASSUME NEW c \in Calls, Timeout(c) \/ CloseRemoves(c)
      PROVE  toKernel' \in [Sessions -> Seq(Envelopes)] /\ kernel' \in [Sessions -> KernelRecs] /\ toHost' = toHost
  <2>1. call[c].session \in Sessions /\ UNCHANGED <<toHost, kernel>>
    BY <1>2, <1>7 DEF Timeout, CloseRemoves
  <2>2. \/ toKernel' = toKernel \/ send(call[c].session, Plain("interrupt")) \/ send(call[c].session, Plain("close"))
    BY <1>7 DEF Timeout, CloseRemoves, RemoveKernel
  <2>3. QED  BY <1>1, <1>3, <1>4, <2>1, <2>2
<1>8. ASSUME NEW c \in Calls,
             \/ InsertKernel(c) \/ Register(c) \/ attach_challenge(c) \/ verify_challenge(c) \/ DrainClosed(c)
             \/ CloseKills(c) \/ CloseForgets(c) \/ Cancel(c)
      PROVE  UNCHANGED <<toKernel, toHost, kernel>>
  BY <1>8 DEF InsertKernel, Register, attach_challenge, verify_challenge, DrainClosed, CloseKills, CloseForgets, Cancel
<1>9. ASSUME NEW c \in Calls, NEW s \in Sessions,
             \/ Interrupt(c, s) \/ Close(c, s)
             \/ \E response \in {"plain", "other"} : Verify(c, s, response)
             \/ \E r \in Requests, kind \in Kinds : Execute(c, s, r, kind)
      PROVE  UNCHANGED <<toKernel, toHost, kernel>>
  BY <1>9 DEF Interrupt, Close, Verify, Execute
<1>10. ASSUME NEW c \in Calls, NEW s \in Sessions, Start(c, s)
       PROVE  UNCHANGED <<toHost, kernel>> /\ send(s, Plain("hello"))
  BY <1>10 DEF Start
<1>11. ASSUME NEW s \in Sessions, KernelStep(s) \/ SleepEnds(s)
       PROVE  UNCHANGED <<call, lock, kernels, answers>>
  BY <1>11 DEF KernelStep, handle, sleep_interruptible, SleepEnds
<1>12. ASSUME \/ \E s \in Sessions : KernelDies(s) \/ ping(s) \/ GoIdle(s)
              \/ SweepTick \/ SweepKills \/ SweepForgets
       PROVE  UNCHANGED <<toKernel, toHost, kernel>>
  BY <1>12 DEF KernelDies, ping, GoIdle, SweepTick, SweepKills, SweepForgets
<1>13. ASSUME NEW s \in Sessions, SweepClose(s)
       PROVE  UNCHANGED <<toHost, kernel>> /\ (toKernel' = toKernel \/ send(s, Plain("close")))
  BY <1>13 DEF SweepClose, RemoveKernel
<1>14. CASE UNCHANGED vars
  BY <1>3, <1>14 DEF vars
<1>15. ASSUME NEW c \in Calls, CallStep(c) \/ Cancel(c) \/ Timeout(c)
       PROVE  /\ toKernel' \in [Sessions -> Seq(Envelopes)] /\ kernel' \in [Sessions -> KernelRecs]
              /\ toHost' = toHost \/ ((handshake(c) \/ start_session(c) \/ Drain(c)) /\ Takes(call[c].session))
  BY <1>3, <1>5, <1>6, <1>7, <1>8, <1>15 DEF CallStep
<1>16. ASSUME NEW c \in Calls, NEW s \in Sessions,
              \/ Start(c, s) \/ Interrupt(c, s) \/ Close(c, s)
              \/ \E response \in {"plain", "other"} : Verify(c, s, response)
              \/ \E r \in Requests, kind \in Kinds : Execute(c, s, r, kind)
       PROVE  toKernel' \in [Sessions -> Seq(Envelopes)] /\ kernel' \in [Sessions -> KernelRecs] /\ toHost' = toHost
  BY <1>1, <1>3, <1>4, <1>9, <1>10, <1>16
<1>17. ASSUME NEW s \in Sessions, KernelStep(s) \/ SleepEnds(s)
       PROVE  /\ toKernel' \in [Sessions -> Seq(Envelopes)] /\ kernel' \in [Sessions -> KernelRecs]
              /\ Emits(s) /\ UNCHANGED <<call, lock, kernels, answers>>
  BY <1>11, <1>17, KernelEmits
<1>18. ASSUME \/ \E s \in Sessions : KernelDies(s) \/ ping(s) \/ GoIdle(s) \/ SweepClose(s)
              \/ SweepTick \/ SweepKills \/ SweepForgets
       PROVE  toKernel' \in [Sessions -> Seq(Envelopes)] /\ kernel' \in [Sessions -> KernelRecs] /\ toHost' = toHost
  BY <1>1, <1>3, <1>4, <1>12, <1>13, <1>18
<1>19. QED  BY <1>14, <1>15, <1>16, <1>17, <1>18 DEF RNext

LEMMA PipeStep ==
  ASSUME TrackInv, PipeInv, [RNext]_vars
  PROVE  PipeInv'
<1>1. /\ toKernel' \in [Sessions -> Seq(Envelopes)] /\ kernel' \in [Sessions -> KernelRecs]
      /\ \/ toHost' = toHost
         \/ \E s \in Sessions : Emits(s)
         \/ \E c \in Calls : (handshake(c) \/ start_session(c) \/ Drain(c)) /\ Takes(call[c].session)
  BY PipesMove DEF PipeInv
<1>2. toHost \in [Sessions -> Seq(Envelopes)] /\ \A s \in Sessions : WellFormed(toHost[s])
  BY DEF PipeInv, PipeTypes
<1>3. CASE toHost' = toHost
  BY <1>1, <1>2, <1>3 DEF PipeInv, PipeTypes
<1>4. ASSUME NEW s \in Sessions, Emits(s) PROVE PipeInv'
  <2>1. PICK q \in Batches : toHost' = [toHost EXCEPT ![s] = toHost[s] \o q]
    BY <1>4 DEF Emits
  <2>2. PICK z : z = toHost[s] \o q
    OBVIOUS
  <2>3. z \in Seq(Envelopes) /\ WellFormed(z)
    BY <1>2, <2>2, BatchAppends
  <2>4. toHost' = [toHost EXCEPT ![s] = z]
    BY <2>1, <2>2
  <2>5. QED  BY <1>1, <1>2, <2>3, <2>4 DEF PipeInv, PipeTypes
<1>5. ASSUME NEW c \in Calls, handshake(c) \/ start_session(c) \/ Drain(c), Takes(call[c].session)
      PROVE  PipeInv'
  <2>1. PICK s \in Sessions : s = call[c].session
    BY <1>5 DEF handshake, start_session, Drain, TrackInv, CallOk
  <2>2. toHost[s] # <<>> /\ toHost' = [toHost EXCEPT ![s] = Tail(toHost[s])]
    BY <1>5, <2>1 DEF Takes
  <2>3. Tail(toHost[s]) \in Seq(Envelopes) /\ WellFormed(Tail(toHost[s]))
    BY <1>2, <2>2, TailWellFormed
  <2>4. QED  BY <1>1, <1>2, <2>2, <2>3 DEF PipeInv, PipeTypes
<1>6. QED  BY <1>1, <1>3, <1>4, <1>5

-----------------------------------------------------------------------------
(***************************************************************************)
(* The answers.  An execute that reads its answer holds the mutex, so no    *)
(* one else reads the pipe of its kernel or takes the kernel away.  What it *)
(* has read is of one request, and so is the event at the head of the pipe. *)
(***************************************************************************)
Pending(es, q) == es # <<>> => q # <<>> /\ q[1].msg = "event" /\ \A i \in DOMAIN es : es[i].request = q[1].request

DrainOk(d) ==
  /\ call[d].pc # "drain" => call[d].events = <<>>
  /\ call[d].pc = "drain" => /\ lock = d /\ call[d].session \in kernels
                             /\ Pending(call[d].events, toHost[call[d].session])

StreamInv == (\A d \in Calls : DrainOk(d)) /\ NeverMixed

LEMMA FreeIsNoCall == \A c \in Calls : c # Free
  BY RunnerAssumption DEF Free

LEMMA DrainStays ==
  ASSUME TrackInv, PipeTypes, NEW d \in Calls, DrainOk(d), call'[d] = call[d],
         call[d].pc = "drain" => /\ lock' = lock /\ call[d].session \in kernels'
                                 /\ \E q \in Seq(Envelopes) :
                                      toHost'[call[d].session] = toHost[call[d].session] \o q
  PROVE  DrainOk(d)'
<1>1. CASE call[d].pc # "drain"
  BY <1>1 DEF DrainOk
<1>2. CASE call[d].pc = "drain"
  <2>1. PICK s \in Sessions : s = call[d].session
    BY <1>2 DEF TrackInv, CallOk
  <2>2. PICK q \in Seq(Envelopes) : toHost'[s] = toHost[s] \o q
    BY <1>2, <2>1
  <2>3. PICK p \in Seq(Envelopes) : p = toHost[s]
    BY DEF PipeTypes
  <2>4. p # <<>> => p \o q # <<>> /\ (p \o q)[1] = p[1]
    OBVIOUS
  <2>5. Pending(call[d].events, p)
    BY <1>2, <2>1, <2>3 DEF DrainOk
  <2>6. Pending(call[d].events, p \o q)
    BY <2>4, <2>5 DEF Pending
  <2>7. call'[d].pc = "drain" /\ lock' = d /\ call'[d].session \in kernels'
        /\ Pending(call'[d].events, toHost'[call'[d].session])
    BY <1>2, <2>1, <2>2, <2>3, <2>6 DEF DrainOk
  <2>8. QED  BY <2>7 DEF DrainOk
<1>3. QED  BY <1>1, <1>2

LEMMA SamePipe ==
  ASSUME PipeTypes, NEW s \in Sessions, toHost'[s] = toHost[s]
  PROVE  \E q \in Seq(Envelopes) : toHost'[s] = toHost[s] \o q
<1>1. toHost[s] \in Seq(Envelopes) /\ <<>> \in Seq(Envelopes)
  BY DEF PipeTypes
<1>2. toHost[s] \o <<>> = toHost[s]
  BY <1>1, ConcatEmptySeq
<1>3. QED  BY <1>1, <1>2

\* Steps of no call.
LEMMA QuietStream ==
  ASSUME TrackInv, PipeTypes, StreamInv, UNCHANGED <<call, lock, answers>>, kernels \subseteq kernels' \/ lock = Free,
         toHost' = toHost \/ \E s \in Sessions : Emits(s)
  PROVE  StreamInv'
<1>1. ASSUME NEW d \in Calls PROVE DrainOk(d)'
  <2>1. call[d].pc = "drain" => call[d].session \in Sessions /\ lock = d /\ call[d].session \in kernels
    BY DEF TrackInv, CallOk, StreamInv, DrainOk
  <2>2. call[d].pc = "drain" => call[d].session \in kernels'
    BY <2>1, FreeIsNoCall
  <2>3. ASSUME NEW t \in Sessions PROVE \E q \in Seq(Envelopes) : toHost'[t] = toHost[t] \o q
    <3>1. CASE toHost'[t] = toHost[t]
      BY <3>1, SamePipe
    <3>2. CASE toHost'[t] # toHost[t]
      <4>1. PICK s \in Sessions : Emits(s)
        BY <3>2
      <4>2. PICK q \in Batches : toHost' = [toHost EXCEPT ![s] = toHost[s] \o q]
        BY <4>1 DEF Emits
      <4>3. t = s /\ toHost'[s] = toHost[s] \o q
        BY <3>2, <4>2 DEF PipeTypes
      <4>4. QED  BY <4>3 DEF Batches
    <3>3. QED  BY <3>1, <3>2
  <2>4. QED  BY <2>1, <2>2, <2>3, DrainStays DEF StreamInv
<1>2. NeverMixed'
  BY DEF StreamInv, NeverMixed
<1>3. QED  BY <1>1, <1>2 DEF StreamInv

\* Steps of one call: the others drain nothing, or are not disturbed.
LEMMA OneStream ==
  ASSUME TrackInv, PipeTypes, StreamInv, NEW c \in Calls, NEW r, call' = [call EXCEPT ![c] = r],
         DrainOk(c)', NeverMixed',
         lock' = lock \/ lock = c \/ lock = Free,
         kernels \subseteq kernels' \/ lock = Free,
         toHost' = toHost \/ lock = c \/ (call[c].session \notin kernels /\ Takes(call[c].session))
  PROVE  StreamInv'
<1>1. \A d \in Calls : d # c => call'[d] = call[d]
  BY DEF TrackInv, TrackTypes
<1>2. ASSUME NEW d \in Calls, d # c PROVE DrainOk(d)'
  <2>1. call[d].pc = "drain" => call[d].session \in Sessions /\ lock = d /\ call[d].session \in kernels
    BY DEF TrackInv, CallOk, StreamInv, DrainOk
  <2>2. call[d].pc = "drain" => lock' = lock /\ call[d].session \in kernels'
    BY <1>2, <2>1, FreeIsNoCall
  <2>3. call[d].pc = "drain" => toHost'[call[d].session] = toHost[call[d].session]
    BY <1>2, <2>1 DEF Takes, PipeTypes
  <2>4. call[d].pc = "drain" => \E q \in Seq(Envelopes) : toHost'[call[d].session] = toHost[call[d].session] \o q
    <3>1. \A t \in Sessions : toHost'[t] = toHost[t] => \E q \in Seq(Envelopes) : toHost'[t] = toHost[t] \o q
      BY SamePipe
    <3>2. QED  BY <2>1, <2>3, <3>1
  <2>5. QED  BY <1>1, <1>2, <2>2, <2>4, DrainStays DEF StreamInv
<1>3. QED  BY <1>2 DEF StreamInv

LEMMA SameAnswers ==
  ASSUME StreamInv, answers' = answers
  PROVE  NeverMixed'
  BY DEF StreamInv, NeverMixed

LEMMA CallAfter ==
  ASSUME TrackInv, NEW c \in Calls, NEW r, call' = [call EXCEPT ![c] = r], r.pc # "drain", r.events = <<>>
  PROVE  DrainOk(c)'
<1>1. call'[c] = r
  BY DEF TrackInv, TrackTypes
<1>2. QED  BY <1>1 DEF DrainOk

LEMMA EndedOk ==
  ASSUME TrackInv, NEW c \in Calls, Finish(c)
  PROVE  DrainOk(c)' /\ call' = [call EXCEPT ![c] = Idle]
<1>1. call' = [call EXCEPT ![c] = Idle]
  BY DEF Finish
<1>2. QED  BY <1>1, IdleCall, CallAfter

LEMMA GoesOk ==
  ASSUME TrackInv, StreamInv, NEW c \in Calls, NEW x \in Pcs, x # "drain", call[c].pc # "drain", Goto(c, x)
  PROVE  DrainOk(c)' /\ call' = [call EXCEPT ![c] = SetPc(call[c], x)]
<1>1. call' = [call EXCEPT ![c] = SetPc(call[c], x)]
  BY DEF Goto, SetPc
<1>2. call[c] \in CallRecs /\ call[c].events = <<>>
  BY DEF TrackInv, TrackTypes, StreamInv, DrainOk
<1>3. SetPc(call[c], x).pc = x /\ SetPc(call[c], x).events = <<>>
  BY <1>2, CallFields DEF SameFields
<1>4. QED  BY <1>1, <1>3, CallAfter

\* The calls that neither execute nor begin.
LEMMA OtherStreams ==
  ASSUME TrackInv, PipeTypes, StreamInv, NEW c \in Calls,
         \/ handshake(c) \/ start_session(c) \/ InsertKernel(c) \/ Register(c)
         \/ attach_challenge(c) \/ verify_challenge(c) \/ DrainClosed(c)
         \/ CloseRemoves(c) \/ CloseKills(c) \/ CloseForgets(c) \/ Cancel(c)
  PROVE  StreamInv'
<1>1. answers' = answers /\ NeverMixed'
  BY SameAnswers DEF handshake, start_session, InsertKernel, Register, attach_challenge, verify_challenge, DrainClosed,
     CloseRemoves, CloseKills, CloseForgets, Cancel
<1>2. DrainOk(c)' /\ \E r : call' = [call EXCEPT ![c] = r]
  <2>1. CASE Finish(c)
    BY <2>1, EndedOk
  <2>2. CASE ~Finish(c)
    <3>1. \E x \in {"session", "insert", "register", "challenge", "kill", "forget"} : Goto(c, x) /\ call[c].pc # "drain"
      BY <2>2 DEF handshake, start_session, InsertKernel, Register, attach_challenge, verify_challenge, DrainClosed,
         CloseRemoves, CloseKills, CloseForgets, Cancel
    <3>2. PICK x \in {"session", "insert", "register", "challenge", "kill", "forget"} : Goto(c, x) /\ call[c].pc # "drain"
      BY <3>1
    <3>3. x \in Pcs /\ x # "drain"
      BY DEF Pcs, Pre
    <3>4. QED  BY <3>2, <3>3, GoesOk
  <2>3. QED  BY <2>1, <2>2
<1>3. lock' = lock \/ lock = c \/ lock = Free
  <2>1. call[c].pc = "drain" => lock = c
    BY DEF StreamInv, DrainOk
  <2>2. QED  BY <2>1 DEF handshake, start_session, InsertKernel, Register, attach_challenge, verify_challenge,
          DrainClosed, CloseRemoves, CloseKills, CloseForgets, Cancel
<1>4. kernels \subseteq kernels' \/ lock = Free
  BY DEF handshake, start_session, InsertKernel, Register, attach_challenge, verify_challenge,
     DrainClosed, CloseRemoves, RemoveKernel, CloseKills, CloseForgets, Cancel
<1>5. toHost' = toHost \/ (call[c].session \notin kernels /\ Takes(call[c].session))
  <2>1. CASE handshake(c) \/ start_session(c)
    <3>1. call[c].pc \in Pre
      BY <2>1 DEF handshake, start_session, Pre
    <3>2. call[c].session \notin kernels
      BY <3>1, NotYetInserted
    <3>3. QED  BY <2>1, <3>2 DEF handshake, start_session, Takes, Received, pipes
  <2>2. CASE ~(handshake(c) \/ start_session(c))
    BY <2>2 DEF InsertKernel, Register, attach_challenge, verify_challenge,
       DrainClosed, CloseRemoves, CloseKills, CloseForgets, Cancel, pipes
  <2>3. QED  BY <2>1, <2>2
<1>6. QED  BY <1>1, <1>2, <1>3, <1>4, <1>5, OneStream

\* The calls that begin.
LEMMA NewStreams ==
  ASSUME TrackInv, PipeTypes, StreamInv, NEW c \in Calls, NEW s \in Sessions,
         \/ Start(c, s) \/ Interrupt(c, s) \/ Close(c, s)
         \/ \E response \in {"plain", "other"} : Verify(c, s, response)
         \/ \E r \in Requests, kind \in Kinds : Execute(c, s, r, kind)
  PROVE  StreamInv'
<1>1. UNCHANGED <<kernels, lock, answers, toHost>>
  BY DEF Start, Interrupt, Close, Verify, Execute, pipes
<1>2. PICK r : call' = [call EXCEPT ![c] = r] /\ r.pc # "drain" /\ r.events = <<>>
  <2>1. \A o \in Ops : Task(o, s) \in CallRecs /\ Task(o, s).pc = "lock" /\ Task(o, s).events = <<>>
    BY TaskCall
  <2>2. {"start", "interrupt", "close", "verify", "execute"} \subseteq Ops
    BY DEF Ops
  <2>pc. ASSUME NEW t \in CallRecs, NEW x \in Pcs
         PROVE  SetPc(t, x) \in CallRecs /\ SetPc(t, x).pc = x /\ SetPc(t, x).events = t.events
    BY CallFields DEF SameFields
  <2>request. ASSUME NEW t \in CallRecs, NEW x \in Requests
         PROVE  SetRequest(t, x) \in CallRecs /\ SetRequest(t, x).pc = t.pc /\ SetRequest(t, x).events = t.events
    BY CallFields DEF SameFields
  <2>kind. ASSUME NEW t \in CallRecs, NEW x \in AllKinds
         PROVE  SetKind(t, x) \in CallRecs /\ SetKind(t, x).pc = t.pc /\ SetKind(t, x).events = t.events
    BY CallFields DEF SameFields
  <2>3. CASE Interrupt(c, s) \/ Close(c, s)
    BY <2>1, <2>2, <2>3 DEF Interrupt, Close, Begin
  <2>4. CASE Start(c, s)
    <3>1. PICK ask \in BOOLEAN : Begin(c, [Task("start", s) EXCEPT !.pc = "handshake", !.timeout = ask])
      BY <2>4 DEF Start
    <3>2. call' = [call EXCEPT ![c] = SetTimeout(SetPc(Task("start", s), "handshake"), ask)]
      BY <3>1 DEF Begin, SetTimeout, SetPc
    <3>3. "handshake" \in Pcs
      BY DEF Pcs, Pre
    <3>4. PICK q \in CallRecs : q = SetPc(Task("start", s), "handshake") /\ q.pc = "handshake" /\ q.events = <<>>
      BY <2>1, <2>2, <2>pc, <3>3
    <3>5. SetTimeout(q, ask).pc = "handshake" /\ SetTimeout(q, ask).events = <<>>
      BY <3>4, CallFields DEF SameFields
    <3>6. QED  BY <3>2, <3>4, <3>5
  <2>5. ASSUME NEW response \in {"plain", "other"}, Verify(c, s, response)
        PROVE  \E q : call' = [call EXCEPT ![c] = q] /\ q.pc # "drain" /\ q.events = <<>>
    <3>1. call' = [call EXCEPT ![c] = SetKind(SetPc(Task("verify", s), "compare"), response)]
      BY <2>5 DEF Verify, Begin, SetKind, SetPc
    <3>2. "compare" \in Pcs /\ response \in AllKinds
      BY DEF Pcs, AllKinds
    <3>3. PICK q \in CallRecs : q = SetPc(Task("verify", s), "compare") /\ q.pc = "compare" /\ q.events = <<>>
      BY <2>1, <2>2, <2>pc, <3>2
    <3>4. SetKind(q, response).pc = "compare" /\ SetKind(q, response).events = <<>>
      BY <2>kind, <3>2, <3>3
    <3>5. QED  BY <3>1, <3>3, <3>4
  <2>6. ASSUME NEW x \in Requests, NEW kind \in Kinds, Execute(c, s, x, kind)
        PROVE  \E q : call' = [call EXCEPT ![c] = q] /\ q.pc # "drain" /\ q.events = <<>>
    <3>1. PICK timed \in BOOLEAN :
            Begin(c, [Task("execute", s) EXCEPT !.request = x, !.kind = kind, !.timeout = timed])
      BY <2>6 DEF Execute
    <3>2. call' = [call EXCEPT ![c] = SetTimeout(SetKind(SetRequest(Task("execute", s), x), kind), timed)]
      BY <3>1 DEF Begin, SetTimeout, SetKind, SetRequest
    <3>3. kind \in AllKinds
      BY DEF AllKinds
    <3>4. PICK q1 \in CallRecs : q1 = SetRequest(Task("execute", s), x) /\ q1.pc = "lock" /\ q1.events = <<>>
      BY <2>1, <2>2, <2>request
    <3>5. PICK q2 \in CallRecs : q2 = SetKind(q1, kind) /\ q2.pc = "lock" /\ q2.events = <<>>
      BY <2>kind, <3>3, <3>4
    <3>6. SetTimeout(q2, timed).pc = "lock" /\ SetTimeout(q2, timed).events = <<>>
      BY <3>5, CallFields DEF SameFields
    <3>7. QED  BY <3>2, <3>4, <3>5, <3>6
  <2>7. QED  BY <2>3, <2>4, <2>5, <2>6
<1>3. DrainOk(c)'
  BY <1>2, CallAfter
<1>4. QED  BY <1>1, <1>2, <1>3, SameAnswers, OneStream

\* An execute takes the mutex and begins to read with nothing read.
LEMMA LockStream ==
  ASSUME TrackInv, PipeTypes, StreamInv, NEW c \in Calls, LockKernels(c)
  PROVE  StreamInv'
<1>1. UNCHANGED <<toHost, kernels, answers>> /\ lock = Free
  BY DEF LockKernels
<1>2. CASE Finish(c)
  BY <1>1, <1>2, EndedOk, SameAnswers, OneStream
<1>3. CASE Goto(c, "drain") /\ lock' = c /\ call[c].session \in kernels
  <2>1. call' = [call EXCEPT ![c] = SetPc(call[c], "drain")]
    BY <1>3 DEF Goto, SetPc
  <2>2. call[c] \in CallRecs /\ call[c].events = <<>> /\ "drain" \in Pcs
    BY DEF TrackInv, TrackTypes, StreamInv, DrainOk, LockKernels, Pcs
  <2>3. /\ SetPc(call[c], "drain").pc = "drain" /\ SetPc(call[c], "drain").events = <<>>
        /\ SetPc(call[c], "drain").session = call[c].session
    BY <2>2, CallFields DEF SameFields
  <2>4. call'[c] = SetPc(call[c], "drain")
    BY <2>1 DEF TrackInv, TrackTypes
  <2>5. DrainOk(c)'
    BY <1>1, <1>3, <2>3, <2>4 DEF DrainOk, Pending
  <2>6. QED  BY <1>1, <2>1, <2>5, SameAnswers, OneStream
<1>4. QED  BY <1>2, <1>3 DEF LockKernels

Uniform(es) == \A i, j \in DOMAIN es : es[i].request = es[j].request

LEMMA UniformAnswer ==
  ASSUME StreamInv, NEW a, answers' = answers \cup {a}, Uniform(a.events)
  PROVE  NeverMixed'
  BY DEF StreamInv, NeverMixed, Uniform

\* The next event is of the request of those read before.
LEMMA ReadsOn ==
  ASSUME NEW p \in Seq(Envelopes), p # <<>>, WellFormed(p), p[1].msg = "event", NEW es \in Seq(Envelopes), Pending(es, p)
  PROVE  /\ Uniform(Append(es, p[1]))
         /\ p[1].kind # "done" => Pending(Append(es, p[1]), Tail(p))
<1>1. /\ p[1] \in Envelopes /\ Len(es) \in Nat /\ DOMAIN es = 1..Len(es) /\ Len(p) \in Nat /\ Len(p) > 0
      /\ DOMAIN p = 1..Len(p)
  OBVIOUS
<1>2. PICK f : f = Append(es, p[1])
  OBVIOUS
<1>3. /\ DOMAIN f = 1..(Len(es) + 1) /\ f[Len(es) + 1] = p[1] /\ \A i \in 1..Len(es) : f[i] = es[i]
  BY <1>1, <1>2
<1>4. \A i \in DOMAIN es : es[i].request = p[1].request
  BY DEF Pending
<1>5. ASSUME NEW i \in DOMAIN f PROVE f[i].request = p[1].request
  <2>1. CASE i = Len(es) + 1
    BY <1>3, <2>1
  <2>2. CASE i # Len(es) + 1
    <3>1. i \in DOMAIN es /\ f[i] = es[i]
      BY <1>1, <1>3, <2>2
    <3>2. QED  BY <1>4, <3>1
  <2>3. QED  BY <2>1, <2>2
<1>6. Uniform(f)
  BY <1>5 DEF Uniform
<1>7. ASSUME p[1].kind # "done" PROVE Pending(f, Tail(p))
  <2>1. 1 \in DOMAIN p
    BY <1>1
  <2>2. 1 + 1 \in DOMAIN p /\ p[1 + 1].msg = "event" /\ p[1 + 1].request = p[1].request
    BY <1>7, <2>1 DEF WellFormed
  <2>3. Tail(p) # <<>> /\ Tail(p)[1] = p[1 + 1]
    <3>1. Len(p) - 1 >= 1 /\ 1 \in 1..(Len(p) - 1)
      BY <1>1, <2>2
    <3>2. Len(Tail(p)) = Len(p) - 1 /\ \A i \in 1..(Len(p) - 1) : Tail(p)[i] = p[i + 1]
      OBVIOUS
    <3>3. Tail(p) # <<>>
      <4>1. Len(Tail(p)) # 0
        BY <1>1, <3>1, <3>2
      <4>2. Len(<<>>) = 0
        OBVIOUS
      <4>3. QED  BY ONLY <4>1, <4>2, Zenon
    <3>4. Tail(p)[1] = p[1 + 1]
      BY <3>1, <3>2
    <3>5. QED  BY <3>3, <3>4
  <2>4. QED  BY <1>5, <2>2, <2>3 DEF Pending
<1>8. QED  BY <1>2, <1>6, <1>7

\* One envelope is read, or the deadline ends the reading.
LEMMA DrainStream ==
  ASSUME TrackInv, PipeInv, StreamInv, NEW c \in Calls, Drain(c) \/ Timeout(c)
  PROVE  StreamInv'
<1>1. PICK s \in Sessions : s = call[c].session
  BY DEF Drain, Timeout, TrackInv, CallOk
<1>2. /\ kernels' = kernels /\ call[c].pc = "drain" /\ lock = c /\ s \in kernels /\ Pending(call[c].events, toHost[s])
      /\ call[c] \in CallRecs /\ call[c].events \in Seq(Envelopes) /\ PipeTypes
  BY <1>1 DEF Drain, Timeout, StreamInv, DrainOk, TrackInv, TrackTypes, CallRecs, PipeInv
<1>3. CASE Timeout(c)
  <2>1. PICK a : a = [Answer(c, TRUE) EXCEPT !.events = <<>>]
    OBVIOUS
  <2>2. a.events = <<>>
    BY <2>1 DEF Answer
  <2>3. answers' = answers \cup {a} /\ Finish(c) /\ toHost' = toHost
    BY <1>3, <2>1 DEF Timeout
  <2>4. Uniform(a.events)
    BY <2>2 DEF Uniform
  <2>5. QED  BY <1>2, <2>3, <2>4, UniformAnswer, EndedOk, OneStream
<1>4. CASE Drain(c)
  <2>1. PICK p \in Seq(Envelopes) : p = toHost[s] /\ WellFormed(p)
    BY DEF PipeInv, PipeTypes
  <2>2. p # <<>> /\ toHost' = [toHost EXCEPT ![s] = Tail(p)] /\ recv(s) = p[1]
    BY <1>1, <1>4, <2>1 DEF Drain, Received, recv
  <2>3. CASE Finish(c) /\ answers' = answers
    BY <1>2, <2>3, EndedOk, SameAnswers, OneStream
  <2>4. CASE p[1].msg = "event" /\ p[1].kind # "done"
    <3>1. PICK f : f = Append(call[c].events, p[1])
      OBVIOUS
    <3>2. f \in Seq(Envelopes) /\ Pending(f, Tail(p))
      <4>1. p[1] \in Envelopes
        BY <2>2
      <4>2. QED  BY <1>2, <2>1, <2>2, <2>4, <3>1, <4>1, ReadsOn
    <3>3. drain(c, recv(s)) /\ UNCHANGED <<lock, answers>>
      BY <1>1, <1>4, <2>2, <2>4 DEF Drain
    <3>4. call' = [call EXCEPT ![c] = SetEvents(call[c], f)]
      BY <2>2, <3>1, <3>3 DEF drain, SetEvents
    <3>5. /\ SetEvents(call[c], f).pc = "drain" /\ SetEvents(call[c], f).events = f
          /\ SetEvents(call[c], f).session = s
      BY <1>1, <1>2, <3>2, CallFields DEF SameFields
    <3>6. call'[c] = SetEvents(call[c], f)
      BY <3>4 DEF TrackInv, TrackTypes
    <3>7. toHost'[s] = Tail(p)
      BY <2>2 DEF PipeInv, PipeTypes
    <3>8. DrainOk(c)'
      BY <1>2, <3>2, <3>3, <3>5, <3>6, <3>7 DEF DrainOk
    <3>9. QED  BY <1>2, <3>3, <3>4, <3>8, SameAnswers, OneStream
  <2>5. CASE p[1].msg = "event" /\ p[1].kind = "done"
    <3>1. PICK a : a = [Answer(c, FALSE) EXCEPT !.events = Append(@, p[1])]
      OBVIOUS
    <3>2. a.events = Append(call[c].events, p[1])
      BY <3>1 DEF Answer
    <3>3. Uniform(a.events)
      BY <1>2, <2>1, <2>2, <2>5, <3>2, ReadsOn
    <3>4. answers' = answers \cup {a} /\ Finish(c)
      BY <1>1, <1>4, <2>2, <2>5, <3>1 DEF Drain
    <3>5. QED  BY <1>2, <3>3, <3>4, UniformAnswer, EndedOk, OneStream
  <2>6. QED  BY <1>1, <1>4, <2>2, <2>3, <2>4, <2>5 DEF Drain
<1>5. QED  BY <1>3, <1>4

LEMMA StreamStep ==
  ASSUME TrackInv, PipeInv, StreamInv, [RNext]_vars
  PROVE  StreamInv'
<1>0. PipeTypes
  BY DEF PipeInv
<1>1. ASSUME NEW c \in Calls, CallStep(c) \/ Cancel(c) \/ Timeout(c) PROVE StreamInv'
  BY <1>0, <1>1, OtherStreams, LockStream, DrainStream DEF CallStep
<1>2. ASSUME NEW c \in Calls, NEW s \in Sessions,
             \/ Start(c, s) \/ Interrupt(c, s) \/ Close(c, s)
             \/ \E response \in {"plain", "other"} : Verify(c, s, response)
             \/ \E r \in Requests, kind \in Kinds : Execute(c, s, r, kind)
      PROVE  StreamInv'
  BY <1>0, <1>2, NewStreams
<1>3. ASSUME NEW s \in Sessions, KernelStep(s) \/ SleepEnds(s) PROVE StreamInv'
  <2>1. UNCHANGED <<call, lock, kernels, answers>>
    BY <1>3 DEF KernelStep, handle, sleep_interruptible, SleepEnds
  <2>2. QED  BY <1>0, <1>3, <2>1, KernelEmits, QuietStream
<1>4. ASSUME \/ \E s \in Sessions : KernelDies(s) \/ ping(s) \/ GoIdle(s) \/ SweepClose(s)
             \/ SweepTick \/ SweepKills \/ SweepForgets \/ UNCHANGED vars
      PROVE  StreamInv'
  <2>1. UNCHANGED <<call, lock, answers, toHost>> /\ (kernels \subseteq kernels' \/ lock = Free)
    BY <1>4 DEF KernelDies, ping, GoIdle, SweepClose, RemoveKernel, SweepTick, SweepKills, SweepForgets, vars, pipes
  <2>2. QED  BY <1>0, <2>1, QuietStream
<1>5. QED  BY <1>1, <1>2, <1>3, <1>4 DEF RNext

-----------------------------------------------------------------------------
RunnerInv == TrackInv /\ PipeInv /\ StreamInv

LEMMA RunnerStart == RInit => RunnerInv
<1> SUFFICES ASSUME RInit PROVE RunnerInv
  OBVIOUS
<1>1. TrackInv
  BY TrackStart
<1>2. <<>> \in Seq(Envelopes) /\ WellFormed(<<>>)
  BY DEF WellFormed
<1>3. KernelIdle \in KernelRecs
  BY <1>2 DEF KernelIdle, KernelRecs
<1>4. PipeInv
  BY <1>2, <1>3 DEF RInit, PipeInv, PipeTypes
<1>5. StreamInv
  BY IdleCall DEF RInit, StreamInv, DrainOk, NeverMixed
<1>6. QED  BY <1>1, <1>4, <1>5 DEF RunnerInv

\* Whatever kernels, calls, dropped clients and the sweeper do, an answer of
\* execute holds events of one request, and a kernel in the map of the back end
\* is known to the registry, is being started, or was dropped between the maps.
THEOREM RunnerAlwaysSound == Spec => []RunnerSound
<1>1. RInit => RunnerInv
  BY RunnerStart
<1>2. RunnerInv /\ [RNext]_vars => RunnerInv'
  <2> SUFFICES ASSUME RunnerInv, [RNext]_vars PROVE RunnerInv'
    OBVIOUS
  <2>1. TrackInv /\ PipeInv /\ StreamInv /\ PipeTypes
    BY DEF RunnerInv, PipeInv
  <2>2. TrackInv' /\ PipeInv' /\ StreamInv'
    BY <2>1, TrackStep, PipeStep, StreamStep
  <2>3. QED  BY <2>2 DEF RunnerInv
<1>3. RunnerInv => RunnerSound
  BY DEF RunnerInv, TrackInv, StreamInv, RunnerSound
<1>4. QED  BY <1>1, <1>2, <1>3, PTL DEF Spec
=============================================================================
