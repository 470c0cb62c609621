---------------------------- MODULE KernelRunner ----------------------------
(***************************************************************************)
(* The runner: gRPC calls (opsense-runner/src/server.rs) on a registry of   *)
(* sessions with an idle sweeper (session.rs), over a back end that owns    *)
(* one kernel process per session (backend/ipc.rs), driven through the      *)
(* host side of the framed protocol (opsense-proto/src/host.rs).  The       *)
(* kernel is the reference kernel, opsense-kernel-echo.                     *)
(*                                                                          *)
(* A call is a task of its own; it may be preempted at every await.  The    *)
(* map of kernels is one mutex, held by an execute until the kernel has     *)
(* answered.  The registry mutex is only held between awaits.  A client     *)
(* mints a new key pair for every session (client/grpc.rs), so an id is     *)
(* started once.                                                            *)
(***************************************************************************)
EXTENDS Naturals, Sequences, FiniteSets

CONSTANTS
    Sessions,    \* ids of sessions a client may start
    Calls,       \* slots for the gRPC calls in flight, numbers
    Requests,    \* request ids of Execute calls, numbers
    Kinds,       \* what the code of a request does: "sleep", "print", "err"
    Crashes,     \* sessions whose kernel process may die by itself
    MaxCalls     \* bound on the calls of a behaviour

ASSUME RunnerAssumption == Calls \subseteq Nat \ {0}

VARIABLES
    meta,      \* SessionRegistry::sessions: id -> [idle, role, asked, challenge], or NoMeta
    kernels,   \* ids in IpcKernelBackend::kernels
    proc,      \* id -> state of its kernel process
    toKernel,  \* id -> envelopes on its stdin
    toHost,    \* id -> envelopes on its stdout
    kernel,    \* id -> the main loop of the kernel
    call,      \* the task of each call
    lock,      \* who holds the mutex on the map of kernels
    sweep,     \* the sweeper: the expired ids it has still to close, and where it is
    answers,   \* outcomes returned so far: [request, session, events, timed_out]
    cancelled, \* ids whose Start was dropped before the registry knew of them
    issued     \* [requests, calls] made so far

vars == <<meta, kernels, proc, toKernel, toHost, kernel, call, lock, sweep,
          answers, cancelled, issued>>
pipes == <<toKernel, toHost, kernel>>

None == "none"
NoRequest == 0
Free == 0
NoMeta == [idle |-> FALSE, role |-> "absent", asked |-> None, challenge |-> None]
Idle == [op |-> "idle", pc |-> "idle", session |-> None, request |-> NoRequest,
         kind |-> None, timeout |-> FALSE, events |-> <<>>]
KernelIdle == [pc |-> "loop", request |-> NoRequest, inbox |-> <<>>]

Envelope(msg, request, kind) == [msg |-> msg, request |-> request, kind |-> kind]
Plain(msg) == Envelope(msg, NoRequest, None)

RInit ==
    /\ meta = [s \in Sessions |-> NoMeta]
    /\ kernels = {}
    /\ proc = [s \in Sessions |-> "unborn"]
    /\ toKernel = [s \in Sessions |-> <<>>]
    /\ toHost = [s \in Sessions |-> <<>>]
    /\ kernel = [s \in Sessions |-> KernelIdle]
    /\ call = [c \in Calls |-> Idle]
    /\ lock = Free
    /\ sweep = [pc |-> "tick", left |-> {}, at |-> None]
    /\ answers = {}
    /\ cancelled = {}
    /\ issued = [requests |-> {}, calls |-> 0]

Finish(c) == call' = [call EXCEPT ![c] = Idle]
Goto(c, pc) == call' = [call EXCEPT ![c].pc = pc]
touch(s) == meta' = IF meta[s] = NoMeta THEN meta ELSE [meta EXCEPT ![s].idle = FALSE]

-----------------------------------------------------------------------------
(* The host side of the protocol *)

send(s, env) == toKernel' = [toKernel EXCEPT ![s] = Append(@, env)]

\* The next envelope of a kernel, if there is one.
recv(s) == Head(toHost[s])
Received(s) == toHost[s] # <<>>
Closed(s) == toHost[s] = <<>> /\ proc[s] = "dead"

\* An execute adds one event to its outcome.  The result value is kept apart
\* and is no event of its own; it is an event here so that its request counts.
drain(c, env) == call' = [call EXCEPT ![c].events = Append(@, env)]

-----------------------------------------------------------------------------
(* The kernel process *)

Event(r, kind) == Envelope("event", r, kind)
Done(r) == Envelope("event", r, "done")

\* emit without the end of the stream.
emit_NoDone(s, r, events) == toHost' = [toHost EXCEPT ![s] = @ \o events]

\* emit: the events of a request and the end of its stream.
emit(s, r, events) == toHost' = [toHost EXCEPT ![s] = @ \o events \o <<Done(r)>>]
ack(s) == toHost' = [toHost EXCEPT ![s] = Append(@, Plain("ack"))]

\* The frame the main loop handles next: parked ones first.
NextFrame(s) == IF kernel[s].inbox # <<>> THEN Head(kernel[s].inbox) ELSE Head(toKernel[s])
HasFrame(s) == kernel[s].inbox # <<>> \/ toKernel[s] # <<>>
TakeFrame(s, k) ==
    IF kernel[s].inbox # <<>>
    THEN /\ kernel' = [kernel EXCEPT ![s] = [k EXCEPT !.inbox = Tail(@)]]
         /\ UNCHANGED toKernel
    ELSE /\ toKernel' = [toKernel EXCEPT ![s] = Tail(@)]
         /\ kernel' = [kernel EXCEPT ![s] = k]

\* exec_code: a request that sleeps keeps the kernel busy, the others are
\* answered at once.
exec_code(s, env) ==
    IF env.kind = "sleep"
    THEN /\ TakeFrame(s, [kernel[s] EXCEPT !.pc = "sleeping", !.request = env.request])
         /\ UNCHANGED toHost
    ELSE /\ TakeFrame(s, kernel[s])
         /\ emit(s, env.request, <<Event(env.request, env.kind)>>)

handle(s) ==
    /\ proc[s] \in {"spawned", "live", "closing"}
    /\ kernel[s].pc = "loop"
    /\ HasFrame(s)
    /\ LET env == NextFrame(s) IN
       \/ /\ env.msg = "code"
          /\ exec_code(s, env)
       \/ /\ env.msg \in {"hello", "start"}
          /\ TakeFrame(s, kernel[s])
          /\ toHost' = [toHost EXCEPT ![s] = Append(@, Plain(IF env.msg = "hello" THEN "welcome" ELSE "handle"))]
       \/ /\ env.msg \in {"interrupt", "close"}
          /\ TakeFrame(s, kernel[s])
          /\ ack(s)
    /\ UNCHANGED <<meta, kernels, proc, call, lock, sweep, answers, cancelled, issued>>

\* sleep_interruptible: the sleep ends by itself, is cancelled by an interrupt,
\* which it consumes, or parks another frame.
SleepEnds(s) ==
    /\ kernel[s].pc = "sleeping" /\ proc[s] # "dead"
    /\ kernel' = [kernel EXCEPT ![s].pc = "loop", ![s].request = NoRequest]
    /\ emit(s, kernel[s].request, <<>>)
    /\ UNCHANGED <<toKernel, meta, kernels, proc, call, lock, sweep, answers, cancelled, issued>>

sleep_interruptible(s) ==
    /\ kernel[s].pc = "sleeping" /\ proc[s] # "dead"
    /\ toKernel[s] # <<>>
    /\ toKernel' = [toKernel EXCEPT ![s] = Tail(@)]
    /\ IF Head(toKernel[s]).msg = "interrupt"
       THEN /\ kernel' = [kernel EXCEPT ![s].pc = "loop", ![s].request = NoRequest]
            /\ emit(s, kernel[s].request, <<Event(kernel[s].request, "cancelled")>>)
       ELSE /\ kernel' = [kernel EXCEPT ![s].inbox = Append(@, Head(toKernel[s]))]
            /\ UNCHANGED toHost
    /\ UNCHANGED <<meta, kernels, proc, call, lock, sweep, answers, cancelled, issued>>

KernelDies(s) ==
    /\ s \in Crashes
    /\ proc[s] \in {"spawned", "live"}
    /\ proc' = [proc EXCEPT ![s] = "dead"]
    /\ UNCHANGED <<pipes, meta, kernels, call, lock, sweep, answers, cancelled, issued>>

-----------------------------------------------------------------------------
(* Start: signature, spawn, handshake, session, then the two maps.  A call
   begins here once its signature has verified, which touches nothing; a call
   that does not verify is refused and changes nothing. *)

Begin(c, rec) ==
    /\ call[c].pc = "idle" /\ \A d \in Calls : call[d].pc = "idle" => c <= d
    /\ issued.calls < MaxCalls
    /\ call' = [call EXCEPT ![c] = rec]
    /\ issued' = [requests |-> issued.requests \cup ({rec.request} \ {NoRequest}), calls |-> issued.calls + 1]
Task(op, s) == [Idle EXCEPT !.op = op, !.pc = "lock", !.session = s]

\* The child is spawned; the three messages of the handshake follow in turn.
Start(c, s) ==
    /\ proc[s] = "unborn"
    /\ \A d \in Calls : ~(call[d].op = "start" /\ call[d].session = s)
    /\ \E ask \in BOOLEAN : Begin(c, [Task("start", s) EXCEPT !.pc = "handshake", !.timeout = ask])
    /\ proc' = [proc EXCEPT ![s] = "spawned"]
    /\ send(s, Plain("hello"))
    /\ UNCHANGED <<toHost, kernel, meta, kernels, lock, sweep, answers, cancelled>>

handshake(c) ==
    LET s == call[c].session IN
    /\ call[c].pc = "handshake"
    /\ \/ /\ Received(s) /\ recv(s).msg = "welcome"
          /\ toHost' = [toHost EXCEPT ![s] = Tail(@)]
          /\ send(s, Plain("start"))
          /\ Goto(c, "session")
          /\ UNCHANGED <<kernel, proc>>
       \/ /\ Closed(s)
          /\ Finish(c)
          /\ UNCHANGED <<pipes, proc>>
    /\ UNCHANGED <<meta, kernels, lock, sweep, answers, cancelled, issued>>

start_session(c) ==
    LET s == call[c].session IN
    /\ call[c].pc = "session"
    /\ \/ /\ Received(s)
          /\ toHost' = [toHost EXCEPT ![s] = Tail(@)]
          /\ Goto(c, "insert")
          /\ UNCHANGED <<toKernel, kernel>>
       \/ /\ Closed(s)
          /\ Finish(c)
          /\ UNCHANGED pipes
    /\ UNCHANGED <<meta, kernels, proc, lock, sweep, answers, cancelled, issued>>

\* The process goes into the map of kernels, for which the mutex must be free.
InsertKernel(c) ==
    LET s == call[c].session IN
    /\ call[c].pc = "insert" /\ lock = Free
    /\ kernels' = kernels \cup {s}
    /\ proc' = [proc EXCEPT ![s] = IF @ = "dead" THEN @ ELSE "live"]
    /\ Goto(c, "register")
    /\ UNCHANGED <<pipes, meta, lock, sweep, answers, cancelled, issued>>

\* The registry learns of the session.  When a challenge is asked for, the
\* runner without a master key fails after the session was made.
Register(c) ==
    LET s == call[c].session IN
    /\ call[c].pc = "register"
    /\ meta' = [meta EXCEPT ![s] = [idle |-> FALSE, role |-> None, asked |-> None, challenge |-> None]]
    /\ IF call[c].timeout
       THEN \/ Goto(c, "challenge")
            \/ Finish(c)
       ELSE Finish(c)
    /\ UNCHANGED <<pipes, kernels, proc, lock, sweep, answers, cancelled, issued>>

attach_challenge(c) ==
    LET s == call[c].session IN
    /\ call[c].pc = "challenge"
    /\ meta' = IF meta[s] = NoMeta THEN meta
               ELSE [meta EXCEPT ![s] = [idle |-> FALSE, role |-> @.role, asked |-> "role", challenge |-> "plain"]]
    /\ Finish(c)
    /\ UNCHANGED <<pipes, kernels, proc, lock, sweep, answers, cancelled, issued>>

\* The client goes away: the task of the call is dropped at an await.  A child
\* that is in no map ends with the pipes the task owned; the mutex is released.
Cancel(c) ==
    LET s == call[c].session IN
    /\ call[c].pc \in {"handshake", "session", "insert", "register", "drain", "kill", "forget"}
    /\ proc' = IF s \in kernels THEN proc ELSE [proc EXCEPT ![s] = "dead"]
    /\ cancelled' = IF call[c].op = "start" THEN cancelled \cup {s} ELSE cancelled
    /\ lock' = IF lock = c THEN Free ELSE lock
    /\ Finish(c)
    /\ UNCHANGED <<pipes, meta, kernels, sweep, answers, issued>>

-----------------------------------------------------------------------------
(* Verify: the answer to a challenge *)

Verify(c, s, response) ==
    /\ meta[s] # NoMeta
    /\ Begin(c, [Task("verify", s) EXCEPT !.pc = "compare", !.kind = response])
    /\ meta[s].challenge # None
    /\ meta' = [meta EXCEPT ![s].idle = FALSE, ![s].challenge = None]
    /\ UNCHANGED <<pipes, kernels, proc, lock, sweep, answers, cancelled>>

verify_challenge(c) ==
    LET s == call[c].session IN
    /\ call[c].pc = "compare"
    /\ meta' = IF meta[s] = NoMeta THEN meta
               ELSE IF call[c].kind = "plain"
                    THEN [meta EXCEPT ![s].role = meta[s].asked, ![s].asked = None]
                    ELSE [meta EXCEPT ![s].challenge = "plain"]
    /\ Finish(c)
    /\ UNCHANGED <<pipes, kernels, proc, lock, sweep, answers, cancelled, issued>>

-----------------------------------------------------------------------------
(* Execute, Interrupt, Ping *)

Execute(c, s, r, kind) ==
    /\ r \notin issued.requests /\ \A q \in Requests \ issued.requests : r <= q
    /\ \E timed \in BOOLEAN :
         Begin(c, [Task("execute", s) EXCEPT !.request = r, !.kind = kind, !.timeout = timed])
    /\ touch(s)
    /\ UNCHANGED <<pipes, kernels, proc, lock, sweep, answers, cancelled>>

Interrupt(c, s) ==
    /\ Begin(c, Task("interrupt", s))
    /\ touch(s)
    /\ UNCHANGED <<pipes, kernels, proc, lock, sweep, answers, cancelled>>

ping(s) ==
    /\ meta[s] # NoMeta
    /\ touch(s)
    /\ UNCHANGED <<pipes, kernels, proc, call, lock, sweep, answers, cancelled, issued>>

\* The mutex is taken; a session without a kernel is an error.
LockKernels(c) ==
    LET s == call[c].session IN
    /\ call[c].pc = "lock" /\ call[c].op \in {"execute", "interrupt"} /\ lock = Free
    /\ IF s \notin kernels
       THEN /\ Finish(c)
            /\ UNCHANGED <<lock, toKernel>>
       ELSE IF call[c].op = "interrupt"
       THEN /\ send(s, Plain("interrupt"))
            /\ Finish(c)
            /\ UNCHANGED lock
       ELSE /\ send(s, Envelope("code", call[c].request, call[c].kind))
            /\ lock' = c
            /\ Goto(c, "drain")
    /\ UNCHANGED <<toHost, kernel, meta, kernels, proc, sweep, answers, cancelled, issued>>

Answer(c, timed_out) ==
    [request |-> call[c].request, session |-> call[c].session,
     events |-> call[c].events, timed_out |-> timed_out]

\* Drain that ends only at the done of its own request.
Drain_PastDone(c) ==
    LET s == call[c].session IN
    /\ call[c].pc = "drain"
    /\ Received(s)
    /\ toHost' = [toHost EXCEPT ![s] = Tail(@)]
    /\ \/ /\ recv(s).msg = "event" /\ (recv(s).kind # "done" \/ recv(s).request # call[c].request)
          /\ drain(c, recv(s))
          /\ UNCHANGED <<lock, answers>>
       \/ /\ recv(s).msg = "event" /\ recv(s).kind = "done" /\ recv(s).request = call[c].request
          /\ answers' = answers \cup {[Answer(c, FALSE) EXCEPT !.events = Append(@, recv(s))]}
          /\ lock' = Free
          /\ Finish(c)
       \/ /\ recv(s).msg # "event"
          /\ lock' = Free
          /\ Finish(c)
          /\ UNCHANGED answers
    /\ UNCHANGED <<toKernel, kernel, meta, kernels, proc, sweep, cancelled, issued>>

\* One envelope of the answer: an event, its end, or anything else, which is
\* an error and ends the call with the rest unread.
Drain(c) ==
    LET s == call[c].session IN
    /\ call[c].pc = "drain"
    /\ Received(s)
    /\ toHost' = [toHost EXCEPT ![s] = Tail(@)]
    /\ \/ /\ recv(s).msg = "event" /\ recv(s).kind # "done"
          /\ drain(c, recv(s))
          /\ UNCHANGED <<lock, answers>>
       \/ /\ recv(s).msg = "event" /\ recv(s).kind = "done"
          /\ answers' = answers \cup {[Answer(c, FALSE) EXCEPT !.events = Append(@, recv(s))]}
          /\ lock' = Free
          /\ Finish(c)
       \/ /\ recv(s).msg # "event"
          /\ lock' = Free
          /\ Finish(c)
          /\ UNCHANGED answers
    /\ UNCHANGED <<toKernel, kernel, meta, kernels, proc, sweep, cancelled, issued>>
DrainClosed(c) ==
    /\ call[c].pc = "drain"
    /\ Closed(call[c].session)
    /\ lock' = Free
    /\ Finish(c)
    /\ UNCHANGED <<pipes, meta, kernels, proc, sweep, answers, cancelled, issued>>

\* The deadline of the host: the kernel is asked to stop, nothing more is read.
Timeout(c) ==
    /\ call[c].pc = "drain" /\ call[c].timeout
    /\ send(call[c].session, Plain("interrupt"))
    /\ answers' = answers \cup {[Answer(c, TRUE) EXCEPT !.events = <<>>]}
    /\ lock' = Free
    /\ Finish(c)
    /\ UNCHANGED <<toHost, kernel, meta, kernels, proc, sweep, cancelled, issued>>

-----------------------------------------------------------------------------
(* Close and the sweeper *)

Close(c, s) ==
    /\ proc[s] # "unborn"
    /\ Begin(c, Task("close", s))
    /\ touch(s)
    /\ UNCHANGED <<pipes, kernels, proc, lock, sweep, answers, cancelled>>

\* IpcKernelBackend::close takes the process out of the map, asks it to close
\* and waits for whatever it says next, then kills it.
RemoveKernel(s) ==
    /\ lock = Free
    /\ s \in kernels
    /\ kernels' = kernels \ {s}
    /\ proc' = [proc EXCEPT ![s] = IF @ = "dead" THEN @ ELSE "closing"]
    /\ send(s, Plain("close"))

Kill(s) ==
    /\ Received(s) \/ Closed(s)
    /\ proc' = [proc EXCEPT ![s] = "dead"]

CloseRemoves(c) ==
    LET s == call[c].session IN
    /\ call[c].pc = "lock" /\ call[c].op = "close"
    /\ \/ /\ RemoveKernel(s)
          /\ Goto(c, "kill")
       \/ /\ lock = Free /\ s \notin kernels
          /\ Finish(c)
          /\ UNCHANGED <<kernels, proc, toKernel>>
    /\ UNCHANGED <<toHost, kernel, meta, lock, sweep, answers, cancelled, issued>>

CloseKills(c) ==
    /\ call[c].pc = "kill"
    /\ Kill(call[c].session)
    /\ Goto(c, "forget")
    /\ UNCHANGED <<pipes, meta, kernels, lock, sweep, answers, cancelled, issued>>

CloseForgets(c) ==
    /\ call[c].pc = "forget"
    /\ meta' = [meta EXCEPT ![call[c].session] = NoMeta]
    /\ Finish(c)
    /\ UNCHANGED <<pipes, kernels, proc, lock, sweep, answers, cancelled, issued>>
\* Nothing was heard of a session for idle_timeout_secs.
GoIdle(s) ==
    /\ meta[s] # NoMeta
    /\ ~meta[s].idle
    /\ meta' = [meta EXCEPT ![s].idle = TRUE]
    /\ UNCHANGED <<pipes, kernels, proc, call, lock, sweep, answers, cancelled, issued>>

\* sweep_loop: the expired ids are collected under the mutex and closed one by
\* one after it was released.
SweepTick ==
    /\ sweep.pc = "tick"
    /\ \E s \in Sessions : meta[s] # NoMeta /\ meta[s].idle
    /\ sweep' = [pc |-> "next", left |-> {s \in Sessions : meta[s] # NoMeta /\ meta[s].idle}, at |-> None]
    /\ UNCHANGED <<pipes, meta, kernels, proc, call, lock, answers, cancelled, issued>>

SweepClose(s) ==
    /\ sweep.pc = "next" /\ s \in sweep.left
    /\ \/ /\ RemoveKernel(s)
          /\ sweep' = [sweep EXCEPT !.pc = "kill", !.at = s]
       \/ /\ lock = Free /\ s \notin kernels
          /\ sweep' = [sweep EXCEPT !.pc = "forget", !.at = s]
          /\ UNCHANGED <<kernels, proc, toKernel>>
    /\ UNCHANGED <<toHost, kernel, meta, call, lock, answers, cancelled, issued>>

SweepKills ==
    /\ sweep.pc = "kill"
    /\ Kill(sweep.at)
    /\ sweep' = [sweep EXCEPT !.pc = "forget"]
    /\ UNCHANGED <<pipes, meta, kernels, call, lock, answers, cancelled, issued>>

SweepForgets ==
    /\ sweep.pc = "forget"
    /\ meta' = [meta EXCEPT ![sweep.at] = NoMeta]
    /\ LET left == sweep.left \ {sweep.at} IN
       sweep' = [pc |-> IF left = {} THEN "tick" ELSE "next", left |-> left, at |-> None]
    /\ UNCHANGED <<pipes, kernels, proc, call, lock, answers, cancelled, issued>>

-----------------------------------------------------------------------------
CallStep(c) ==
    \/ handshake(c) \/ start_session(c) \/ InsertKernel(c) \/ Register(c)
    \/ attach_challenge(c) \/ verify_challenge(c)
    \/ LockKernels(c) \/ Drain(c) \/ DrainClosed(c)
    \/ CloseRemoves(c) \/ CloseKills(c) \/ CloseForgets(c)

KernelStep(s) == handle(s) \/ sleep_interruptible(s)

RNext ==
    \/ \E c \in Calls :
         \/ CallStep(c) \/ Cancel(c) \/ Timeout(c)
         \/ \E s \in Sessions :
              \/ Start(c, s) \/ Interrupt(c, s) \/ Close(c, s)
              \/ \E response \in {"plain", "other"} : Verify(c, s, response)
              \/ \E r \in Requests, kind \in Kinds : Execute(c, s, r, kind)
    \/ \E s \in Sessions :
         \/ KernelStep(s) \/ SleepEnds(s) \/ KernelDies(s) \/ ping(s) \/ GoIdle(s) \/ SweepClose(s)
    \/ SweepTick \/ SweepKills \/ SweepForgets

\* Tasks and kernels run; a sleep ends by itself; the mutex is a fair queue.
RFairness ==
    /\ \A c \in Calls : SF_vars(CallStep(c))
    /\ \A s \in Sessions : WF_vars(KernelStep(s)) /\ WF_vars(SleepEnds(s))
    /\ SF_vars(SweepTick \/ SweepKills \/ SweepForgets \/ \E s \in Sessions : SweepClose(s))

Spec == RInit /\ [][RNext]_vars /\ RFairness

-----------------------------------------------------------------------------
(* Properties *)

\* The events of one outcome all come from one request, even after timeouts and
\* interrupts have left envelopes unread on the pipe: an answer may belong to an
\* earlier request, it is never a mixture (KernelConnection::execute).
NeverMixed ==
    \A a \in answers : \A i, j \in DOMAIN a.events : a.events[i].request = a.events[j].request

\* A kernel in the back end's map is known to the registry, so that the sweeper
\* will find it, unless a Start is under way or was dropped between the two maps.
KernelsTracked ==
    \A s \in kernels :
        \/ meta[s] # NoMeta
        \/ s \in cancelled
        \/ \E c \in Calls : call[c].op = "start" /\ call[c].session = s

\* Every gRPC call ends, with or without a deadline, however kernels, other
\* calls and the sweeper interleave.
CallsEnd == \A c \in Calls : call[c].pc # "idle" ~> call[c].pc = "idle"

\* What a client may rely on when its kernel is shared, slow or interrupted.
RunnerSound == NeverMixed /\ KernelsTracked
=============================================================================
