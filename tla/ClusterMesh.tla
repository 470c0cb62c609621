---------------------------- MODULE ClusterMesh ----------------------------
(***************************************************************************)
(* The cluster library of opsense-mlib.  gossip.rs: every node publishes   *)
(* its info under a Lamport version and merges what it hears, the newest   *)
(* version wins; a failure detector turns silence into suspicion and       *)
(* death.  raft.rs: the table of clusters, changed by commands that are    *)
(* tried on a copy before they are proposed to a consensus engine.         *)
(* Neither part does I/O: the transport and the engine are external, and   *)
(* here they lose, repeat and reorder as they like.                        *)
(***************************************************************************)
EXTENDS Integers, FiniteSets

CONSTANTS GNodes, Infos,             \* gossiping nodes; what they publish
          Observer,                  \* the node whose failure detector is followed
          Window, DeadAfter, Quorum, \* suspect_secs, dead_secs, quorum
          Clusters, Pipelines,
          MaxPublish, MaxPackets, MaxGClock, MaxCommands   \* bounds

ASSUME MeshAssumption == Window \in Nat /\ DeadAfter \in Nat /\ Quorum \in Nat

VARIABLES known,     \* InfoState per node: [lamport, entries]
          packets,   \* states on their way; none is ever taken out
          published, \* number of publications
          view,      \* the observer's peers
          gclock,
          heard,     \* history: per peer the time of its last answer
          missed,    \* history: per peer the reports since that answer
          deaths,    \* history: how long the dead had been silent
          groups,    \* Raft.state: cluster id -> [members, pipeline, epoch]
          last,      \* the command applied last and what came of it
          commands

gvars == <<known, packets, published>>
dvars == <<view, gclock, heard, missed, deaths>>
rvars == <<groups, last, commands>>

Peers == GNodes \ {Observer}
NoCommand == [op |-> "none", done |-> FALSE]

GossipInit == known = [n \in GNodes |-> [lamport |-> 0, entries |-> {}]] /\ packets = {} /\ published = 0
DetectorInit ==
    /\ view = [p \in {} |-> 0] /\ gclock = 0
    /\ heard = [p \in Peers |-> -1] /\ missed = [p \in Peers |-> 0] /\ deaths = {}
RaftInit == groups = [c \in {} |-> 0] /\ last = NoCommand /\ commands = 0

-----------------------------------------------------------------------------
\* An entry is (node, info, lamport); its author is the node itself.
is_newer_than(e, f) == e.lamport > f.lamport

\* The entry is replaced under the clock as it is.
set_local_SameClock(n, info) ==
    [lamport |-> known[n].lamport,
     entries |-> {e \in known[n].entries : e.node # n} \cup {[node |-> n, info |-> info, lamport |-> known[n].lamport]}]

\* The clock goes up and the own entry is replaced.
set_local(n, info) ==
    [lamport |-> known[n].lamport + 1,
     entries |-> {e \in known[n].entries : e.node # n} \cup {[node |-> n, info |-> info, lamport |-> known[n].lamport + 1]}]

publish(n) ==
    /\ published < MaxPublish
    /\ published' = published + 1
    /\ \E info \in Infos : known' = [known EXCEPT ![n] = set_local(n, info)]
    /\ UNCHANGED packets

Push(n) ==
    /\ Cardinality(packets) < MaxPackets
    /\ packets' = packets \cup {known[n]}
    /\ UNCHANGED <<known, published>>

\* InfoState::apply: unknown entries and newer ones are taken, the clock goes
\* to the larger and one further when something changed.
Merged(own, remote) ==
    LET Older(e) == {f \in own.entries : f.node = e.node}
        fresh == {e \in remote.entries : \A f \in Older(e) : is_newer_than(e, f)}
        clock == IF remote.lamport > own.lamport THEN remote.lamport ELSE own.lamport
    IN  [lamport |-> IF fresh = {} THEN clock ELSE clock + 1,
         entries |-> fresh \cup {f \in own.entries : \A e \in fresh : e.node # f.node}]

apply(n) == \E remote \in packets :
    /\ known' = [known EXCEPT ![n] = Merged(known[n], remote)]
    /\ UNCHANGED <<packets, published>>

GossipNext == \E n \in GNodes : publish(n) \/ Push(n) \/ apply(n)

-----------------------------------------------------------------------------
\* The failure detector of one node.
Fresh(now) == [state |-> "Alive", seen |-> now, confirmations |-> 0]

Listed(p, peer) == [q \in DOMAIN view \cup {p} |-> IF q = p THEN peer ELSE view[q]]

\* One answer clears all suspicion.
mark_alive(p) == Listed(p, Fresh(gclock))

\* A probe is answered, or the peer joins (handle_join, add_peer).  Peers that
\* are dead are no longer probed, but they may join again.
probe_targets == {p \in DOMAIN view : view[p].state # "Dead"}
Answers(p) ==
    /\ view' = mark_alive(p)
    /\ heard' = [heard EXCEPT ![p] = gclock]
    /\ missed' = [missed EXCEPT ![p] = 0]
    /\ UNCHANGED <<gclock, deaths>>
ProbeAnswered == \E p \in probe_targets : Answers(p)
handle_join == \E p \in Peers : Answers(p)

\* Alive and silent for longer than the window.
tick_suspects ==
    LET stale == {p \in DOMAIN view : view[p].state = "Alive" /\ gclock - view[p].seen > Window}
    IN  /\ stale # {}
        /\ view' = [p \in DOMAIN view |->
                      IF p \in stale THEN [view[p] EXCEPT !.state = "Suspect", !.confirmations = 0] ELSE view[p]]
        /\ UNCHANGED <<gclock, heard, missed, deaths>>

\* Suspect and silent for too long, or missed by enough peers.
tick_reap ==
    LET gone == {p \in DOMAIN view : /\ view[p].state = "Suspect"
                                     /\ \/ gclock - view[p].seen > DeadAfter
                                        \/ view[p].confirmations >= Quorum}
    IN  /\ gone # {}
        /\ view' = [p \in DOMAIN view |-> IF p \in gone THEN [view[p] EXCEPT !.state = "Dead"] ELSE view[p]]
        /\ deaths' = deaths \cup {[silence |-> gclock - heard[p], missed |-> missed[p]] : p \in gone}
        /\ UNCHANGED <<gclock, heard, missed>>

\* Someone, listed or not, does not reach the target; the dead are not heard.
report_missing(reporter, target) ==
    /\ reporter \in DOMAIN view => view[reporter].state # "Dead"
    /\ target \in DOMAIN view /\ view[target].state = "Suspect"
    /\ view[target].confirmations < Quorum              \* bound: more change nothing
    /\ view' = [view EXCEPT ![target].confirmations = @ + 1]
    /\ missed' = [missed EXCEPT ![target] = @ + 1]
    /\ UNCHANGED <<gclock, heard, deaths>>

remove == \E p \in DOMAIN view :
    /\ view' = [q \in DOMAIN view \ {p} |-> view[q]]
    /\ UNCHANGED <<gclock, heard, missed, deaths>>

ClockGoesOn == gclock < MaxGClock /\ gclock' = gclock + 1 /\ UNCHANGED <<view, heard, missed, deaths>>

DetectorNext ==
    \/ ProbeAnswered \/ handle_join \/ tick_suspects \/ tick_reap \/ remove \/ ClockGoesOn
    \/ \E r, t \in Peers : r # t /\ report_missing(r, t)

-----------------------------------------------------------------------------
\* raft.rs.  apply on a copy: the new table, and whether the command is valid.
With(c, cluster) == [d \in DOMAIN groups \cup {c} |-> IF d = c THEN cluster ELSE groups[d]]
Without(c) == [d \in DOMAIN groups \ {c} |-> groups[d]]
Done(state) == [ok |-> TRUE, state |-> state]
Rejected == [ok |-> FALSE, state |-> groups]

Create(cmd) ==
    IF cmd.members = {} THEN Rejected
    ELSE IF cmd.c \notin DOMAIN groups THEN Done(With(cmd.c, [members |-> cmd.members, pipeline |-> cmd.pipeline, epoch |-> 0]))
    ELSE IF groups[cmd.c] = [members |-> cmd.members, pipeline |-> cmd.pipeline, epoch |-> 0] THEN Done(groups)
    ELSE Rejected

add_member(cmd) ==
    IF cmd.c \notin DOMAIN groups THEN Rejected
    ELSE Done([groups EXCEPT ![cmd.c].members = @ \cup cmd.members])

\* The last member takes the cluster with it.
remove_member(cmd) ==
    IF cmd.c \notin DOMAIN groups THEN Rejected
    ELSE IF groups[cmd.c].members \subseteq cmd.members THEN Done(Without(cmd.c))
    ELSE Done([groups EXCEPT ![cmd.c].members = @ \ cmd.members])

\* Members are added unless all the present ones are among those named.
Group(cmd) ==
    IF cmd.members = {} THEN Rejected
    ELSE IF cmd.c \notin DOMAIN groups THEN Done(With(cmd.c, [members |-> cmd.members, pipeline |-> cmd.pipeline, epoch |-> 0]))
    ELSE IF groups[cmd.c].pipeline # cmd.pipeline THEN Rejected
    ELSE IF groups[cmd.c].members \subseteq cmd.members THEN Done(groups)
    ELSE Done([groups EXCEPT ![cmd.c].members = @ \cup cmd.members])

Dissolve(cmd) == IF cmd.c \notin DOMAIN groups THEN Rejected ELSE Done(Without(cmd.c))

Trial(cmd) == CASE cmd.op = "Create" -> Create(cmd)
                [] cmd.op = "AddMember" -> add_member(cmd)
                [] cmd.op = "RemoveMember" -> remove_member(cmd)
                [] cmd.op = "Group" -> Group(cmd)
                [] cmd.op = "Dissolve" -> Dissolve(cmd)

Commands == [op : {"Create", "Group"}, c : Clusters, members : SUBSET GNodes, pipeline : Pipelines]
            \cup [op : {"AddMember", "RemoveMember"}, c : Clusters, members : {{n} : n \in GNodes}, pipeline : {""}]
            \cup [op : {"Dissolve"}, c : Clusters, members : {{}}, pipeline : {""}]

\* A command that is refused changes nothing; one that the engine takes, says
\* it has not committed, or fails on, is kept, kept all the same, or dropped.
propose(cmd) ==
    /\ commands < MaxCommands
    /\ commands' = commands + 1
    /\ \/ /\ Trial(cmd).ok
          /\ groups' = Trial(cmd).state
          /\ last' = [op |-> cmd.op, done |-> TRUE, cmd |-> cmd]
       \/ last' = NoCommand /\ UNCHANGED groups          \* refused, or the engine's error

RaftNext == \E cmd \in Commands : propose(cmd)

\* The three parts share nothing.
MeshSpec ==
    /\ GossipInit /\ [][GossipNext]_gvars
    /\ DetectorInit /\ [][DetectorNext]_dvars
    /\ RaftInit /\ [][RaftNext]_rvars

-----------------------------------------------------------------------------
\* Two nodes that hold the same version of an entry hold the same info, in
\* whatever order publications and states arrive: a newer version is the only
\* thing that can tell two infos apart, so this is what makes them converge.
OneInfoPerVersion ==
    \A m, n \in GNodes : \A e \in known[m].entries, f \in known[n].entries :
        e.node = f.node /\ e.lamport = f.lamport => e.info = f.info

\* No peer is declared dead unless it was silent for the window at least, and
\* before the longer time only when enough peers missed it since it answered.
SilentBeforeDead ==
    \A d \in deaths : d.silence > Window /\ (d.silence > DeadAfter \/ d.missed >= Quorum)

\* A command that is sent again, because nobody knows whether it arrived,
\* changes nothing the second time.
RetryHarmless == last.done => Trial(last.cmd).state = groups

\* What the mesh layer promises: infos that can converge, no death without
\* silence, and commands that may be sent twice.
MeshSafe == OneInfoPerVersion /\ SilentBeforeDead /\ RetryHarmless
=============================================================================
