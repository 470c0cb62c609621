---------------------------- MODULE ServicesProofs ----------------------------
(***************************************************************************)
(* Proofs about the services of a running server: the script runtime       *)
(* (ScriptRuntime), the calls that change the server (ServerApi), the      *)
(* cluster library (ClusterMesh), the S3 mirror of the lake (LakeMirror)   *)
(* and the metrics endpoint (Metrics).                                     *)
(***************************************************************************)
EXTENDS ScriptRuntime, ServerApi, ClusterMesh, LakeMirror, Metrics, WellFoundedInduction, TLAPS

-----------------------------------------------------------------------------
(***************************************************************************)
(* ScriptRuntime.  A thread's times are ordered as it read them: the text  *)
(* on disk when it began, the mtime, the text.  What is in the cache is no *)
(* older than the mtime it is kept under, so a thread that finds its own   *)
(* mtime there takes a text no older than the one it began with.           *)
(***************************************************************************)
ThreadStates ==
  [at : {"none"}] \cup [at : {"begin"}, began : Nat] \cup [at : {"lock"}, began : Nat, mtime : Nat]
  \cup [at : {"compile", "over"}, began : Nat, mtime : Nat, text : Nat]
  \cup [at : {"run", "over"}, began : Nat, ast : Nat]

ReadInOrder(t) ==
  /\ t.at = "begin" => t.began <= edit
  /\ t.at = "lock" => t.began <= t.mtime /\ t.mtime <= edit
  /\ t.at = "compile" => t.began <= t.mtime /\ t.mtime <= t.text
  /\ t.at = "run" => t.began <= t.ast

ScriptInv ==
  /\ edit \in Nat
  /\ compiled \in {NoScript} \cup [mtime : Nat, ast : Nat] /\ compiled.mtime <= compiled.ast
  /\ thread \in [Jobs -> ThreadStates] /\ \A j \in Jobs : ReadInOrder(thread[j])

LEMMA ScriptStart == ScriptInit => ScriptInv
  BY DEF ScriptInit, ScriptInv, NoScript, NoThread, ThreadStates, ReadInOrder

\* A step that gives one thread a state whose times are in order.
LEMMA ThreadMoves ==
  ASSUME ScriptInv, NEW j, NEW next \in ThreadStates, ReadInOrder(next),
         thread' = [thread EXCEPT ![j] = next], edit' = edit,
         compiled' \in {NoScript} \cup [mtime : Nat, ast : Nat], compiled'.mtime <= compiled'.ast
  PROVE  ScriptInv'
<1>1. thread' \in [Jobs -> ThreadStates] /\ \A k \in Jobs : thread'[k] = next \/ thread'[k] = thread[k]
  BY DEF ScriptInv
<1>2. ASSUME NEW t \in ThreadStates, ReadInOrder(t) PROVE ReadInOrder(t)'
  BY <1>2 DEF ReadInOrder
<1>3. \A k \in Jobs : ReadInOrder(thread'[k])
  BY <1>1 DEF ScriptInv
<1>4. \A k \in Jobs : ReadInOrder(thread[k])'
  BY <1>3 DEF ReadInOrder
<1>5. QED  BY <1>1, <1>4 DEF ScriptInv

LEMMA ScriptStep == ScriptInv /\ [ScriptNext]_scriptvars => ScriptInv'
<1> SUFFICES ASSUME ScriptInv, [ScriptNext]_scriptvars PROVE ScriptInv'
  OBVIOUS
<1>1. compiled \in {NoScript} \cup [mtime : Nat, ast : Nat] /\ compiled.mtime <= compiled.ast
  BY DEF ScriptInv
<1>2. CASE edit_script
  <2>1. edit \in Nat /\ edit' = edit + 1 /\ compiled' = compiled /\ thread' = thread
    BY <1>2 DEF edit_script, ScriptInv
  <2>2. ASSUME NEW j \in Jobs PROVE ReadInOrder(thread[j])'
    <3>1. thread[j] \in ThreadStates /\ ReadInOrder(thread[j]) /\ thread'[j] = thread[j]
      BY <2>1 DEF ScriptInv
    <3>2. \A n \in Nat : n <= edit => n <= edit'
      BY <2>1
    <3>3. thread[j].at = "begin" => thread[j].began \in Nat
      BY <3>1 DEF ThreadStates
    <3>4. thread[j].at = "lock" => thread[j].mtime \in Nat
      BY <3>1 DEF ThreadStates
    <3>5. QED  BY <3>1, <3>2, <3>3, <3>4 DEF ReadInOrder
  <2>3. edit' \in Nat
    BY <2>1
  <2>4. compiled' \in {NoScript} \cup [mtime : Nat, ast : Nat] /\ compiled'.mtime <= compiled'.ast
    BY <1>1, <2>1
  <2>5. thread' \in [Jobs -> ThreadStates] /\ \A j \in Jobs : ReadInOrder(thread[j])'
    BY <2>1, <2>2 DEF ScriptInv
  <2>6. QED  BY <2>3, <2>4, <2>5 DEF ScriptInv
<1>3. CASE \E n \in Transforms : receive(n)
  <2>1. [at |-> "begin", began |-> edit] \in ThreadStates /\ ReadInOrder([at |-> "begin", began |-> edit])
    BY DEF ThreadStates, ScriptInv, ReadInOrder
  <2>2. /\ thread' = [thread EXCEPT ![batches + 1] = [at |-> "begin", began |-> edit]]
        /\ edit' = edit /\ compiled' = compiled
    BY <1>3 DEF receive
  <2>3. compiled' \in {NoScript} \cup [mtime : Nat, ast : Nat] /\ compiled'.mtime <= compiled'.ast
    BY <1>1, <2>2
  <2>4. QED  BY <2>1, <2>2, <2>3, ThreadMoves
<1>4. CASE \E n \in Transforms : timed_out(n) \/ batch_failed(n) \/ batch_done(n)
  BY <1>4 DEF timed_out, batch_failed, batch_done, ScriptInv, ReadInOrder
<1>5. ASSUME NEW j \in Jobs, NEW result, Report(j, result), thread[j].at \in {"compile", "run"},
             edit' = edit, compiled' = compiled
      PROVE  ScriptInv'
  <2>1. thread[j] \in [at : {"compile", "over"}, began : Nat, mtime : Nat, text : Nat]
                       \cup [at : {"run", "over"}, began : Nat, ast : Nat]
    BY <1>5 DEF ScriptInv, ThreadStates
  <2>2. /\ [thread[j] EXCEPT !.at = "over"] \in ThreadStates
        /\ [thread[j] EXCEPT !.at = "over"].at = "over"
    BY <2>1 DEF ThreadStates
  <2>3. ReadInOrder([thread[j] EXCEPT !.at = "over"])
    BY <2>2 DEF ReadInOrder
  <2>4. QED  BY <1>1, <1>5, <2>2, <2>3, ThreadMoves DEF Report, To
<1>6. ASSUME NEW j \in Jobs, source_fingerprint(j) PROVE ScriptInv'
  <2> DEFINE next == [at |-> "lock", began |-> thread[j].began, mtime |-> edit]
  <2>1. thread[j] \in [at : {"begin"}, began : Nat] /\ thread[j].began <= edit /\ edit \in Nat
    BY <1>6 DEF source_fingerprint, ScriptInv, ThreadStates, ReadInOrder
  <2>2. next \in ThreadStates /\ ReadInOrder(next)
    BY <2>1 DEF ThreadStates, ReadInOrder
  <2>3. QED  BY <1>1, <1>6, <2>2, ThreadMoves DEF source_fingerprint, To
<1>7. ASSUME NEW j \in Jobs, acquire_any(j) PROVE ScriptInv'
  <2>1. /\ thread[j] \in [at : {"lock"}, began : Nat, mtime : Nat]
        /\ thread[j].began <= thread[j].mtime /\ thread[j].mtime <= edit /\ edit \in Nat
    BY <1>7 DEF acquire_any, ScriptInv, ThreadStates, ReadInOrder
  <2>2. CASE compiled.mtime = thread[j].mtime
    <3> DEFINE next == [at |-> "run", began |-> thread[j].began, ast |-> compiled.ast]
    <3>1. compiled \in [mtime : Nat, ast : Nat]
      BY <1>1, <2>1, <2>2 DEF NoScript
    <3>2. next \in ThreadStates /\ ReadInOrder(next)
      BY <1>1, <2>1, <2>2, <3>1 DEF ThreadStates, ReadInOrder
    <3>3. QED  BY <1>1, <1>7, <2>2, <3>2, ThreadMoves DEF acquire_any, To
  <2>3. CASE compiled.mtime # thread[j].mtime
    <3> DEFINE next == [at |-> "compile", began |-> thread[j].began, mtime |-> thread[j].mtime, text |-> edit]
    <3>1. next \in ThreadStates /\ ReadInOrder(next)
      BY <2>1 DEF ThreadStates, ReadInOrder
    <3>2. QED  BY <1>1, <1>7, <2>3, <3>1, ThreadMoves DEF acquire_any, To
  <2>4. QED  BY <2>2, <2>3
<1>8. ASSUME NEW j \in Jobs, compile(j) PROVE ScriptInv'
  <2>1. /\ thread[j] \in [at : {"compile"}, began : Nat, mtime : Nat, text : Nat]
        /\ thread[j].began <= thread[j].mtime /\ thread[j].mtime <= thread[j].text
    BY <1>8 DEF compile, ScriptInv, ThreadStates, ReadInOrder
  <2>2. CASE Compiles(thread[j].text)
    <3> DEFINE next == [at |-> "run", began |-> thread[j].began, ast |-> thread[j].text]
    <3>1. next \in ThreadStates /\ ReadInOrder(next)
      BY <2>1 DEF ThreadStates, ReadInOrder
    <3>2. /\ compiled' = [mtime |-> thread[j].mtime, ast |-> thread[j].text]
          /\ compiled' \in [mtime : Nat, ast : Nat] /\ compiled'.mtime <= compiled'.ast
      BY <1>8, <2>1, <2>2 DEF compile, Stamp
    <3>3. thread' = [thread EXCEPT ![j] = next] /\ edit' = edit
      BY <1>8, <2>2 DEF compile, To
    <3>4. QED  BY <3>1, <3>2, <3>3, ThreadMoves
  <2>3. CASE ~Compiles(thread[j].text)
    BY <1>5, <1>8, <2>3 DEF compile
  <2>4. QED  BY <2>2, <2>3
<1>9. CASE \E j \in Jobs : native_fault(j) \/ station_write(j)
  BY <1>9 DEF native_fault, station_write, ScriptInv, ReadInOrder
<1>10. CASE \E j \in Jobs : \E result \in {"ok", "err"} : finish(j, result)
  BY <1>5, <1>10 DEF finish
<1>11. CASE UNCHANGED scriptvars
  BY <1>11 DEF scriptvars, ScriptInv, ReadInOrder
<1>12. QED
  BY <1>2, <1>3, <1>4, <1>6, <1>7, <1>8, <1>9, <1>10, <1>11 DEF ScriptNext

\* An edit is taken up by every batch that begins after it, whatever threads
\* overlap between reading the mtime, taking the cache's lock and reading the
\* text (runtime.rs, acquire_any), for any number of nodes and batches.
THEOREM EditsPickedUp == ScriptSpec => []PickedUp
<1>1. ScriptInv => PickedUp
  BY DEF ScriptInv, PickedUp, ReadInOrder, ThreadStates
<1>2. QED  BY <1>1, ScriptStart, ScriptStep, PTL DEF ScriptSpec

-----------------------------------------------------------------------------
(***************************************************************************)
(* ClusterMesh, gossip.  Of every entry that any node holds or any packet  *)
(* carries, the author's clock is at least the version: so a publication   *)
(* is the only entry of its author with its version.                       *)
(***************************************************************************)
Entries == [node : GNodes, info : Infos, lamport : Nat]
InfoStates == [lamport : Nat, entries : SUBSET Entries]

Circulating ==
    {e \in Entries : (\E n \in GNodes : e \in known[n].entries) \/ (\E s \in packets : e \in s.entries)}

GossipInv ==
    /\ known \in [GNodes -> InfoStates] /\ packets \subseteq InfoStates
    /\ \A e \in Circulating : e.lamport <= known[e.node].lamport
    /\ \A e, f \in Circulating : e.node = f.node /\ e.lamport = f.lamport => e.info = f.info

LEMMA GossipStart == GossipInit => GossipInv
  BY DEF GossipInit, GossipInv, InfoStates, Circulating

\* A step that brings no entry into circulation and turns no clock back.
LEMMA NothingNew ==
  ASSUME GossipInv, known' \in [GNodes -> InfoStates], packets' \subseteq InfoStates,
         Circulating' \subseteq Circulating,
         \A n \in GNodes : known[n].lamport <= known'[n].lamport
  PROVE  GossipInv'
<1>1. Circulating \subseteq Entries
  BY DEF Circulating
<1>2. ASSUME NEW e \in Circulating' PROVE e.lamport <= known'[e.node].lamport
  <2>1. e \in Circulating /\ e.node \in GNodes /\ e.lamport \in Nat
    BY <1>1 DEF Entries
  <2>2. known[e.node].lamport \in Nat /\ known'[e.node].lamport \in Nat
    BY <2>1 DEF GossipInv, InfoStates
  <2>3. e.lamport <= known[e.node].lamport
    BY <2>1 DEF GossipInv
  <2>4. known[e.node].lamport <= known'[e.node].lamport
    BY <2>1
  <2>5. QED  BY <2>1, <2>2, <2>3, <2>4
<1>3. \A e, f \in Circulating' : e.node = f.node /\ e.lamport = f.lamport => e.info = f.info
  BY DEF GossipInv
<1>4. QED  BY <1>2, <1>3 DEF GossipInv

LEMMA PublishKeeps ==
  ASSUME GossipInv, NEW n \in GNodes, publish(n)
  PROVE  GossipInv'
<1>1. PICK info \in Infos : known' = [known EXCEPT ![n] = set_local(n, info)]
  BY DEF publish
<1> DEFINE tick == known[n].lamport + 1
           new == [node |-> n, info |-> info, lamport |-> tick]
<1>2. /\ known[n] \in InfoStates /\ known[n].lamport \in Nat /\ tick \in Nat /\ new \in Entries
      /\ packets' = packets /\ Circulating \subseteq Entries
  BY DEF GossipInv, InfoStates, Entries, publish, Circulating
<1>3. /\ set_local(n, info) \in InfoStates /\ set_local(n, info).lamport = tick
      /\ set_local(n, info).entries \subseteq known[n].entries \cup {new}
  BY <1>2 DEF set_local, InfoStates
<1>4. known' \in [GNodes -> InfoStates] /\ known'[n].lamport = tick
  BY <1>1, <1>3 DEF GossipInv
<1>5. \A m \in GNodes : m # n => known'[m] = known[m]
  BY <1>1 DEF GossipInv
<1>6. Circulating' \subseteq Circulating \cup {new}
  BY <1>1, <1>2, <1>3, <1>5 DEF Circulating, GossipInv
<1> HIDE DEF tick, new
<1>7. \A e \in Circulating : e.node = n => e.lamport < tick
  BY <1>2 DEF GossipInv, Entries, tick
<1>8. \A e \in Circulating' : e.lamport <= known'[e.node].lamport
  <2> SUFFICES ASSUME NEW e \in Circulating' PROVE e.lamport <= known'[e.node].lamport
    OBVIOUS
  <2>1. CASE e = new
    BY <1>2, <1>4, <2>1 DEF new, Entries
  <2>2. CASE e \in Circulating /\ e.node = n
    BY <1>2, <1>4, <1>7, <2>2 DEF Entries
  <2>3. CASE e \in Circulating /\ e.node # n
    BY <1>2, <1>5, <2>3 DEF Entries, GossipInv
  <2>4. QED  BY <1>6, <2>1, <2>2, <2>3
<1>9. \A e, f \in Circulating' : e.node = f.node /\ e.lamport = f.lamport => e.info = f.info
  <2>1. new.node = n /\ new.lamport = tick
    BY DEF new
  <2>2. \A e \in Circulating : ~(e.node = new.node /\ e.lamport = new.lamport)
    BY <1>2, <1>7, <2>1
  <2>3. QED  BY <1>6, <2>2 DEF GossipInv
<1>10. QED  BY <1>2, <1>4, <1>8, <1>9 DEF GossipInv

LEMMA ApplyKeeps ==
  ASSUME GossipInv, NEW n \in GNodes, apply(n)
  PROVE  GossipInv'
<1>1. PICK theirs \in packets : known' = [known EXCEPT ![n] = Merged(known[n], theirs)]
  BY DEF apply
<1>2. packets' = packets /\ theirs \in InfoStates /\ known[n] \in InfoStates
  BY DEF apply, GossipInv
<1>3. /\ Merged(known[n], theirs).entries \subseteq known[n].entries \cup theirs.entries
      /\ Merged(known[n], theirs).lamport \in Nat
      /\ known[n].lamport <= Merged(known[n], theirs).lamport
      /\ Merged(known[n], theirs) \in InfoStates
  BY <1>2 DEF Merged, InfoStates
<1>4. /\ known' \in [GNodes -> InfoStates] /\ known'[n] = Merged(known[n], theirs)
      /\ \A m \in GNodes : m # n => known'[m] = known[m]
  BY <1>1, <1>3 DEF GossipInv
<1>5. Circulating' \subseteq Circulating
  BY <1>2, <1>3, <1>4 DEF Circulating
<1>6. ASSUME NEW m \in GNodes PROVE known[m].lamport <= known'[m].lamport
  <2>1. known[m].lamport \in Nat
    BY DEF GossipInv, InfoStates
  <2>2. QED  BY <1>3, <1>4, <2>1
<1>7. packets' \subseteq InfoStates
  BY <1>2 DEF GossipInv
<1>8. QED  BY <1>4, <1>5, <1>6, <1>7, NothingNew

LEMMA GossipStep == GossipInv /\ [GossipNext]_gvars => GossipInv'
<1> SUFFICES ASSUME GossipInv, [GossipNext]_gvars PROVE GossipInv'
  OBVIOUS
<1>1. ASSUME NEW n \in GNodes, Push(n) PROVE GossipInv'
  <2>1. known' = known /\ packets' = packets \cup {known[n]} /\ packets' \subseteq InfoStates
    BY <1>1 DEF Push, GossipInv
  <2>2. Circulating' \subseteq Circulating
    BY <2>1 DEF Circulating
  <2>3. \A m \in GNodes : known[m].lamport <= known'[m].lamport
    BY <2>1 DEF GossipInv, InfoStates
  <2>4. QED  BY <2>1, <2>2, <2>3, NothingNew DEF GossipInv
<1>2. CASE UNCHANGED gvars
  BY <1>2 DEF gvars, GossipInv, Circulating
<1>3. QED  BY <1>1, <1>2, PublishKeeps, ApplyKeeps DEF GossipNext

\* The invariant tells any two entries apart, those of two nodes included.
LEMMA VersionsTell == GossipInv => OneInfoPerVersion
<1> SUFFICES ASSUME GossipInv, NEW m \in GNodes, NEW n \in GNodes,
                    NEW e \in known[m].entries, NEW f \in known[n].entries,
                    e.node = f.node, e.lamport = f.lamport
             PROVE  e.info = f.info
  BY DEF OneInfoPerVersion
<1>1. e \in Circulating /\ f \in Circulating
  BY DEF GossipInv, InfoStates, Circulating
<1>2. QED  BY <1>1 DEF GossipInv

-----------------------------------------------------------------------------
(***************************************************************************)
(* ClusterMesh, failure detector.  What the view holds of a peer is the    *)
(* time of its last answer; a suspect has been silent for longer than the  *)
(* window, and was missed at least as often as it has confirmations.       *)
(***************************************************************************)
PeerViews == [state : {"Alive", "Suspect", "Dead"}, seen : Int, confirmations : Nat]

Watched(p) ==
    /\ p \in Peers /\ view[p] \in PeerViews /\ view[p].seen = heard[p]
    /\ view[p].state = "Suspect" => gclock - heard[p] > Window /\ view[p].confirmations <= missed[p]

DetectorInv ==
    /\ gclock \in Nat /\ heard \in [Peers -> Int] /\ missed \in [Peers -> Nat]
    /\ view = [p \in DOMAIN view |-> view[p]] /\ \A p \in DOMAIN view : Watched(p)
    /\ SilentBeforeDead

LEMMA DetectorStart == DetectorInit => DetectorInv
  BY DEF DetectorInit, DetectorInv, SilentBeforeDead

LEMMA AnswersKeep ==
  ASSUME DetectorInv, NEW p \in Peers, Answers(p)
  PROVE  DetectorInv'
<1>1. /\ gclock' = gclock /\ gclock \in Nat /\ deaths' = deaths
      /\ heard' = [heard EXCEPT ![p] = gclock] /\ missed' = [missed EXCEPT ![p] = 0]
      /\ view' = [q \in DOMAIN view \cup {p} |-> IF q = p THEN Fresh(gclock) ELSE view[q]]
  BY DEF Answers, mark_alive, Listed, DetectorInv
<1>2. heard' \in [Peers -> Int] /\ missed' \in [Peers -> Nat]
  BY <1>1 DEF DetectorInv
<1>3. ASSUME NEW q \in DOMAIN view' PROVE Watched(q)'
  <2>1. CASE q = p
    BY <1>1, <1>2, <2>1 DEF Watched, Fresh, PeerViews, DetectorInv
  <2>2. CASE q # p
    <3>1. q \in DOMAIN view /\ Watched(q) /\ view'[q] = view[q]
      BY <1>1, <2>2 DEF DetectorInv
    <3>2. heard'[q] = heard[q] /\ missed'[q] = missed[q]
      BY <1>1, <2>2, <3>1 DEF DetectorInv, Watched
    <3>3. QED  BY <1>1, <3>1, <3>2 DEF Watched, Peers
  <2>3. QED  BY <2>1, <2>2
<1>4. view' = [q \in DOMAIN view' |-> view'[q]]
  BY <1>1
<1>5. QED  BY <1>1, <1>2, <1>3, <1>4 DEF DetectorInv, SilentBeforeDead

LEMMA SuspectsKeep ==
  ASSUME DetectorInv, tick_suspects
  PROVE  DetectorInv'
<1> DEFINE stale == {p \in DOMAIN view : view[p].state = "Alive" /\ gclock - view[p].seen > Window}
<1>1. /\ UNCHANGED <<gclock, heard, missed, deaths>>
      /\ view' = [p \in DOMAIN view |->
                    IF p \in stale THEN [view[p] EXCEPT !.state = "Suspect", !.confirmations = 0] ELSE view[p]]
  BY DEF tick_suspects
<1>2. ASSUME NEW p \in DOMAIN view' PROVE Watched(p)'
  <2>1. p \in DOMAIN view /\ Watched(p) /\ missed[p] \in Nat
    BY <1>1 DEF DetectorInv, Watched
  <2>2. CASE p \in stale
    <3>1. view'[p] = [view[p] EXCEPT !.state = "Suspect", !.confirmations = 0] /\ gclock - heard[p] > Window
      BY <1>1, <2>1, <2>2 DEF Watched
    <3>2. \A v \in PeerViews :
            /\ [v EXCEPT !.state = "Suspect", !.confirmations = 0] \in PeerViews
            /\ [v EXCEPT !.state = "Suspect", !.confirmations = 0].seen = v.seen
            /\ [v EXCEPT !.state = "Suspect", !.confirmations = 0].confirmations = 0
      BY DEF PeerViews
    <3>3. view[p] \in PeerViews /\ view[p].seen = heard[p] /\ p \in Peers
      BY <2>1 DEF Watched
    <3>4. view'[p] \in PeerViews /\ view'[p].seen = heard[p] /\ view'[p].confirmations = 0
      BY <3>1, <3>2, <3>3
    <3>5. heard' = heard /\ missed' = missed /\ gclock' = gclock
      BY <1>1
    <3>6. view'[p].confirmations <= missed'[p] /\ gclock' - heard'[p] > Window
      BY <2>1, <3>1, <3>4, <3>5
    <3>7. QED  BY <3>3, <3>4, <3>5, <3>6 DEF Watched, Peers
  <2>3. CASE p \notin stale
    BY <1>1, <2>1, <2>3 DEF Watched, Peers
  <2>4. QED  BY <2>2, <2>3
<1>3. view' = [q \in DOMAIN view' |-> view'[q]]
  BY <1>1
<1>4. QED  BY <1>1, <1>2, <1>3 DEF DetectorInv, SilentBeforeDead

LEMMA ReapKeeps ==
  ASSUME DetectorInv, tick_reap
  PROVE  DetectorInv'
<1> DEFINE gone == {p \in DOMAIN view : /\ view[p].state = "Suspect"
                                        /\ \/ gclock - view[p].seen > DeadAfter
                                           \/ view[p].confirmations >= Quorum}
<1>1. /\ UNCHANGED <<gclock, heard, missed>>
      /\ deaths' = deaths \cup {[silence |-> gclock - heard[p], missed |-> missed[p]] : p \in gone}
      /\ view' = [p \in DOMAIN view |-> IF p \in gone THEN [view[p] EXCEPT !.state = "Dead"] ELSE view[p]]
  BY DEF tick_reap
<1>2. ASSUME NEW p \in DOMAIN view' PROVE Watched(p)'
  <2>1. p \in DOMAIN view /\ Watched(p)
    BY <1>1 DEF DetectorInv
  <2>2. CASE p \in gone
    <3>1. view'[p] = [view[p] EXCEPT !.state = "Dead"]
      BY <1>1, <2>1, <2>2
    <3>2. view'[p] \in PeerViews /\ view'[p].seen = heard[p] /\ view'[p].state = "Dead"
      BY <2>1, <3>1 DEF Watched, PeerViews
    <3>3. heard' = heard /\ missed' = missed /\ gclock' = gclock
      BY <1>1
    <3>4. QED  BY <2>1, <3>2, <3>3 DEF Watched, Peers
  <2>3. CASE p \notin gone
    BY <1>1, <2>1, <2>3 DEF Watched, Peers
  <2>4. QED  BY <2>2, <2>3
<1>3. ASSUME NEW p \in gone
      PROVE  /\ gclock - heard[p] > Window
             /\ gclock - heard[p] > DeadAfter \/ missed[p] >= Quorum
  <2>1. Watched(p) /\ missed[p] \in Nat /\ view[p].confirmations \in Nat
    BY DEF DetectorInv, Watched, PeerViews
  <2>2. QED  BY <2>1, MeshAssumption DEF Watched
<1>4. SilentBeforeDead'
  BY <1>1, <1>3 DEF DetectorInv, SilentBeforeDead
<1>5. view' = [q \in DOMAIN view' |-> view'[q]]
  BY <1>1
<1>6. QED  BY <1>1, <1>2, <1>4, <1>5 DEF DetectorInv

LEMMA ReportsKeep ==
  ASSUME DetectorInv, NEW r \in Peers, NEW t \in Peers, report_missing(r, t)
  PROVE  DetectorInv'
<1>1. /\ UNCHANGED <<gclock, heard, deaths>> /\ t \in DOMAIN view /\ Watched(t)
      /\ view' = [view EXCEPT ![t].confirmations = @ + 1] /\ missed' = [missed EXCEPT ![t] = @ + 1]
  BY DEF report_missing, DetectorInv
<1>2. missed' \in [Peers -> Nat] /\ DOMAIN view' = DOMAIN view
  BY <1>1 DEF DetectorInv
<1>3. ASSUME NEW p \in DOMAIN view' PROVE Watched(p)'
  <2>1. p \in DOMAIN view /\ Watched(p) /\ missed[p] \in Nat
    BY <1>2 DEF DetectorInv, Watched
  <2>2. CASE p = t
    <3>1. view'[p] = [view[p] EXCEPT !.confirmations = @ + 1] /\ missed'[p] = missed[p] + 1
      BY <1>1, <2>1, <2>2 DEF DetectorInv
    <3>2. /\ view'[p] \in PeerViews /\ view'[p].seen = heard[p] /\ view'[p].state = view[p].state
          /\ view'[p].confirmations = view[p].confirmations + 1 /\ view[p].confirmations \in Nat
      BY <2>1, <3>1 DEF Watched, PeerViews
    <3>3. QED  BY <1>1, <2>1, <3>1, <3>2 DEF Watched, Peers
  <2>3. CASE p # t
    <3>1. view'[p] = view[p] /\ missed'[p] = missed[p]
      BY <1>1, <2>1, <2>3 DEF DetectorInv, Watched
    <3>2. QED  BY <1>1, <2>1, <3>1 DEF Watched, Peers
  <2>4. QED  BY <2>2, <2>3
<1>4. view' = [q \in DOMAIN view' |-> view'[q]]
  BY <1>1 DEF DetectorInv
<1>5. QED  BY <1>1, <1>2, <1>3, <1>4 DEF DetectorInv, SilentBeforeDead

LEMMA DetectorStep == DetectorInv /\ [DetectorNext]_dvars => DetectorInv'
<1> SUFFICES ASSUME DetectorInv, [DetectorNext]_dvars PROVE DetectorInv'
  OBVIOUS
<1>1. CASE ProbeAnswered
  <2>1. \A p \in probe_targets : p \in Peers
    BY DEF probe_targets, DetectorInv, Watched
  <2>2. QED  BY <1>1, <2>1, AnswersKeep DEF ProbeAnswered
<1>2. CASE handle_join
  BY <1>2, AnswersKeep DEF handle_join
<1>3. CASE remove
  <2>1. /\ UNCHANGED <<gclock, heard, missed, deaths>> /\ DOMAIN view' \subseteq DOMAIN view
        /\ view' = [q \in DOMAIN view' |-> view[q]]
    BY <1>3 DEF remove
  <2>2. ASSUME NEW p \in DOMAIN view' PROVE Watched(p)'
    BY <2>1 DEF DetectorInv, Watched, Peers
  <2>3. view' = [q \in DOMAIN view' |-> view'[q]]
    BY <2>1
  <2>4. QED  BY <2>1, <2>2, <2>3 DEF DetectorInv, SilentBeforeDead
<1>4. CASE ClockGoesOn
  <2>1. UNCHANGED <<view, heard, missed, deaths>> /\ gclock' = gclock + 1 /\ gclock' \in Nat
    BY <1>4 DEF ClockGoesOn, DetectorInv
  <2>2. ASSUME NEW p \in DOMAIN view' PROVE Watched(p)'
    <3>1. Watched(p) /\ gclock \in Nat /\ heard[p] \in Int
      BY <2>1 DEF DetectorInv, Watched
    <3>2. gclock - heard[p] > Window => gclock' - heard'[p] > Window
      BY <2>1, <3>1, MeshAssumption
    <3>3. QED  BY <2>1, <3>1, <3>2 DEF Watched, Peers
  <2>3. QED  BY <2>1, <2>2 DEF DetectorInv, SilentBeforeDead
<1>5. CASE UNCHANGED dvars
  BY <1>5 DEF dvars, DetectorInv, SilentBeforeDead, Watched
<1>6. QED
  BY <1>1, <1>2, <1>3, <1>4, <1>5, SuspectsKeep, ReapKeeps, ReportsKeep DEF DetectorNext

-----------------------------------------------------------------------------
(***************************************************************************)
(* ClusterMesh, commands.  Every valid command leaves the table in a state *)
(* in which the same command finds nothing more to change.                 *)
(***************************************************************************)
ClusterRows == [members : SUBSET GNodes, pipeline : Pipelines, epoch : {0}]

IsTable(t) == t = [c \in DOMAIN t |-> t[c]] /\ \A c \in DOMAIN t : t[c] \in ClusterRows
SetMembers(t, c, M) == [t EXCEPT ![c].members = M]

RaftInv == IsTable(groups) /\ RetryHarmless

LEMMA RaftStart == RaftInit => RaftInv
  BY DEF RaftInit, RaftInv, IsTable, RetryHarmless, NoCommand

\* A row whose members are set to what they are.
LEMMA SameMembers ==
  ASSUME NEW t, NEW c \in DOMAIN t, IsTable(t)
  PROVE  SetMembers(t, c, t[c].members) = t
<1>1. [t[c] EXCEPT !.members = t[c].members] = t[c]
  BY DEF IsTable, ClusterRows
<1>2. [t EXCEPT ![c] = t[c]] = t
  BY DEF IsTable
<1>3. QED  BY <1>1, <1>2 DEF SetMembers

\* A row whose members change.
LEMMA OtherMembers ==
  ASSUME NEW t, NEW c \in DOMAIN t, NEW M \in SUBSET GNodes, IsTable(t)
  PROVE  /\ DOMAIN SetMembers(t, c, M) = DOMAIN t /\ IsTable(SetMembers(t, c, M))
         /\ SetMembers(t, c, M)[c].members = M /\ SetMembers(t, c, M)[c].pipeline = t[c].pipeline
<1>1. [t[c] EXCEPT !.members = M] \in ClusterRows
  BY DEF ClusterRows, IsTable
<1>2. [t[c] EXCEPT !.members = M].members = M /\ [t[c] EXCEPT !.members = M].pipeline = t[c].pipeline
  BY DEF ClusterRows, IsTable
<1>3. SetMembers(t, c, M) = [d \in DOMAIN t |-> IF d = c THEN [t[c] EXCEPT !.members = M] ELSE t[d]]
  BY DEF SetMembers, IsTable
<1>4. QED  BY <1>1, <1>2, <1>3 DEF IsTable

\* The command tried on the table it has just made.
LEMMA TwiceIsOnce ==
  ASSUME NEW cmd \in Commands,
         IsTable(groups), groups' = Trial(cmd).state
  PROVE  IsTable(groups') /\ Trial(cmd)'.state = groups'
<1>1. CASE cmd.op = "Create"
  <2>1. Trial(cmd) = Create(cmd) /\ Trial(cmd)' = Create(cmd)'
    BY <1>1 DEF Trial
  <2>2. cmd.members \in SUBSET GNodes /\ cmd.pipeline \in Pipelines
    BY <1>1 DEF Commands
  <2>3. CASE groups' = groups
    BY <2>1, <2>3 DEF Create, Done, Rejected, With
  <2>4. CASE groups' # groups
    <3> DEFINE row == [members |-> cmd.members, pipeline |-> cmd.pipeline, epoch |-> 0]
    <3>1. row \in ClusterRows
      BY <2>2 DEF ClusterRows
    <3> HIDE DEF row
    <3>2. /\ cmd.members # {}
          /\ groups' = [d \in DOMAIN groups \cup {cmd.c} |-> IF d = cmd.c THEN row ELSE groups[d]]
      BY <2>1, <2>4 DEF Create, Done, Rejected, With, row
    <3>3. cmd.c \in DOMAIN groups' /\ groups'[cmd.c] = row
      BY <3>2
    <3>4. Create(cmd)'.state = groups'
      BY <3>2, <3>3 DEF Create, Done, Rejected, row
    <3>5. QED  BY <2>1, <3>1, <3>2, <3>4 DEF IsTable
  <2>5. QED  BY <2>3, <2>4
<1>2. CASE cmd.op = "AddMember"
  <2>1. Trial(cmd) = add_member(cmd) /\ Trial(cmd)' = add_member(cmd)'
    BY <1>2 DEF Trial
  <2>2. cmd.members \in SUBSET GNodes
    BY <1>2 DEF Commands
  <2>3. CASE cmd.c \notin DOMAIN groups
    BY <2>1, <2>3 DEF add_member, Rejected, Done
  <2>4. CASE cmd.c \in DOMAIN groups
    <3> DEFINE all == groups[cmd.c].members \cup cmd.members
    <3>1. groups' = SetMembers(groups, cmd.c, all) /\ all \in SUBSET GNodes
      BY <2>1, <2>2, <2>4 DEF add_member, Done, ClusterRows, IsTable, SetMembers
    <3> HIDE DEF all
    <3>2. /\ DOMAIN groups' = DOMAIN groups /\ IsTable(groups')
          /\ groups'[cmd.c].members = all
      BY <2>4, <3>1, OtherMembers
    <3>3. groups'[cmd.c].members \cup cmd.members = groups'[cmd.c].members
      BY <3>2 DEF all
    <3>4. SetMembers(groups', cmd.c, groups'[cmd.c].members \cup cmd.members) = groups'
      BY <2>4, <3>2, <3>3, SameMembers
    <3>5. add_member(cmd)'.state = groups'
      BY <2>4, <3>2, <3>4 DEF add_member, Done, SetMembers
    <3>6. QED  BY <2>1, <3>2, <3>5
  <2>5. QED  BY <2>3, <2>4
<1>3. CASE cmd.op = "RemoveMember"
  <2>1. Trial(cmd) = remove_member(cmd) /\ Trial(cmd)' = remove_member(cmd)'
    BY <1>3 DEF Trial
  <2>2. CASE cmd.c \notin DOMAIN groups
    BY <2>1, <2>2 DEF remove_member, Rejected, Done
  <2>3. CASE cmd.c \in DOMAIN groups /\ groups[cmd.c].members \subseteq cmd.members
    <3>1. groups' = [d \in DOMAIN groups \ {cmd.c} |-> groups[d]]
      BY <2>1, <2>3 DEF remove_member, Done, Without
    <3>2. remove_member(cmd)'.state = groups'
      BY <3>1 DEF remove_member, Rejected
    <3>3. QED  BY <2>1, <3>1, <3>2 DEF IsTable
  <2>4. CASE cmd.c \in DOMAIN groups /\ ~(groups[cmd.c].members \subseteq cmd.members)
    <3> DEFINE left == groups[cmd.c].members \ cmd.members
    <3>1. groups' = SetMembers(groups, cmd.c, left) /\ left \in SUBSET GNodes
      BY <2>1, <2>4 DEF remove_member, Done, ClusterRows, IsTable, SetMembers
    <3>2. left # {} /\ left \cap cmd.members = {}
      BY <2>4
    <3> HIDE DEF left
    <3>3. /\ DOMAIN groups' = DOMAIN groups /\ IsTable(groups')
          /\ groups'[cmd.c].members = left
      BY <2>4, <3>1, OtherMembers
    <3>4. groups'[cmd.c].members \ cmd.members = groups'[cmd.c].members /\ ~(groups'[cmd.c].members \subseteq cmd.members)
      BY <3>2, <3>3
    <3>5. SetMembers(groups', cmd.c, groups'[cmd.c].members \ cmd.members) = groups'
      BY <2>4, <3>3, <3>4, SameMembers
    <3>6. remove_member(cmd)'.state = groups'
      BY <2>4, <3>3, <3>4, <3>5 DEF remove_member, Done, SetMembers
    <3>7. QED  BY <2>1, <3>3, <3>6
  <2>5. QED  BY <2>2, <2>3, <2>4
<1>4. CASE cmd.op = "Group"
  <2>1. Trial(cmd) = Group(cmd) /\ Trial(cmd)' = Group(cmd)'
    BY <1>4 DEF Trial
  <2>2. cmd.members \in SUBSET GNodes /\ cmd.pipeline \in Pipelines
    BY <1>4 DEF Commands
  <2>3. CASE groups' = groups
    BY <2>1, <2>3 DEF Group, Done, Rejected, With
  <2>4. CASE groups' # groups /\ cmd.c \notin DOMAIN groups
    <3> DEFINE row == [members |-> cmd.members, pipeline |-> cmd.pipeline, epoch |-> 0]
    <3>1. row \in ClusterRows /\ row.members = cmd.members /\ row.pipeline = cmd.pipeline
      BY <2>2 DEF ClusterRows
    <3> HIDE DEF row
    <3>2. /\ cmd.members # {}
          /\ groups' = [d \in DOMAIN groups \cup {cmd.c} |-> IF d = cmd.c THEN row ELSE groups[d]]
      BY <2>1, <2>4 DEF Group, Done, Rejected, With, row
    <3>3. cmd.c \in DOMAIN groups' /\ groups'[cmd.c] = row
      BY <3>2
    <3>4. Group(cmd)'.state = groups'
      BY <3>1, <3>2, <3>3 DEF Group, Done
    <3>5. QED  BY <2>1, <3>1, <3>2, <3>4 DEF IsTable
  <2>5. CASE groups' # groups /\ cmd.c \in DOMAIN groups
    <3> DEFINE all == groups[cmd.c].members \cup cmd.members
    <3>1. /\ groups' = SetMembers(groups, cmd.c, all) /\ all \in SUBSET GNodes
          /\ cmd.members # {} /\ groups[cmd.c].pipeline = cmd.pipeline
      BY <2>1, <2>2, <2>5 DEF Group, Done, Rejected, ClusterRows, IsTable, SetMembers
    <3> HIDE DEF all
    <3>2. /\ DOMAIN groups' = DOMAIN groups /\ IsTable(groups')
          /\ groups'[cmd.c].members = all /\ groups'[cmd.c].pipeline = cmd.pipeline
      BY <2>5, <3>1, OtherMembers
    <3>3. groups'[cmd.c].members \cup cmd.members = groups'[cmd.c].members
      BY <3>2 DEF all
    <3>4. SetMembers(groups', cmd.c, groups'[cmd.c].members \cup cmd.members) = groups'
      BY <2>5, <3>2, <3>3, SameMembers
    <3>5. Group(cmd)'.state = groups'
      BY <2>5, <3>1, <3>2, <3>4 DEF Group, Done, SetMembers
    <3>6. QED  BY <2>1, <3>2, <3>5
  <2>6. QED  BY <2>3, <2>4, <2>5
<1>5. CASE cmd.op = "Dissolve"
  <2>1. Trial(cmd) = Dissolve(cmd) /\ Trial(cmd)' = Dissolve(cmd)'
    BY <1>5 DEF Trial
  <2>2. CASE cmd.c \notin DOMAIN groups
    BY <2>1, <2>2 DEF Dissolve, Rejected, Done
  <2>3. CASE cmd.c \in DOMAIN groups
    <3>1. groups' = [d \in DOMAIN groups \ {cmd.c} |-> groups[d]]
      BY <2>1, <2>3 DEF Dissolve, Done, Without
    <3>2. Dissolve(cmd)'.state = groups'
      BY <3>1 DEF Dissolve, Rejected
    <3>3. QED  BY <2>1, <3>1, <3>2 DEF IsTable
  <2>4. QED  BY <2>2, <2>3
<1>6. QED  BY <1>1, <1>2, <1>3, <1>4, <1>5 DEF Commands

LEMMA RaftStep == RaftInv /\ [RaftNext]_rvars => RaftInv'
<1> SUFFICES ASSUME RaftInv, [RaftNext]_rvars PROVE RaftInv'
  OBVIOUS
<1>1. CASE UNCHANGED rvars
  BY <1>1 DEF rvars, RaftInv, RetryHarmless, Trial, Create, add_member, remove_member, Group, Dissolve,
                 Done, Rejected, With, Without
<1>2. ASSUME NEW cmd \in Commands, propose(cmd) PROVE RaftInv'
  <2>1. CASE last' = NoCommand /\ UNCHANGED groups
    BY <2>1 DEF RaftInv, RetryHarmless, NoCommand
  <2>2. CASE groups' = Trial(cmd).state /\ last' = [op |-> cmd.op, done |-> TRUE, cmd |-> cmd]
    <3>1. IsTable(groups') /\ Trial(cmd)'.state = groups'
      BY <2>2, TwiceIsOnce DEF RaftInv
    <3>2. last'.cmd = cmd
      BY <2>2
    <3>3. Trial(last.cmd)' = Trial(cmd)'
      BY <3>2 DEF Trial, Create, add_member, remove_member, Group, Dissolve, Done, Rejected, With, Without
    <3>4. QED  BY <3>1, <3>3 DEF RaftInv, RetryHarmless
  <2>3. QED  BY <1>2, <2>1, <2>2 DEF propose
<1>3. QED  BY <1>1, <1>2 DEF RaftNext

\* The mesh layer of gossip.rs and raft.rs, whatever the transport loses,
\* repeats or reorders and whatever the engine answers: one info per version,
\* no death without silence or enough reports, and commands that may be sent
\* twice.
THEOREM MeshAlwaysSafe == MeshSpec => []MeshSafe
<1>1. DetectorInv => SilentBeforeDead  BY DEF DetectorInv
<1>2. RaftInv => RetryHarmless         BY DEF RaftInv
<1>3. OneInfoPerVersion /\ SilentBeforeDead /\ RetryHarmless => MeshSafe  BY DEF MeshSafe
<1>4. QED
  BY <1>1, <1>2, <1>3, VersionsTell, GossipStart, GossipStep, DetectorStart, DetectorStep,
     RaftStart, RaftStep, PTL DEF MeshSpec

-----------------------------------------------------------------------------
(***************************************************************************)
(* ServerApi.  Whoever is about to write or to clear holds the station of  *)
(* the table, and a patch that has read the list carries every edit that   *)
(* was acknowledged before, unless it was acknowledged while the list was  *)
(* already read, which is a race.                                          *)
(***************************************************************************)
Shape(r) == r = [at |-> r.at, id |-> r.id, to |-> r.to, seen |-> r.seen, row |-> r.row, st |-> r.st]

Carried(e, list) == e.id \in DOMAIN list => list[e.id] = e.to

ReqOk(r) ==
  /\ Shape(r) /\ r.row \in Nat
  /\ r.at \in {"write", "clear"} => r.st = audit_st /\ audit_st # 0
  /\ r.at = "register" => r.st \in 1..Len(rows)
  /\ r.at = "submit" => /\ r.id \in DOMAIN r.seen => r.seen[r.id] = r.to
                        /\ \A e \in owed : e.raced \/ e.id = r.id \/ Carried(e, r.seen)

ApiInv ==
  /\ req = [c \in Clients |-> req[c]] /\ \A c \in Clients : ReqOk(req[c])
  /\ rows \in Seq(SUBSET Nat) /\ audit_st \in 0..Len(rows) /\ edits \in Nat
  /\ AuditKept /\ PatchLostOnlyByRace

LEMMA NoReqFields ==
  /\ Shape(NoReq) /\ NoReq.row = 0 /\ NoReq.at = "free"
  BY DEF Shape, NoReq

\* One field of a request is set.
WithAt(r, x) == [r EXCEPT !.at = x]
WithId(r, x) == [r EXCEPT !.id = x]
WithTo(r, x) == [r EXCEPT !.to = x]
WithSeen(r, x) == [r EXCEPT !.seen = x]
WithRow(r, x) == [r EXCEPT !.row = x]
WithSt(r, x) == [r EXCEPT !.st = x]

\* A request keeps its other fields.
LEMMA RequestFields ==
  ASSUME NEW r, Shape(r), NEW x
  PROVE  /\ Shape(WithAt(r, x)) /\ WithAt(r, x).at = x /\ WithAt(r, x).id = r.id /\ WithAt(r, x).to = r.to
         /\ WithAt(r, x).seen = r.seen /\ WithAt(r, x).row = r.row /\ WithAt(r, x).st = r.st
         /\ Shape(WithId(r, x)) /\ WithId(r, x).at = r.at /\ WithId(r, x).id = x /\ WithId(r, x).to = r.to
         /\ WithId(r, x).seen = r.seen /\ WithId(r, x).row = r.row /\ WithId(r, x).st = r.st
         /\ Shape(WithTo(r, x)) /\ WithTo(r, x).at = r.at /\ WithTo(r, x).id = r.id /\ WithTo(r, x).to = x
         /\ WithTo(r, x).seen = r.seen /\ WithTo(r, x).row = r.row /\ WithTo(r, x).st = r.st
         /\ Shape(WithSeen(r, x)) /\ WithSeen(r, x).at = r.at /\ WithSeen(r, x).id = r.id /\ WithSeen(r, x).to = r.to
         /\ WithSeen(r, x).seen = x /\ WithSeen(r, x).row = r.row /\ WithSeen(r, x).st = r.st
         /\ Shape(WithRow(r, x)) /\ WithRow(r, x).at = r.at /\ WithRow(r, x).id = r.id /\ WithRow(r, x).to = r.to
         /\ WithRow(r, x).seen = r.seen /\ WithRow(r, x).row = x /\ WithRow(r, x).st = r.st
         /\ Shape(WithSt(r, x)) /\ WithSt(r, x).at = r.at /\ WithSt(r, x).id = r.id /\ WithSt(r, x).to = r.to
         /\ WithSt(r, x).seen = r.seen /\ WithSt(r, x).row = r.row /\ WithSt(r, x).st = x
<1>1. /\ Shape(WithAt(r, x)) /\ WithAt(r, x).at = x /\ WithAt(r, x).id = r.id /\ WithAt(r, x).to = r.to
      /\ WithAt(r, x).seen = r.seen /\ WithAt(r, x).row = r.row /\ WithAt(r, x).st = r.st
  BY DEF Shape, WithAt
<1>2. /\ Shape(WithId(r, x)) /\ WithId(r, x).at = r.at /\ WithId(r, x).id = x /\ WithId(r, x).to = r.to
      /\ WithId(r, x).seen = r.seen /\ WithId(r, x).row = r.row /\ WithId(r, x).st = r.st
  BY DEF Shape, WithId
<1>3. /\ Shape(WithTo(r, x)) /\ WithTo(r, x).at = r.at /\ WithTo(r, x).id = r.id /\ WithTo(r, x).to = x
      /\ WithTo(r, x).seen = r.seen /\ WithTo(r, x).row = r.row /\ WithTo(r, x).st = r.st
  BY DEF Shape, WithTo
<1>4. /\ Shape(WithSeen(r, x)) /\ WithSeen(r, x).at = r.at /\ WithSeen(r, x).id = r.id /\ WithSeen(r, x).to = r.to
      /\ WithSeen(r, x).seen = x /\ WithSeen(r, x).row = r.row /\ WithSeen(r, x).st = r.st
  BY DEF Shape, WithSeen
<1>5. /\ Shape(WithRow(r, x)) /\ WithRow(r, x).at = r.at /\ WithRow(r, x).id = r.id /\ WithRow(r, x).to = r.to
      /\ WithRow(r, x).seen = r.seen /\ WithRow(r, x).row = x /\ WithRow(r, x).st = r.st
  BY DEF Shape, WithRow
<1>6. /\ Shape(WithSt(r, x)) /\ WithSt(r, x).at = r.at /\ WithSt(r, x).id = r.id /\ WithSt(r, x).to = r.to
      /\ WithSt(r, x).seen = r.seen /\ WithSt(r, x).row = r.row /\ WithSt(r, x).st = x
  BY DEF Shape, WithSt
<1>7. QED  BY <1>1, <1>2, <1>3, <1>4, <1>5, <1>6

LEMMA ApiStart == ApiInit => ApiInv
<1> SUFFICES ASSUME ApiInit PROVE ApiInv
  OBVIOUS
<1>1. rows \in Seq(SUBSET Nat) /\ Len(rows) = 0 /\ audit_st = 0 /\ edits = 0 /\ trail = {} /\ owed = {}
  BY DEF ApiInit
<1>2. req = [c \in Clients |-> NoReq] /\ ReqOk(NoReq)
  BY NoReqFields DEF ApiInit, ReqOk
<1>3. AuditKept /\ PatchLostOnlyByRace
  BY <1>1 DEF AuditKept, PatchLostOnlyByRace
<1>4. QED  BY <1>1, <1>2, <1>3 DEF ApiInv

\* A step that changes one request, and neither stations nor pipeline.
LEMMA OneRequest ==
  ASSUME ApiInv, NEW c \in Clients, NEW r, req' = [req EXCEPT ![c] = r], ReqOk(r), edits' \in Nat,
         UNCHANGED <<pipeline, audit_st, rows, trail, owed>>
  PROVE  ApiInv'
<1>1. req' = [d \in Clients |-> req'[d]] /\ \A d \in Clients : ReqOk(req'[d])
  <2>1. req' = [d \in Clients |-> IF d = c THEN r ELSE req[d]]
    BY DEF ApiInv
  <2>2. \A d \in Clients : req'[d] = IF d = c THEN r ELSE req[d]
    BY <2>1
  <2>3. \A d \in Clients : ReqOk(req'[d])
    BY <2>2 DEF ApiInv
  <2>4. QED  BY <2>1, <2>3
<1>2. \A d \in Clients : ReqOk(req[d])'
  BY <1>1 DEF ReqOk, Carried
<1>3. AuditKept' /\ PatchLostOnlyByRace'
  BY DEF ApiInv, AuditKept, PatchLostOnlyByRace
<1>4. rows' \in Seq(SUBSET Nat) /\ audit_st' \in 0..Len(rows')
  BY DEF ApiInv
<1>5. QED  BY <1>1, <1>2, <1>3, <1>4 DEF ApiInv

\* The calls that only start, or look at, something.
LEMMA QuietCalls ==
  ASSUME ApiInv, NEW c \in Clients,
         \/ ReadTarget(c) \/ HostAudit(c) \/ AuditLookup(c)
         \/ set_attribute(c) \/ remove_attribute(c) \/ clear_station(c) \/ clear_all_stations(c)
  PROVE  ApiInv'
<1>1. ReqOk(NoReq) /\ Shape(NoReq) /\ ReqOk(req[c]) /\ Shape(req[c]) /\ edits \in Nat /\ edits + 1 \in Nat
  BY NoReqFields DEF ReqOk, ApiInv
<1>2. req' = req => req' = [req EXCEPT ![c] = req[c]]
  BY DEF ApiInv
<1>3. CASE ReadTarget(c)
  <2>1. PICK n, v : \/ req' = req
                    \/ req' = [req EXCEPT ![c] = [NoReq EXCEPT !.at = "patch", !.id = n, !.to = v, !.row = edits + 1]]
    BY <1>3 DEF ReadTarget, Go
  <2>2. ReqOk([NoReq EXCEPT !.at = "patch", !.id = n, !.to = v, !.row = edits + 1])
    <3> DEFINE r == WithRow(WithTo(WithId(WithAt(NoReq, "patch"), n), v), edits + 1)
    <3>1. r.at = "patch" /\ r.row = edits + 1 /\ Shape(r)
      BY <1>1, RequestFields
    <3>2. ReqOk(r)
      BY <1>1, <3>1 DEF ReqOk
    <3>3. QED  BY <3>2 DEF WithRow, WithTo, WithId, WithAt
  <2>3. edits' \in Nat /\ UNCHANGED <<pipeline, audit_st, rows, trail, owed>>
    BY <1>1, <1>3 DEF ReadTarget
  <2>4. QED  BY <1>1, <1>2, <2>1, <2>2, <2>3, OneRequest
<1>4. CASE HostAudit(c)
  <2>1. ReqOk([NoReq EXCEPT !.at = "audit", !.row = edits + 1])
    <3> DEFINE r == WithRow(WithAt(NoReq, "audit"), edits + 1)
    <3>1. r.at = "audit" /\ r.row = edits + 1 /\ Shape(r)
      BY <1>1, RequestFields
    <3>2. ReqOk(r)
      BY <1>1, <3>1 DEF ReqOk
    <3>3. QED  BY <3>2 DEF WithRow, WithAt
  <2>2. /\ req' = [req EXCEPT ![c] = [NoReq EXCEPT !.at = "audit", !.row = edits + 1]]
        /\ edits' \in Nat /\ UNCHANGED <<pipeline, audit_st, rows, trail, owed>>
    BY <1>1, <1>4 DEF HostAudit, Go
  <2>3. QED  BY <2>1, <2>2, OneRequest
<1>5. CASE AuditLookup(c)
  <2>1. ReqOk([req[c] EXCEPT !.at = "open"])
    <3> DEFINE r == WithAt(req[c], "open")
    <3>1. r.at = "open" /\ r.row = req[c].row /\ Shape(r)
      BY <1>1, RequestFields
    <3>2. ReqOk(r)
      BY <1>1, <3>1 DEF ReqOk
    <3>3. QED  BY <3>2 DEF WithAt
  <2>2. audit_st # 0 => ReqOk([req[c] EXCEPT !.at = "write", !.st = audit_st])
    <3> DEFINE r == WithSt(WithAt(req[c], "write"), audit_st)
    <3>1. r.at = "write" /\ r.row = req[c].row /\ Shape(r) /\ r.st = audit_st
      BY <1>1, RequestFields
    <3>2. audit_st # 0 => ReqOk(r)
      BY <1>1, <3>1 DEF ReqOk
    <3>3. QED  BY <3>2 DEF WithSt, WithAt
  <2>3. /\ req' = [req EXCEPT ![c] = IF audit_st = 0 THEN [req[c] EXCEPT !.at = "open"]
                                     ELSE [req[c] EXCEPT !.at = "write", !.st = audit_st]]
        /\ edits' \in Nat /\ UNCHANGED <<pipeline, audit_st, rows, trail, owed>>
    BY <1>1, <1>5 DEF AuditLookup, Go
  <2>4. QED  BY <2>1, <2>2, <2>3, OneRequest
<1>6. CASE set_attribute(c) \/ remove_attribute(c)
  <2>1. req' = req /\ edits' \in Nat /\ UNCHANGED <<pipeline, audit_st, rows, trail, owed>>
    BY <1>1, <1>6 DEF set_attribute, remove_attribute
  <2>2. QED  BY <1>1, <1>2, <2>1, OneRequest
<1>7. CASE clear_station(c) \/ clear_all_stations(c)
  <2>1. audit_st # 0 => ReqOk([NoReq EXCEPT !.at = "clear", !.st = audit_st])
    <3> DEFINE r == WithSt(WithAt(NoReq, "clear"), audit_st)
    <3>1. r.at = "clear" /\ r.row = 0 /\ Shape(r) /\ r.st = audit_st
      BY <1>1, RequestFields, NoReqFields
    <3>2. audit_st # 0 => ReqOk(r)
      BY <1>1, <3>1 DEF ReqOk
    <3>3. QED  BY <3>2 DEF WithSt, WithAt
  <2>2. /\ req' = req \/ (audit_st # 0 /\ req' = [req EXCEPT ![c] = [NoReq EXCEPT !.at = "clear", !.st = audit_st]])
        /\ edits' \in Nat /\ UNCHANGED <<pipeline, audit_st, rows, trail, owed>>
    BY <1>1, <1>7 DEF clear_station, clear_all_stations, Go
  <2>3. QED  BY <1>1, <1>2, <2>1, <2>2, OneRequest
<1>8. QED  BY <1>3, <1>4, <1>5, <1>6, <1>7

\* The list that a patch reads carries every edit that is owed.
LEMMA ReadAllKeeps ==
  ASSUME ApiInv, NEW c \in Clients, ReadAll(c)
  PROVE  ApiInv'
<1>1. ReqOk(NoReq) /\ ReqOk(req[c]) /\ Shape(req[c]) /\ edits' \in Nat /\ UNCHANGED <<pipeline, audit_st, rows, trail, owed>>
  BY NoReqFields DEF ReqOk, ApiInv, ReadAll
<1>2. CASE req' = [req EXCEPT ![c] = NoReq]
  BY <1>1, <1>2, OneRequest
<1>3. CASE req[c].id \in DOMAIN pipeline
  <2> DEFINE list == [pipeline EXCEPT ![req[c].id] = req[c].to]
             r == WithSeen(WithAt(req[c], "submit"), list)
  <2>1. req' = [req EXCEPT ![c] = r]
    BY <1>3 DEF ReadAll, Go, components, WithSeen, WithAt
  <2>2. list[req[c].id] = req[c].to /\ \A e \in owed : e.raced \/ e.id = req[c].id \/ Carried(e, list)
    BY <1>3 DEF ApiInv, PatchLostOnlyByRace, Carried
  <2>3. Shape(r) /\ r.at = "submit" /\ r.id = req[c].id /\ r.to = req[c].to /\ r.seen = list /\ r.row = req[c].row
    <3> HIDE DEF list
    <3>1. QED  BY <1>1, RequestFields
  <2> HIDE DEF list, r
  <2>4. ReqOk(r)
    BY <1>1, <2>2, <2>3 DEF ReqOk
  <2>5. QED  BY <1>1, <2>1, <2>4, OneRequest
<1>4. QED  BY <1>2, <1>3 DEF ReadAll, Answer, Go, components

\* The whole list is replaced, and nothing is owed any more.
LEMMA ReloadKeeps ==
  ASSUME ApiInv, NEW c \in Clients, reload(c)
  PROVE  ApiInv'
<1>1. owed' = {} /\ UNCHANGED <<audit_st, rows, req, edits, trail>>
  BY DEF reload
<1>2. ASSUME NEW d \in Clients PROVE ReqOk(req[d])'
  BY <1>1 DEF ApiInv, ReqOk
<1>3. AuditKept' /\ PatchLostOnlyByRace'
  BY <1>1 DEF ApiInv, AuditKept, PatchLostOnlyByRace
<1>4. QED  BY <1>1, <1>2, <1>3 DEF ApiInv

\* The list goes into force; whoever has read before is marked as racing.
LEMMA SubmitKeeps ==
  ASSUME ApiInv, NEW c \in Clients, Submit(c)
  PROVE  ApiInv'
<1>1. /\ ReqOk(NoReq) /\ ReqOk(req[c]) /\ Shape(req[c]) /\ req[c].at = "submit"
      /\ edits' = edits /\ edits \in Nat /\ UNCHANGED <<audit_st, rows, trail>>
  BY NoReqFields DEF ReqOk, ApiInv, Submit, At
<1>2. CASE req' = [req EXCEPT ![c] = NoReq] /\ UNCHANGED <<pipeline, owed>>
  BY <1>1, <1>2, OneRequest
<1>3. CASE ~(req' = [req EXCEPT ![c] = NoReq] /\ UNCHANGED <<pipeline, owed>>)
  <2> DEFINE new == [id |-> req[c].id, to |-> req[c].to, raced |-> \E d \in Clients \ {c} : At(d, "submit")]
             r == WithSeen(WithAt(req[c], "audit"), <<>>)
  <2>1. /\ pipeline' = req[c].seen /\ req' = [req EXCEPT ![c] = r]
        /\ owed' = {e \in owed : e.id # req[c].id} \cup {new}
    BY <1>3 DEF Submit, Reloaded, Go, Answer, WithSeen, WithAt
  <2>2. Shape(r) /\ r.at = "audit" /\ r.row = req[c].row
    BY <1>1, RequestFields
  <2>3. /\ new.id = req[c].id /\ new.to = req[c].to
        /\ \A d \in Clients : d # c /\ req[d].at = "submit" => new.raced
    BY DEF At
  <2> HIDE DEF new, r
  <2>4. \A e \in owed' : e = new \/ (e \in owed /\ e.id # req[c].id)
    BY <2>1
  <2>5. req' = [d \in Clients |-> IF d = c THEN r ELSE req[d]]
    BY <2>1 DEF ApiInv
  <2>6. ASSUME NEW d \in Clients PROVE ReqOk(req[d])'
    <3>1. CASE d = c
      <4>1. req'[d] = r
        BY <2>5, <3>1
      <4>2. QED  BY <1>1, <2>2, <4>1 DEF ReqOk
    <3>2. CASE d # c
      <4>1. req'[d] = req[d] /\ ReqOk(req[d])
        BY <2>5, <3>2 DEF ApiInv
      <4>2. req[d].at = "submit" => \A e \in owed' : e.raced \/ e.id = req[d].id \/ Carried(e, req[d].seen)
        BY <2>3, <2>4, <3>2, <4>1 DEF ReqOk
      <4>3. QED  BY <1>1, <4>1, <4>2 DEF ReqOk, Carried
    <3>3. QED  BY <3>1, <3>2
  <2>7. PatchLostOnlyByRace'
    <3>1. ASSUME NEW e \in owed' PROVE e.raced \/ Carried(e, req[c].seen)
      BY <1>1, <2>3, <2>4 DEF ReqOk, Carried
    <3>2. QED  BY <2>1, <3>1 DEF PatchLostOnlyByRace, Carried
  <2>8. AuditKept' /\ rows' \in Seq(SUBSET Nat) /\ audit_st' \in 0..Len(rows')
    BY <1>1 DEF ApiInv, AuditKept
  <2>9. req' = [d \in Clients |-> req'[d]]
    BY <2>5
  <2>10. QED  BY <1>1, <2>6, <2>7, <2>8, <2>9 DEF ApiInv
<1>4. QED  BY <1>2, <1>3

\* Steps of the audit trail that touch stations, but neither list nor edits.
LEMMA StationStep ==
  ASSUME ApiInv, NEW c \in Clients, NEW r, req' = [req EXCEPT ![c] = r],
         UNCHANGED <<pipeline, edits, owed>>, Shape(r), r.row \in Nat, r.at # "submit",
         r.at \in {"write", "clear"} => r.st = audit_st' /\ audit_st' # 0,
         r.at = "register" => r.st \in 1..Len(rows'),
         audit_st = 0 \/ audit_st' = audit_st, Len(rows) <= Len(rows'),
         rows' \in Seq(SUBSET Nat), audit_st' \in 0..Len(rows'), AuditKept'
  PROVE  ApiInv'
<1>1. req' = [d \in Clients |-> IF d = c THEN r ELSE req[d]]
  BY DEF ApiInv
<1>2. ASSUME NEW d \in Clients PROVE ReqOk(req[d])'
  <2>1. CASE d = c
    <3>1. req'[d] = r
      BY <1>1, <2>1
    <3>2. QED  BY <3>1 DEF ReqOk
  <2>2. CASE d # c
    <3>1. req'[d] = req[d] /\ ReqOk(req[d])
      BY <1>1, <2>2 DEF ApiInv
    <3>2. 1..Len(rows) \subseteq 1..Len(rows')
      BY DEF ApiInv
    <3>3. QED  BY <3>1, <3>2 DEF ReqOk, Carried
  <2>3. QED  BY <2>1, <2>2
<1>3. PatchLostOnlyByRace' /\ edits' \in Nat
  BY DEF ApiInv, PatchLostOnlyByRace
<1>4. req' = [d \in Clients |-> req'[d]]
  BY <1>1
<1>5. QED  BY <1>2, <1>3, <1>4 DEF ApiInv

LEMMA AuditCalls ==
  ASSUME ApiInv, NEW c \in Clients,
         AuditOpen(c) \/ AuditRegister(c) \/ AuditWrite(c) \/ ClearRows(c)
  PROVE  ApiInv'
<1>1. /\ ReqOk(req[c]) /\ Shape(req[c]) /\ req[c].row \in Nat /\ Shape(NoReq) /\ NoReq.row \in Nat /\ NoReq.at = "free"
      /\ rows \in Seq(SUBSET Nat) /\ Len(rows) \in Nat /\ audit_st \in 0..Len(rows) /\ AuditKept /\ ReqOk(NoReq)
  BY NoReqFields DEF ReqOk, ApiInv
<1>2. CASE AuditOpen(c)
  <2>1. CASE req' = [req EXCEPT ![c] = NoReq] /\ rows' = rows
    <3>1. UNCHANGED <<pipeline, audit_st, edits, trail, owed>>
      BY <1>2 DEF AuditOpen
    <3>2. edits' \in Nat
      BY <3>1 DEF ApiInv
    <3>3. QED  BY <1>1, <2>1, <3>1, <3>2, OneRequest
  <2>2. CASE ~(req' = [req EXCEPT ![c] = NoReq] /\ rows' = rows)
    <3> DEFINE r == WithSt(WithAt(req[c], "register"), Len(rows) + 1)
    <3>1. rows' = Append(rows, {}) /\ req' = [req EXCEPT ![c] = r] /\ UNCHANGED <<pipeline, audit_st, edits, owed, trail>>
      BY <1>2, <2>2 DEF AuditOpen, Answer, Go, WithSt, WithAt
    <3>2. Shape(r) /\ r.at = "register" /\ r.row \in Nat /\ r.st = Len(rows) + 1
      BY <1>1, RequestFields
    <3> HIDE DEF r
    <3>3. /\ rows' \in Seq(SUBSET Nat) /\ Len(rows') = Len(rows) + 1
          /\ \A k \in 1..Len(rows) : rows'[k] = rows[k]
      BY <1>1, <3>1
    <3>4. AuditKept'
      BY <1>1, <3>1, <3>3 DEF AuditKept
    <3>5. r.st \in 1..Len(rows') /\ audit_st' \in 0..Len(rows') /\ Len(rows) <= Len(rows')
      BY <1>1, <3>1, <3>2, <3>3
    <3>6. QED  BY <3>1, <3>2, <3>3, <3>4, <3>5, StationStep
  <2>3. QED  BY <2>1, <2>2
<1>3. CASE AuditRegister(c)
  <2> DEFINE r == WithAt(req[c], "audit")
  <2>1. /\ req' = [req EXCEPT ![c] = r] /\ UNCHANGED <<pipeline, rows, edits, owed, trail>>
        /\ audit_st' = (IF audit_st = 0 THEN req[c].st ELSE audit_st) /\ req[c].st \in 1..Len(rows)
    BY <1>1, <1>3 DEF AuditRegister, At, Go, registry, WithAt, ReqOk
  <2>2. Shape(r) /\ r.at = "audit" /\ r.row \in Nat
    BY <1>1, RequestFields
  <2> HIDE DEF r
  <2>3. AuditKept'
    BY <1>1, <2>1 DEF AuditKept
  <2>4. audit_st' \in 0..Len(rows') /\ Len(rows) <= Len(rows')
    BY <1>1, <2>1
  <2>5. QED  BY <1>1, <2>1, <2>2, <2>3, <2>4, StationStep
<1>4. ASSUME NEW S \in SUBSET Nat, req[c].at \in {"write", "clear"},
             rows' = [rows EXCEPT ![req[c].st] = S], req' = [req EXCEPT ![c] = NoReq],
             UNCHANGED <<pipeline, audit_st, edits, owed>>, trail' \subseteq S
      PROVE  ApiInv'
  <2>1. req[c].st = audit_st /\ audit_st \in 1..Len(rows)
    BY <1>1, <1>4 DEF ReqOk
  <2>2. rows' \in Seq(SUBSET Nat) /\ Len(rows') = Len(rows) /\ rows'[audit_st] = S
    BY <1>1, <1>4, <2>1
  <2>3. AuditKept'
    BY <1>4, <2>1, <2>2 DEF AuditKept
  <2>4. /\ Shape(NoReq) /\ NoReq.row \in Nat /\ NoReq.at \notin {"submit", "write", "clear", "register"}
        /\ audit_st' = audit_st /\ audit_st' \in 0..Len(rows') /\ Len(rows) <= Len(rows')
    BY <1>1, <1>4, <2>2
  <2>5. QED  BY <1>4, <2>2, <2>3, <2>4, StationStep
<1>5. CASE AuditWrite(c)
  <2>1. req[c].at = "write" /\ req[c].st = audit_st /\ audit_st \in 1..Len(rows)
    BY <1>1, <1>5 DEF AuditWrite, At, ReqOk
  <2>2. rows[audit_st] \in SUBSET Nat /\ trail \subseteq rows[audit_st]
    BY <1>1, <2>1 DEF AuditKept
  <2>3. /\ rows' = [rows EXCEPT ![req[c].st] = rows[req[c].st] \cup {req[c].row}]
        /\ trail' = trail \cup {req[c].row} /\ req' = [req EXCEPT ![c] = NoReq]
        /\ UNCHANGED <<pipeline, audit_st, edits, owed>>
    BY <1>5 DEF AuditWrite, Answer, Go
  <2>4. rows[req[c].st] \cup {req[c].row} \in SUBSET Nat /\ trail' \subseteq rows[req[c].st] \cup {req[c].row}
    <3>1. rows[req[c].st] = rows[audit_st]
      BY <2>1
    <3>2. QED  BY <1>1, <2>2, <2>3, <3>1
  <2>5. QED  BY <1>4, <2>1, <2>3, <2>4
<1>6. CASE ClearRows(c)
  <2>1. /\ req[c].at = "clear" /\ rows' = [rows EXCEPT ![req[c].st] = {}] /\ trail' = {}
        /\ req' = [req EXCEPT ![c] = NoReq] /\ UNCHANGED <<pipeline, audit_st, edits, owed>>
    BY <1>6 DEF ClearRows, Answer, Go, At
  <2>2. {} \in SUBSET Nat /\ trail' \subseteq {}
    BY <2>1
  <2>3. QED  BY <1>4, <2>1, <2>2
<1>7. QED  BY <1>2, <1>3, <1>5, <1>6

LEMMA ApiStep == ApiInv /\ [ApiNext]_avars => ApiInv'
<1> SUFFICES ASSUME ApiInv, [ApiNext]_avars PROVE ApiInv'
  OBVIOUS
<1>1. CASE UNCHANGED avars
  BY <1>1 DEF avars, ApiInv, ReqOk, Carried, AuditKept, PatchLostOnlyByRace
<1>2. CASE ApiNext
  BY <1>2, ReloadKeeps, QuietCalls, ReadAllKeeps, SubmitKeeps, AuditCalls DEF ApiNext
<1>3. QED  BY <1>1, <1>2

\* For any number of clients whose calls overlap at every await (api/repl/v1.rs,
\* api/mod.rs): an audit row that was written stays readable until a clear, and
\* an acknowledged patch is lost only to a patch that was already under way.
THEOREM EditsAlwaysKept == ApiSpec => []EditsKept
<1>1. ApiInv => EditsKept
  BY DEF ApiInv, EditsKept
<1>2. QED  BY <1>1, ApiStart, ApiStep, PTL DEF ApiSpec

-----------------------------------------------------------------------------
(***************************************************************************)
(* LakeMirror.  Two invariants that do not meet: SnapInv, about what is    *)
(* under the generations of the bucket, and ListInv, about its delta files.*)
(* Both need the shape of the bucket and of the uploads.                   *)
(***************************************************************************)
ReadAgain == [at |-> "read list", snap |-> FALSE, left |-> {}]

Uploads ==
  [at : {"idle", "checkpoint"}]
  \cup [at : {"files", "read list"}, snap : BOOLEAN, left : SUBSET Rels]
  \cup [at : {"put list"}, snap : BOOLEAN, list : SUBSET Rels]
  \cup [at : {"tables"}, gen : 1..MaxGeneration, left : SUBSET LakeTables]
  \cup [at : {"deletes"}, left : SUBSET Rels, next : {NoUpload, ReadAgain}]

Buckets ==
  [files : [Rels -> SUBSET Nat], listed : SUBSET Rels, state : 0..MaxGeneration,
   tables : [LakeTables \X (1..MaxGeneration) -> Nat]]

MirrorShape ==
  /\ buf \subseteq Nat /\ appended \in Nat /\ listed \subseteq Rels /\ held \in [Rels -> SUBSET Nat]
  /\ generation \in 0..MaxGeneration /\ current \in (0..MaxGeneration) \X Nat /\ checkpoints \in Nat
  /\ remote \in Buckets /\ upload \in [Callers -> Uploads]

(***************************************************************************)
(* A generation is written by one checkpoint while a process lives: the    *)
(* checkpoints of a process count upwards from _current, and the uploads   *)
(* of the process before end with it.  So an upload's tables, as far as    *)
(* they are put, agree; under the current generation they hold the current *)
(* checkpoint, and nothing writes under another one.                       *)
(***************************************************************************)
TablesAgree(u) ==
  u.at = "tables" =>
    /\ u.gen <= current[1]
    /\ \E c \in 1..checkpoints :
         /\ u.gen = current[1] => c = current[2]
         /\ \A name \in LakeTables \ u.left : remote.tables[<<name, u.gen>>] = c

SnapInv ==
  /\ current[1] <= generation /\ (current[1] # 0 => current[2] \in 1..checkpoints)
  /\ remote.state <= current[1] /\ SnapshotWhole
  /\ remote.state # 0 /\ remote.state = current[1] =>
       \A name \in LakeTables : remote.tables[<<name, remote.state>>] = current[2]
  /\ \A t \in Callers : TablesAgree(upload[t])

(***************************************************************************)
(* Every delta file that some list names, the lake's, the bucket's or one  *)
(* on its way there, is in the bucket, on its way, or excused; and what is *)
(* being deleted from the bucket is excused.                               *)
(***************************************************************************)
Explained(r) ==
  remote.files[r] # {} \/ r \in excused \/ \E t \in Callers : upload[t].at = "files" /\ r \in upload[t].left

ListInv ==
  /\ \A r \in listed \cup remote.listed : Explained(r)
  /\ \A t \in Callers :
       /\ upload[t].at = "put list" => \A r \in upload[t].list : Explained(r)
       /\ upload[t].at = "deletes" => upload[t].left \subseteq excused

LEMMA MirrorStart == MirrorInit => MirrorShape /\ SnapInv /\ ListInv
<1> SUFFICES ASSUME MirrorInit PROVE MirrorShape /\ SnapInv /\ ListInv
  OBVIOUS
<1>1. MirrorShape
  <2>1. remote \in Buckets
    BY LakeShape DEF MirrorInit, Buckets, NoFiles
  <2>2. upload \in [Callers -> Uploads]
    BY DEF MirrorInit, Uploads, NoUpload
  <2>3. QED  BY <2>1, <2>2, LakeShape DEF MirrorInit, MirrorShape, NoFiles, NoCheckpoint
<1>2. SnapInv
  BY DEF MirrorInit, SnapInv, TablesAgree, NoUpload, NoCheckpoint, SnapshotWhole
<1>3. ListInv
  BY DEF MirrorInit, ListInv, NoUpload
<1>4. QED  BY <1>1, <1>2, <1>3

\* What a caller does next has the shape of an upload.
LEMMA NextUpload ==
  ASSUME MirrorShape, NEW t \in Callers, NEW next \in Uploads, Do(t, next)
  PROVE  /\ upload' \in [Callers -> Uploads] /\ upload'[t] = next
         /\ \A s \in Callers \ {t} : upload'[s] = upload[s]
  BY DEF Do, MirrorShape

LEMMA MirrorShapeStep == MirrorShape /\ [MirrorNext]_mirrorvars => MirrorShape'
<1> SUFFICES ASSUME MirrorShape, [MirrorNext]_mirrorvars PROVE MirrorShape'
  OBVIOUS
<1> USE LakeShape
<1>0. NoUpload \in Uploads /\ ReadAgain \in Uploads /\ \A snap \in BOOLEAN : After(snap) \in Uploads
  BY DEF NoUpload, ReadAgain, After, Uploads
<1>1. CASE UNCHANGED mirrorvars
  BY <1>1 DEF mirrorvars, MirrorShape
<1>2. CASE append_point
  BY <1>2 DEF append_point, World, MirrorShape
<1>3. CASE KilledAndReopened
  BY <1>0, <1>3 DEF KilledAndReopened, MirrorShape
<1>4. CASE Replaced
  <2>1. remote.state \in 0..MaxGeneration /\ \A n \in LakeTables, g \in 1..MaxGeneration : remote.tables[<<n, g>>] \in Nat
    BY DEF MirrorShape, Buckets
  <2>2. (CHOOSE n \in LakeTables : TRUE) \in LakeTables
    OBVIOUS
  <2>3. current' \in (0..MaxGeneration) \X Nat
    BY <1>4, <2>1, <2>2 DEF Replaced, NoCheckpoint
  <2>4. QED  BY <1>0, <1>4, <2>1, <2>3 DEF Replaced, MirrorShape, NoFiles
<1>5. CASE restore_ts
  BY <1>5 DEF restore_ts, MirrorShape, Buckets
<1>6. ASSUME NEW t \in Callers, NEW snap \in BOOLEAN, FlushFiles(t, snap) PROVE MirrorShape'
  <2>1. CASE buf = {}
    <3>1. Do(t, After(snap)) /\ UNCHANGED Local /\ remote' = remote
      BY <1>6, <2>1 DEF FlushFiles
    <3>2. QED  BY <1>0, <3>1, NextUpload DEF Local, MirrorShape
  <2>2. CASE buf # {}
    <3>1. PICK stamp \in millis..MaxMillis :
            /\ generation < MaxGeneration /\ generation' = generation + 1
            /\ held' = [r \in Rels |-> IF r \notin WrittenBy(stamp) THEN held[r] ELSE {p \in buf : BlockOfPoint[p] = r[1]}]
            /\ listed' = listed \cup WrittenBy(stamp) /\ buf' = {}
            /\ Do(t, [at |-> "files", snap |-> snap, left |-> WrittenBy(stamp)])
            /\ UNCHANGED <<appended, current, checkpoints>> /\ remote' = remote
      BY <1>6, <2>2 DEF FlushFiles
    <3>2. WrittenBy(stamp) \subseteq Rels
      BY DEF WrittenBy
    <3>3. [at |-> "files", snap |-> snap, left |-> WrittenBy(stamp)] \in Uploads
      BY <3>2 DEF Uploads
    <3>4. upload' \in [Callers -> Uploads]
      BY <3>1, <3>3, NextUpload
    <3>5. held' \in [Rels -> SUBSET Nat]
      BY <3>1 DEF MirrorShape
    <3>6. QED  BY <3>1, <3>2, <3>4, <3>5 DEF MirrorShape
  <2>3. QED  BY <2>1, <2>2
<1>7. ASSUME NEW t \in Callers, PutFile(t) PROVE MirrorShape'
  <2>1. PICK r \in upload[t].left :
          \/ Do(t, NoUpload) /\ UNCHANGED remote
          \/ remote' = [remote EXCEPT !.files[r] = held[r]] /\ Do(t, NextFile(upload[t], r))
    BY <1>7 DEF PutFile, Abort
  <2>2. UNCHANGED Local /\ upload[t].at = "files" /\ upload[t] \in Uploads
    BY <1>7 DEF PutFile, MirrorShape
  <2>3. upload[t] \in [at : {"files", "read list"}, snap : BOOLEAN, left : SUBSET Rels]
    BY <2>2 DEF Uploads
  <2>4. NextFile(upload[t], r) \in Uploads
    BY <2>3 DEF NextFile, Uploads
  <2>5. upload' \in [Callers -> Uploads]
    BY <1>0, <2>1, <2>4, NextUpload
  <2>6. remote' \in Buckets
    <3>1. remote \in Buckets /\ r \in Rels /\ held[r] \in SUBSET Nat
      BY <2>3 DEF MirrorShape
    <3>2. [remote.files EXCEPT ![r] = held[r]] \in [Rels -> SUBSET Nat]
      BY <3>1 DEF Buckets
    <3>3. QED  BY <2>1, <3>1, <3>2 DEF Buckets
  <2>7. QED  BY <2>2, <2>5, <2>6 DEF Local, MirrorShape
<1>8. ASSUME NEW t \in Callers, ReadList(t) PROVE MirrorShape'
  <2>1. upload[t] \in [at : {"files", "read list"}, snap : BOOLEAN, left : SUBSET Rels]
    BY <1>8 DEF ReadList, Uploads, MirrorShape
  <2>2. [at |-> "put list", snap |-> upload[t].snap, list |-> listed] \in Uploads
    BY <2>1 DEF Uploads, MirrorShape
  <2>3. QED  BY <1>8, <2>2, NextUpload DEF ReadList, Local, MirrorShape
<1>9. ASSUME NEW t \in Callers, PutList(t) PROVE MirrorShape'
  <2>1. upload[t] \in [at : {"put list"}, snap : BOOLEAN, list : SUBSET Rels]
    BY <1>9 DEF PutList, Uploads, MirrorShape
  <2>2. remote' \in Buckets
    BY <1>9, <2>1 DEF PutList, Buckets, MirrorShape
  <2>3. upload' \in [Callers -> Uploads]
    BY <1>0, <1>9, <2>1, NextUpload DEF PutList
  <2>4. QED  BY <1>9, <2>2, <2>3 DEF PutList, Local, MirrorShape
<1>10. ASSUME NEW t \in Callers, Checkpoint(t) PROVE MirrorShape'
  <2>1. generation + 1 \in 1..MaxGeneration
    BY <1>10 DEF Checkpoint, MirrorShape
  <2>2. [at |-> "tables", gen |-> generation + 1, left |-> LakeTables] \in Uploads
    BY <2>1 DEF Uploads
  <2>3. upload' \in [Callers -> Uploads]
    BY <1>10, <2>2, NextUpload DEF Checkpoint
  <2>4. QED  BY <1>10, <2>1, <2>3 DEF Checkpoint, MirrorShape
<1>11. ASSUME NEW t \in Callers, PutTable(t) PROVE MirrorShape'
  <2>1. upload[t] \in [at : {"tables"}, gen : 1..MaxGeneration, left : SUBSET LakeTables]
    BY <1>11 DEF PutTable, Uploads, MirrorShape
  <2>2. PICK name \in LakeTables :
          \/ Do(t, NoUpload) /\ UNCHANGED remote
          \/ /\ remote' = [remote EXCEPT !.tables[<<name, upload[t].gen>>] = current[2]]
             /\ Do(t, [upload[t] EXCEPT !.left = @ \ {name}])
    BY <1>11, <2>1 DEF PutTable, Abort
  <2>3. [upload[t] EXCEPT !.left = @ \ {name}] \in Uploads
    BY <2>1 DEF Uploads
  <2>4. upload' \in [Callers -> Uploads]
    BY <1>0, <2>2, <2>3, NextUpload
  <2>5. remote' \in Buckets
    <3>1. remote \in Buckets /\ current[2] \in Nat /\ <<name, upload[t].gen>> \in LakeTables \X (1..MaxGeneration)
      BY <2>1 DEF MirrorShape
    <3>2. [remote.tables EXCEPT ![<<name, upload[t].gen>>] = current[2]] \in [LakeTables \X (1..MaxGeneration) -> Nat]
      BY <3>1 DEF Buckets
    <3>3. QED  BY <2>2, <3>1, <3>2 DEF Buckets
  <2>6. QED  BY <1>11, <2>4, <2>5 DEF PutTable, Local, MirrorShape
<1>12. ASSUME NEW t \in Callers, PutState(t) PROVE MirrorShape'
  <2>1. upload[t] \in [at : {"tables"}, gen : 1..MaxGeneration, left : SUBSET LakeTables]
    BY <1>12 DEF PutState, Uploads, MirrorShape
  <2>2. remote' \in Buckets
    BY <1>12, <2>1 DEF PutState, Buckets, MirrorShape
  <2>3. QED  BY <1>0, <1>12, <2>2, NextUpload DEF PutState, Local, MirrorShape
<1>13. ASSUME NEW t \in Callers, PutFails(t) PROVE MirrorShape'
  BY <1>0, <1>13, NextUpload DEF PutFails, Abort, Local, MirrorShape
<1>14. ASSUME NEW t \in Callers, NEW gone \in SUBSET Rels, NEW next \in {NoUpload, ReadAgain},
              Removing(t, gone, next), buf' = buf \/ buf' = {}
       PROVE  MirrorShape'
  <2>1. [at |-> "deletes", left |-> gone, next |-> next] \in Uploads
    BY DEF Uploads
  <2>2. upload' \in [Callers -> Uploads]
    BY <1>14, <2>1, NextUpload DEF Removing
  <2>3. QED  BY <1>14, <2>2 DEF Removing, MirrorShape
<1>15. ASSUME NEW t \in Callers, retain_partitions(t) \/ clear_lake(t) PROVE MirrorShape'
  <2>1. listed \subseteq Rels
    BY DEF MirrorShape
  <2>2. QED  BY <1>14, <1>15, <2>1 DEF retain_partitions, clear_lake, ReadAgain
<1>16. ASSUME NEW t \in Callers, DeleteFile(t) PROVE MirrorShape'
  <2>1. upload[t] \in [at : {"deletes"}, left : SUBSET Rels, next : {NoUpload, ReadAgain}]
    BY <1>16 DEF DeleteFile, Uploads, MirrorShape
  <2>2. PICK r \in upload[t].left :
          /\ Do(t, IF upload[t].left = {r} THEN upload[t].next ELSE [upload[t] EXCEPT !.left = @ \ {r}])
          /\ remote' = remote \/ remote' = [remote EXCEPT !.files[r] = {}]
    BY <1>16 DEF DeleteFile
  <2>3. upload[t].next \in Uploads /\ [upload[t] EXCEPT !.left = @ \ {r}] \in Uploads
    BY <1>0, <2>1 DEF Uploads
  <2>4. upload' \in [Callers -> Uploads]
    BY <2>2, <2>3, NextUpload
  <2>5. remote' \in Buckets
    BY <2>1, <2>2 DEF Buckets, MirrorShape
  <2>6. QED  BY <1>16, <2>4, <2>5 DEF DeleteFile, Local, MirrorShape
<1>17. QED
  BY <1>1, <1>2, <1>3, <1>4, <1>5, <1>6, <1>7, <1>8, <1>9, <1>10, <1>11, <1>12, <1>13, <1>15, <1>16
  DEF MirrorNext

\* A step that leaves the checkpoints and the tables of the bucket alone.
LEMMA SnapQuiet ==
  ASSUME MirrorShape, SnapInv, UNCHANGED <<current, checkpoints>>,
         remote'.state = remote.state, remote'.tables = remote.tables, current[1] <= generation',
         \A t \in Callers : upload'[t] = upload[t] \/ upload'[t].at # "tables"
  PROVE  SnapInv'
<1>1. \A t \in Callers : TablesAgree(upload[t])'
  BY DEF SnapInv, TablesAgree
<1>2. SnapshotWhole'
  BY DEF SnapInv, SnapshotWhole
<1>3. QED  BY <1>1, <1>2 DEF SnapInv

LEMMA SnapStep == MirrorShape /\ SnapInv /\ [MirrorNext]_mirrorvars => SnapInv'
<1> SUFFICES ASSUME MirrorShape, SnapInv, [MirrorNext]_mirrorvars PROVE SnapInv'
  OBVIOUS
<1> USE LakeShape
<1>a. /\ generation \in Nat /\ checkpoints \in Nat /\ current[1] \in Nat /\ current[2] \in Nat /\ remote.state \in Nat
      /\ current[1] <= generation /\ remote.state <= current[1]
  BY DEF MirrorShape, Buckets, SnapInv
<1>0. /\ remote \in Buckets /\ NoUpload.at = "idle" /\ ReadAgain.at = "read list" /\ current[1] <= generation
      /\ \A snap \in BOOLEAN : After(snap).at # "tables"
  BY <1>a DEF MirrorShape, NoUpload, ReadAgain, After
<1>1. CASE UNCHANGED mirrorvars
  BY <1>0, <1>1, SnapQuiet DEF mirrorvars
<1>2. CASE append_point
  BY <1>0, <1>2, SnapQuiet DEF append_point, World
<1>3. CASE KilledAndReopened
  <2>1. UNCHANGED <<current, checkpoints, remote>> /\ generation' = current[1] /\ \A t \in Callers : upload'[t].at = "idle"
    BY <1>0, <1>3 DEF KilledAndReopened
  <2>2. current[1] <= generation'
    BY <1>a, <2>1
  <2>3. QED  BY <2>1, <2>2, SnapQuiet
<1>4. CASE Replaced
  <2>1. UNCHANGED <<checkpoints, remote>> /\ generation' = remote.state /\ \A t \in Callers : upload'[t].at = "idle"
    BY <1>0, <1>4 DEF Replaced
  <2>2. SnapshotWhole'
    BY <2>1 DEF SnapInv, SnapshotWhole
  <2>3. \A t \in Callers : TablesAgree(upload[t])'
    BY <2>1 DEF TablesAgree
  <2>4. CASE remote.state = 0
    BY <1>4, <2>1, <2>2, <2>3, <2>4 DEF Replaced, NoCheckpoint, SnapInv
  <2>5. CASE remote.state # 0
    <3>1. PICK c \in 1..checkpoints : \A name \in LakeTables : remote.tables[<<name, remote.state>>] = c
      BY <2>5 DEF SnapInv, SnapshotWhole
    <3>2. current' = <<remote.state, c>>
      BY <1>4, <2>5, <3>1 DEF Replaced
    <3>3. current'[1] = remote.state /\ current'[2] = c
      BY <3>2
    <3>4. QED  BY <1>a, <2>1, <2>2, <2>3, <2>5, <3>1, <3>3 DEF SnapInv
  <2>6. QED  BY <2>4, <2>5
<1>5. CASE restore_ts
  BY <1>0, <1>5, SnapQuiet DEF restore_ts
<1>6. ASSUME NEW t \in Callers, NEW next, next.at # "tables", Do(t, next), UNCHANGED <<current, checkpoints>>,
             remote'.state = remote.state, remote'.tables = remote.tables, current[1] <= generation'
      PROVE  SnapInv'
  <2>1. \A s \in Callers : upload'[s] = upload[s] \/ upload'[s].at # "tables"
    BY <1>6 DEF Do, MirrorShape
  <2>2. QED  BY <1>6, <2>1, SnapQuiet
<1>7. ASSUME NEW t \in Callers, NEW snap \in BOOLEAN, FlushFiles(t, snap) PROVE SnapInv'
  <2>1. UNCHANGED <<current, checkpoints, remote>> /\ current[1] <= generation'
    <3>1. generation' \in {generation, generation + 1}
      BY <1>7 DEF FlushFiles, Local
    <3>2. current[1] <= generation'
      BY <1>a, <3>1
    <3>3. QED  BY <1>7, <3>2 DEF FlushFiles, Local
  <2>2. CASE buf = {}
    BY <1>0, <1>6, <1>7, <2>1, <2>2 DEF FlushFiles
  <2>3. CASE buf # {}
    <3>1. PICK stamp : Do(t, [at |-> "files", snap |-> snap, left |-> WrittenBy(stamp)])
      BY <1>7, <2>3 DEF FlushFiles
    <3>2. QED  BY <1>0, <1>6, <2>1, <3>1
  <2>4. QED  BY <2>2, <2>3
<1>8. ASSUME NEW t \in Callers, PutFile(t) PROVE SnapInv'
  <2>1. PICK r \in upload[t].left :
          \/ Do(t, NoUpload) /\ UNCHANGED remote
          \/ remote' = [remote EXCEPT !.files[r] = held[r]] /\ Do(t, NextFile(upload[t], r))
    BY <1>8 DEF PutFile, Abort
  <2>2. upload[t] \in [at : {"files", "read list"}, snap : BOOLEAN, left : SUBSET Rels]
    BY <1>8 DEF PutFile, Uploads, MirrorShape
  <2>3. NextFile(upload[t], r).at # "tables"
    BY <2>2 DEF NextFile
  <2>4. remote'.state = remote.state /\ remote'.tables = remote.tables
    BY <1>0, <2>1 DEF Buckets
  <2>5. UNCHANGED <<current, checkpoints, generation>>
    BY <1>8 DEF PutFile, Local
  <2>6. QED  BY <1>0, <1>6, <2>1, <2>3, <2>4, <2>5
<1>9. ASSUME NEW t \in Callers, ReadList(t) PROVE SnapInv'
  <2>1. UNCHANGED <<current, checkpoints, generation, remote>>
    BY <1>9 DEF ReadList, Local
  <2>2. [at |-> "put list", snap |-> upload[t].snap, list |-> listed].at # "tables"
    OBVIOUS
  <2>3. QED  BY <1>0, <1>6, <1>9, <2>1, <2>2 DEF ReadList
<1>10. ASSUME NEW t \in Callers, PutList(t) PROVE SnapInv'
  <2>1. UNCHANGED <<current, checkpoints, generation>> /\ remote'.state = remote.state /\ remote'.tables = remote.tables
    BY <1>0, <1>10 DEF PutList, Local, Buckets
  <2>2. upload[t] \in [at : {"put list"}, snap : BOOLEAN, list : SUBSET Rels]
    BY <1>10 DEF PutList, Uploads, MirrorShape
  <2>3. QED  BY <1>0, <1>6, <1>10, <2>1, <2>2 DEF PutList
<1>11. ASSUME NEW t \in Callers, Checkpoint(t) PROVE SnapInv'
  <2>1. /\ generation' = generation + 1 /\ checkpoints' = checkpoints + 1 /\ remote' = remote
        /\ current' = <<generation + 1, checkpoints + 1>>
    BY <1>11 DEF Checkpoint
  <2>2. /\ upload'[t] = [at |-> "tables", gen |-> generation + 1, left |-> LakeTables]
        /\ \A s \in Callers \ {t} : upload'[s] = upload[s]
    BY <1>11 DEF Checkpoint, Do, MirrorShape
  <2>3. SnapshotWhole'
    BY <1>a, <2>1 DEF SnapInv, SnapshotWhole
  <2>4. TablesAgree(upload[t])'
    BY <1>a, <2>1, <2>2 DEF TablesAgree
  <2>5. ASSUME NEW s \in Callers \ {t} PROVE TablesAgree(upload[s])'
    <3>1. CASE upload[s].at # "tables"
      BY <2>2, <3>1 DEF TablesAgree
    <3>2. CASE upload[s].at = "tables"
      <4>1. upload[s] \in [at : {"tables"}, gen : 1..MaxGeneration, left : SUBSET LakeTables] /\ TablesAgree(upload[s])
        BY <3>2 DEF Uploads, MirrorShape, SnapInv
      <4>2. upload[s].gen < generation + 1
        BY <1>a, <3>2, <4>1 DEF TablesAgree
      <4>3. QED  BY <1>a, <2>1, <2>2, <3>2, <4>1, <4>2 DEF TablesAgree
    <3>3. QED  BY <3>1, <3>2
  <2>6. remote.state <= generation
    BY <1>a
  <2>7. QED  BY <1>a, <2>1, <2>3, <2>4, <2>5, <2>6 DEF SnapInv
<1>12. ASSUME NEW t \in Callers, PutTable(t) PROVE SnapInv'
  <2>1. upload[t] \in [at : {"tables"}, gen : 1..MaxGeneration, left : SUBSET LakeTables] /\ TablesAgree(upload[t])
    BY <1>12 DEF PutTable, Uploads, MirrorShape, SnapInv
  <2>2. UNCHANGED <<current, checkpoints, generation>> /\ upload[t].at = "tables"
    BY <1>12 DEF PutTable, Local
  <2>3. CASE upload[t].gen # current[1]
    BY <1>0, <1>6, <1>12, <2>2, <2>3 DEF PutTable, Abort
  <2>4. CASE upload[t].gen = current[1]
    <3>1. PICK name \in upload[t].left :
            /\ remote' = [remote EXCEPT !.tables[<<name, upload[t].gen>>] = current[2]]
            /\ Do(t, [upload[t] EXCEPT !.left = @ \ {name}])
      BY <1>12, <2>4 DEF PutTable
    <3>2. /\ remote'.state = remote.state
          /\ \A n \in LakeTables, g \in 1..MaxGeneration :
               remote'.tables[<<n, g>>] = IF n = name /\ g = current[1] THEN current[2] ELSE remote.tables[<<n, g>>]
      <4>1. remote'.state = remote.state /\ remote'.tables = [remote.tables EXCEPT ![<<name, current[1]>>] = current[2]]
        BY <1>0, <2>4, <3>1 DEF Buckets
      <4>2. remote.tables \in [LakeTables \X (1..MaxGeneration) -> Nat]
        BY <1>0 DEF Buckets
      <4>3. QED  BY <4>1, <4>2
    <3>3. /\ upload'[t] = [upload[t] EXCEPT !.left = @ \ {name}]
          /\ \A s \in Callers \ {t} : upload'[s] = upload[s]
      BY <3>1 DEF Do, MirrorShape
    <3>4. current[1] \in 1..MaxGeneration /\ current[2] \in 1..checkpoints /\ remote.state \in 0..MaxGeneration
      <4>1. upload[t].gen \in 1..MaxGeneration
        BY <2>1
      <4>2. current[1] # 0 => current[2] \in 1..checkpoints
        BY DEF SnapInv
      <4>3. remote.state \in 0..MaxGeneration
        BY <1>0 DEF Buckets
      <4>4. QED  BY <2>4, <4>1, <4>2, <4>3
    <3>5. SnapshotWhole'
      <4>1. CASE remote.state = current[1]
        <5>1. \A n \in LakeTables : remote'.tables[<<n, remote'.state>>] = current[2]
          BY <3>2, <3>4, <4>1 DEF SnapInv
        <5>2. QED  BY <2>2, <3>4, <5>1 DEF SnapshotWhole
      <4>2. CASE remote.state # current[1] /\ remote.state # 0
        <5>1. remote.state \in 1..MaxGeneration
          BY <3>4, <4>2
        <5>2. \A n \in LakeTables : remote'.tables[<<n, remote'.state>>] = remote.tables[<<n, remote.state>>]
          BY <3>2, <4>2, <5>1
        <5>3. QED  BY <2>2, <3>2, <5>2 DEF SnapshotWhole, SnapInv
      <4>3. CASE remote.state = 0
        BY <3>2, <4>3 DEF SnapshotWhole
      <4>4. QED  BY <4>1, <4>2, <4>3
    <3>6. remote.state # 0 /\ remote.state = current[1] =>
            \A n \in LakeTables : remote'.tables[<<n, remote.state>>] = current[2]
      BY <3>2, <3>4 DEF SnapInv
    <3>7. ASSUME NEW s \in Callers, upload'[s].at = "tables" PROVE TablesAgree(upload[s])'
      <4>1. /\ upload[s].at = "tables" /\ upload'[s].gen = upload[s].gen
            /\ s # t => upload'[s].left = upload[s].left
            /\ s = t => upload'[s].left = upload[s].left \ {name}
        BY <2>1, <3>3, <3>7
      <4>2. upload[s] \in [at : {"tables"}, gen : 1..MaxGeneration, left : SUBSET LakeTables] /\ TablesAgree(upload[s])
        BY <4>1 DEF Uploads, MirrorShape, SnapInv
      <4>3. PICK c \in 1..checkpoints :
              /\ upload[s].gen = current[1] => c = current[2]
              /\ \A n \in LakeTables \ upload[s].left : remote.tables[<<n, upload[s].gen>>] = c
        BY <4>1, <4>2 DEF TablesAgree
      <4>4. ASSUME NEW n \in LakeTables \ upload'[s].left PROVE remote'.tables[<<n, upload[s].gen>>] = c
        <5>1. CASE n = name /\ upload[s].gen = current[1]
          BY <3>2, <4>2, <4>3, <5>1
        <5>2. CASE ~(n = name /\ upload[s].gen = current[1])
          <6>1. n \notin upload[s].left
            BY <2>4, <4>1, <4>4, <5>2
          <6>2. QED  BY <3>2, <4>2, <4>3, <5>2, <6>1
        <5>3. QED  BY <5>1, <5>2
      <4>5. QED  BY <2>2, <4>1, <4>2, <4>3, <4>4 DEF TablesAgree
    <3>8. \A s \in Callers : TablesAgree(upload[s])'
      BY <3>7 DEF TablesAgree
    <3>9. QED  BY <1>0, <2>2, <3>2, <3>4, <3>5, <3>6, <3>8 DEF SnapInv
  <2>5. QED  BY <2>3, <2>4
<1>13. ASSUME NEW t \in Callers, PutState(t) PROVE SnapInv'
  <2>1. /\ upload[t] \in [at : {"tables"}, gen : 1..MaxGeneration, left : SUBSET LakeTables]
        /\ TablesAgree(upload[t]) /\ upload[t].at = "tables" /\ upload[t].left = {}
    BY <1>13 DEF PutState, TablesPut, Uploads, MirrorShape, SnapInv
  <2>2. /\ UNCHANGED <<current, checkpoints, generation>>
        /\ remote'.state = upload[t].gen /\ remote'.tables = remote.tables
    BY <1>0, <1>13 DEF PutState, Local, Buckets
  <2>3. PICK c \in 1..checkpoints :
          /\ upload[t].gen = current[1] => c = current[2]
          /\ \A n \in LakeTables : remote.tables[<<n, upload[t].gen>>] = c
    BY <2>1 DEF TablesAgree
  <2>4. SnapshotWhole'
    BY <2>2, <2>3 DEF SnapshotWhole
  <2>5. \A s \in Callers : upload'[s] = upload[s] \/ upload'[s].at = "idle"
    BY <1>0, <1>13 DEF PutState, Do, MirrorShape
  <2>6. \A s \in Callers : TablesAgree(upload[s])'
    BY <2>2, <2>5 DEF TablesAgree, SnapInv
  <2>7. upload[t].gen <= current[1]
    BY <2>1 DEF TablesAgree
  <2>8. QED  BY <2>2, <2>3, <2>4, <2>6, <2>7 DEF SnapInv
<1>14. ASSUME NEW t \in Callers, PutFails(t) PROVE SnapInv'
  BY <1>0, <1>6, <1>14 DEF PutFails, Abort, Local
<1>15. ASSUME NEW t \in Callers, NEW gone, NEW next, Removing(t, gone, next) PROVE SnapInv'
  <2>1. Do(t, [at |-> "deletes", left |-> gone, next |-> next]) /\ UNCHANGED <<current, checkpoints, generation, remote>>
    BY <1>15 DEF Removing
  <2>2. QED  BY <1>0, <1>6, <2>1
<1>16. ASSUME NEW t \in Callers, retain_partitions(t) \/ clear_lake(t) PROVE SnapInv'
  BY <1>15, <1>16 DEF retain_partitions, clear_lake
<1>17. ASSUME NEW t \in Callers, DeleteFile(t) PROVE SnapInv'
  <2>1. upload[t] \in [at : {"deletes"}, left : SUBSET Rels, next : {NoUpload, ReadAgain}]
    BY <1>17 DEF DeleteFile, Uploads, MirrorShape
  <2>2. PICK r \in upload[t].left :
          /\ Do(t, IF upload[t].left = {r} THEN upload[t].next ELSE [upload[t] EXCEPT !.left = @ \ {r}])
          /\ remote' = remote \/ remote' = [remote EXCEPT !.files[r] = {}]
    BY <1>17 DEF DeleteFile
  <2>3. upload[t].next.at # "tables" /\ [upload[t] EXCEPT !.left = @ \ {r}].at # "tables"
    BY <1>0, <2>1
  <2>4. remote'.state = remote.state /\ remote'.tables = remote.tables
    BY <1>0, <2>2 DEF Buckets
  <2>5. UNCHANGED <<current, checkpoints, generation>>
    BY <1>17 DEF DeleteFile, Local
  <2>6. QED  BY <1>0, <1>6, <2>2, <2>3, <2>4, <2>5
<1>18. QED
  BY <1>1, <1>2, <1>3, <1>4, <1>5, <1>7, <1>8, <1>9, <1>10, <1>11, <1>12, <1>13, <1>14, <1>16, <1>17
  DEF MirrorNext

(***************************************************************************)
(* A step that takes nothing from the bucket but what is excused, drops no *)
(* upload of a file without an excuse, and names only files that have an   *)
(* explanation.                                                            *)
(***************************************************************************)
LEMMA ListKept ==
  ASSUME MirrorShape, ListInv, excused \subseteq excused',
         \A r \in Rels : remote.files[r] # {} => remote'.files[r] # {} \/ r \in excused',
         \A t \in Callers : upload[t].at = "files" => \A r \in upload[t].left :
           \/ upload'[t].at = "files" /\ r \in upload'[t].left
           \/ r \in excused' \/ remote'.files[r] # {},
         \A r \in listed' \cup remote'.listed : (r \in Rels /\ Explained(r)) \/ Explained(r)',
         \A t \in Callers : \/ upload'[t] = upload[t]
                            \/ upload'[t].at \notin {"put list", "deletes"}
                            \/ upload'[t].at = "put list" /\ upload'[t].list \subseteq listed
                            \/ upload'[t].at = "deletes" /\ upload'[t].left \subseteq excused'
  PROVE  ListInv'
<1>1. ASSUME NEW r \in Rels, Explained(r) PROVE Explained(r)'
  <2>1. CASE remote.files[r] # {} \/ r \in excused
    BY <2>1 DEF Explained
  <2>2. CASE \E t \in Callers : upload[t].at = "files" /\ r \in upload[t].left
    BY <2>2 DEF Explained
  <2>3. QED  BY <1>1, <2>1, <2>2 DEF Explained
<1>2. \A r \in listed' \cup remote'.listed : Explained(r)'
  BY <1>1
<1>3. listed \subseteq Rels /\ \A r \in listed : Explained(r)
  BY DEF MirrorShape, ListInv
<1>4. ASSUME NEW t \in Callers, upload'[t].at = "put list", NEW r \in upload'[t].list PROVE Explained(r)'
  <2>1. CASE upload'[t] = upload[t]
    <3>1. upload[t] \in [at : {"put list"}, snap : BOOLEAN, list : SUBSET Rels]
      BY <1>4, <2>1 DEF MirrorShape, Uploads
    <3>2. QED  BY <1>1, <1>4, <2>1, <3>1 DEF ListInv
  <2>2. CASE upload'[t].list \subseteq listed
    BY <1>1, <1>3, <1>4, <2>2
  <2>3. QED  BY <1>4, <2>1, <2>2
<1>5. ASSUME NEW t \in Callers, upload'[t].at = "deletes" PROVE upload'[t].left \subseteq excused'
  BY <1>5 DEF ListInv
<1>6. QED  BY <1>2, <1>4, <1>5 DEF ListInv

LEMMA ListStep == MirrorShape /\ ListInv /\ [MirrorNext]_mirrorvars => ListInv'
<1> SUFFICES ASSUME MirrorShape, ListInv, [MirrorNext]_mirrorvars PROVE ListInv'
  OBVIOUS
<1>0. /\ remote \in Buckets /\ remote.listed \subseteq Rels /\ listed \subseteq Rels
      /\ \A r \in listed \cup remote.listed : r \in Rels /\ Explained(r)
  BY DEF MirrorShape, Buckets, ListInv
<1>a. NoUpload.at = "idle" /\ ReadAgain.at = "read list" /\ \A snap \in BOOLEAN : After(snap).at \in {"idle", "checkpoint"}
  BY DEF NoUpload, ReadAgain, After
<1>1. CASE UNCHANGED mirrorvars
  BY <1>1 DEF mirrorvars, ListInv, Explained
<1>2. CASE append_point
  BY <1>2 DEF append_point, World, ListInv, Explained
<1>3. ASSUME excused' = excused \cup Lost, upload' = [t \in Callers |-> NoUpload], remote' = remote, listed' \subseteq listed
      PROVE  ListInv'
  <2>1. \A t \in Callers : upload[t].at = "files" => upload[t].left \subseteq excused'
    BY <1>3 DEF Lost
  <2>2. \A t \in Callers : upload'[t].at = "idle"
    BY <1>3, <1>a
  <2>3. QED  BY <1>0, <1>3, <2>1, <2>2, ListKept
<1>4. CASE KilledAndReopened
  BY <1>3, <1>4 DEF KilledAndReopened
<1>5. CASE Replaced
  BY <1>3, <1>5 DEF Replaced
<1>6. CASE restore_ts
  <2>1. listed' = remote.listed /\ UNCHANGED <<remote, upload, excused>>
    BY <1>6 DEF restore_ts
  <2>2. QED  BY <1>0, <2>1, ListKept
<1>7. ASSUME NEW t \in Callers, NEW snap \in BOOLEAN, FlushFiles(t, snap) PROVE ListInv'
  <2>1. upload[t].at = "idle" /\ UNCHANGED <<remote, excused>>
    BY <1>7 DEF FlushFiles, Begin
  <2>2. CASE buf = {}
    <3>1. Do(t, After(snap)) /\ listed' = listed
      BY <1>7, <2>2 DEF FlushFiles, Local
    <3>2. upload'[t].at \in {"idle", "checkpoint"} /\ \A s \in Callers \ {t} : upload'[s] = upload[s]
      BY <1>a, <3>1 DEF Do, MirrorShape
    <3>3. QED  BY <1>0, <2>1, <3>1, <3>2, ListKept
  <2>3. CASE buf # {}
    <3>1. PICK stamp : /\ listed' = listed \cup WrittenBy(stamp)
                       /\ Do(t, [at |-> "files", snap |-> snap, left |-> WrittenBy(stamp)])
      BY <1>7, <2>3 DEF FlushFiles
    <3>2. /\ upload'[t].at = "files" /\ upload'[t].left = WrittenBy(stamp)
          /\ \A s \in Callers \ {t} : upload'[s] = upload[s]
      BY <3>1 DEF Do, MirrorShape
    <3>3. \A r \in WrittenBy(stamp) : Explained(r)'
      BY <3>2 DEF Explained
    <3>4. \A r \in listed' \cup remote'.listed : (r \in Rels /\ Explained(r)) \/ Explained(r)'
      BY <1>0, <2>1, <3>1, <3>3
    <3>5. QED  BY <2>1, <3>2, <3>4, ListKept
  <2>4. QED  BY <2>2, <2>3
<1>8. ASSUME NEW t \in Callers, Abort(t), UNCHANGED <<listed, remote>> PROVE ListInv'
  <2>1. upload'[t].at = "idle" /\ \A s \in Callers \ {t} : upload'[s] = upload[s]
    BY <1>8, <1>a DEF Abort, Do, MirrorShape
  <2>2. excused \subseteq excused' /\ (upload[t].at = "files" => upload[t].left \subseteq excused')
    BY <1>8 DEF Abort
  <2>3. QED  BY <1>0, <1>8, <2>1, <2>2, ListKept
<1>9. ASSUME NEW t \in Callers, PutFile(t) PROVE ListInv'
  <2>1. PICK r \in upload[t].left :
          IF held[r] = {} THEN Abort(t) /\ UNCHANGED remote
          ELSE /\ remote' = [remote EXCEPT !.files[r] = held[r]]
               /\ Do(t, NextFile(upload[t], r)) /\ UNCHANGED excused
    BY <1>9 DEF PutFile
  <2>2. listed' = listed /\ upload[t].at = "files"
    BY <1>9 DEF PutFile, Local
  <2>3. CASE held[r] = {}
    BY <1>8, <2>1, <2>2, <2>3
  <2>4. CASE held[r] # {}
    <3>1. upload[t] \in [at : {"files", "read list"}, snap : BOOLEAN, left : SUBSET Rels]
      BY <2>2 DEF Uploads, MirrorShape
    <3>2. /\ remote'.listed = remote.listed /\ remote'.files[r] # {}
          /\ \A q \in Rels : q # r => remote'.files[q] = remote.files[q]
      <4>1. remote'.listed = remote.listed /\ remote'.files = [remote.files EXCEPT ![r] = held[r]]
        BY <1>0, <2>1, <2>4 DEF Buckets
      <4>2. remote.files \in [Rels -> SUBSET Nat] /\ r \in Rels
        BY <1>0, <3>1 DEF Buckets
      <4>3. QED  BY <2>4, <4>1, <4>2
    <3>3. upload'[t] = NextFile(upload[t], r) /\ \A s \in Callers \ {t} : upload'[s] = upload[s]
      BY <2>1, <2>4 DEF Do, MirrorShape
    <3>4. /\ upload'[t].left = upload[t].left \ {r} /\ upload'[t].at \in {"files", "read list"}
          /\ upload[t].left # {r} => upload'[t].at = "files"
      BY <2>2, <3>1, <3>3 DEF NextFile
    <3>5. \A q \in upload[t].left : q = r \/ (upload'[t].at = "files" /\ q \in upload'[t].left)
      BY <3>4
    <3>6. \A s \in Callers : upload[s].at = "files" => \A q \in upload[s].left :
            (upload'[s].at = "files" /\ q \in upload'[s].left) \/ remote'.files[q] # {}
      BY <3>2, <3>3, <3>5
    <3>7. \A q \in Rels : remote.files[q] # {} => remote'.files[q] # {}
      BY <3>2
    <3>8. excused' = excused
      BY <2>1, <2>4
    <3>9. \A s \in Callers : upload'[s] = upload[s] \/ upload'[s].at \notin {"put list", "deletes"}
      BY <3>3, <3>4
    <3>10. QED  BY <1>0, <2>2, <3>2, <3>6, <3>7, <3>8, <3>9, ListKept
  <2>5. QED  BY <2>3, <2>4
<1>10. ASSUME NEW t \in Callers, ReadList(t) PROVE ListInv'
  <2>1. UNCHANGED <<listed, remote, excused>> /\ upload[t].at = "read list"
    BY <1>10 DEF ReadList, Local, World
  <2>2. /\ upload'[t].at = "put list" /\ upload'[t].list = listed
        /\ \A s \in Callers \ {t} : upload'[s] = upload[s]
    BY <1>10 DEF ReadList, Do, MirrorShape
  <2>3. QED  BY <1>0, <2>1, <2>2, ListKept
<1>11. ASSUME NEW t \in Callers, PutList(t) PROVE ListInv'
  <2>1. upload[t] \in [at : {"put list"}, snap : BOOLEAN, list : SUBSET Rels] /\ upload[t].at = "put list"
    BY <1>11 DEF PutList, Uploads, MirrorShape
  <2>2. remote'.listed = upload[t].list /\ remote'.files = remote.files /\ UNCHANGED <<listed, excused>>
    BY <1>0, <1>11 DEF PutList, Local, World, Buckets
  <2>3. upload'[t].at \in {"idle", "checkpoint"} /\ \A s \in Callers \ {t} : upload'[s] = upload[s]
    BY <1>11, <1>a, <2>1 DEF PutList, Do, MirrorShape
  <2>4. \A r \in listed' \cup remote'.listed : r \in Rels /\ Explained(r)
    BY <1>0, <2>1, <2>2 DEF ListInv
  <2>5. QED  BY <2>1, <2>2, <2>3, <2>4, ListKept
<1>12. ASSUME NEW t \in Callers, NEW next, next.at \in {"idle", "tables"}, Do(t, next), upload[t].at # "files",
              UNCHANGED <<listed, excused>>, remote'.files = remote.files, remote'.listed = remote.listed
       PROVE  ListInv'
  <2>1. upload'[t].at \in {"idle", "tables"} /\ \A s \in Callers \ {t} : upload'[s] = upload[s]
    BY <1>12 DEF Do, MirrorShape
  <2>2. QED  BY <1>0, <1>12, <2>1, ListKept
<1>13. ASSUME NEW t \in Callers, Checkpoint(t) PROVE ListInv'
  <2>1. UNCHANGED <<listed, remote, excused>> /\ upload[t].at = "checkpoint"
    BY <1>13 DEF Checkpoint, World
  <2>2. Do(t, [at |-> "tables", gen |-> generation + 1, left |-> LakeTables])
    BY <1>13 DEF Checkpoint
  <2>3. QED  BY <1>12, <2>1, <2>2
<1>14. ASSUME NEW t \in Callers, PutTable(t) PROVE ListInv'
  <2>1. upload[t] \in [at : {"tables"}, gen : 1..MaxGeneration, left : SUBSET LakeTables]
    BY <1>14 DEF PutTable, Uploads, MirrorShape
  <2>2. listed' = listed /\ upload[t].at = "tables"
    BY <1>14 DEF PutTable, Local
  <2>3. CASE upload[t].gen # current[1]
    BY <1>8, <1>14, <2>2, <2>3 DEF PutTable
  <2>4. CASE upload[t].gen = current[1]
    <3>1. PICK name \in upload[t].left :
            /\ remote' = [remote EXCEPT !.tables[<<name, upload[t].gen>>] = current[2]]
            /\ Do(t, [upload[t] EXCEPT !.left = @ \ {name}]) /\ UNCHANGED excused
      BY <1>14, <2>4 DEF PutTable
    <3>2. remote'.files = remote.files /\ remote'.listed = remote.listed
      BY <1>0, <3>1 DEF Buckets
    <3>3. [upload[t] EXCEPT !.left = @ \ {name}].at = "tables"
      BY <2>1
    <3> DEFINE next == [upload[t] EXCEPT !.left = @ \ {name}]
    <3>4. next.at \in {"idle", "tables"} /\ Do(t, next) /\ upload[t].at # "files" /\ UNCHANGED <<listed, excused>>
      BY <2>2, <3>1, <3>3
    <3> HIDE DEF next
    <3>5. QED  BY <1>12, <3>2, <3>4
  <2>5. QED  BY <2>3, <2>4
<1>15. ASSUME NEW t \in Callers, PutState(t) PROVE ListInv'
  <2>1. UNCHANGED <<listed, excused>> /\ upload[t].at = "tables" /\ Do(t, NoUpload)
    BY <1>15 DEF PutState, Local, World
  <2>2. remote'.files = remote.files /\ remote'.listed = remote.listed
    BY <1>0, <1>15 DEF PutState, Buckets
  <2>3. NoUpload.at \in {"idle", "tables"} /\ upload[t].at # "files"
    BY <1>a, <2>1
  <2>4. QED  BY <1>12, <2>1, <2>2, <2>3
<1>16. ASSUME NEW t \in Callers, PutFails(t) PROVE ListInv'
  BY <1>8, <1>16 DEF PutFails, Local
<1>17. ASSUME NEW t \in Callers, NEW gone, NEW next, Removing(t, gone, next) PROVE ListInv'
  <2>1. /\ upload[t].at = "idle" /\ listed' \subseteq listed /\ excused' = excused \cup gone /\ remote' = remote
        /\ Do(t, [at |-> "deletes", left |-> gone, next |-> next])
    BY <1>17 DEF Removing, Begin
  <2>2. /\ upload'[t].at = "deletes" /\ upload'[t].left = gone
        /\ \A s \in Callers \ {t} : upload'[s] = upload[s]
    BY <2>1 DEF Do, MirrorShape
  <2>3. QED  BY <1>0, <2>1, <2>2, ListKept
<1>18. ASSUME NEW t \in Callers, retain_partitions(t) \/ clear_lake(t) PROVE ListInv'
  BY <1>17, <1>18 DEF retain_partitions, clear_lake
<1>19. ASSUME NEW t \in Callers, DeleteFile(t) PROVE ListInv'
  <2>1. upload[t] \in [at : {"deletes"}, left : SUBSET Rels, next : {NoUpload, ReadAgain}] /\ upload[t].at = "deletes"
    BY <1>19 DEF DeleteFile, Uploads, MirrorShape
  <2>2. PICK r \in upload[t].left :
          /\ Do(t, IF upload[t].left = {r} THEN upload[t].next ELSE [upload[t] EXCEPT !.left = @ \ {r}])
          /\ remote' = remote \/ remote' = [remote EXCEPT !.files[r] = {}]
    BY <1>19 DEF DeleteFile
  <2>3. UNCHANGED <<listed, excused>>
    BY <1>19 DEF DeleteFile, Local
  <2>4. upload[t].left \subseteq excused
    BY <2>1 DEF ListInv
  <2>5. /\ upload'[t].at \in {"idle", "read list"} \/ (upload'[t].at = "deletes" /\ upload'[t].left \subseteq excused')
        /\ \A s \in Callers \ {t} : upload'[s] = upload[s]
    <3>1. /\ upload'[t] = IF upload[t].left = {r} THEN upload[t].next ELSE [upload[t] EXCEPT !.left = @ \ {r}]
          /\ \A s \in Callers \ {t} : upload'[s] = upload[s]
      BY <2>2 DEF Do, MirrorShape
    <3>2. upload[t].next.at \in {"idle", "read list"}
      BY <1>a, <2>1
    <3>3. [upload[t] EXCEPT !.left = @ \ {r}].at = "deletes" /\ [upload[t] EXCEPT !.left = @ \ {r}].left = upload[t].left \ {r}
      BY <2>1
    <3>4. QED  BY <2>3, <2>4, <3>1, <3>2, <3>3
  <2>6. remote'.listed = remote.listed /\ \A q \in Rels : q # r => remote'.files[q] = remote.files[q]
    <3>1. remote'.listed = remote.listed /\ (remote'.files = remote.files \/ remote'.files = [remote.files EXCEPT ![r] = {}])
      BY <1>0, <2>2 DEF Buckets
    <3>2. remote.files \in [Rels -> SUBSET Nat]
      BY <1>0 DEF Buckets
    <3>3. QED  BY <3>1, <3>2
  <2>7. \A q \in Rels : remote.files[q] # {} => remote'.files[q] # {} \/ q \in excused'
    BY <2>3, <2>4, <2>6
  <2>8. \A s \in Callers : upload[s].at = "files" => upload'[s] = upload[s]
    BY <2>1, <2>5
  <2>9. QED  BY <1>0, <2>3, <2>5, <2>6, <2>7, <2>8, ListKept
<1>20. QED
  BY <1>1, <1>2, <1>4, <1>5, <1>6, <1>7, <1>9, <1>10, <1>11, <1>13, <1>14, <1>15, <1>16, <1>18, <1>19
  DEF MirrorNext

\* For any number of callers, points, tables and generations, and however the
\* uploads of storage/parquet.rs overlap, fail or are cut short by a kill or by
\* a new node: the state manifest of the bucket names one whole checkpoint, and
\* a delta file that the bucket lists and lacks has an explanation.
THEOREM MirrorAlwaysSound == MirrorSpec => []MirrorSound
<1>1. SnapInv /\ ListInv => MirrorSound
  BY DEF SnapInv, ListInv, MirrorSound, LossExplained, Explained
<1>2. MirrorShape /\ SnapInv /\ ListInv /\ [MirrorNext]_mirrorvars => (MirrorShape /\ SnapInv /\ ListInv)'
  BY MirrorShapeStep, SnapStep, ListStep
<1>3. QED  BY <1>1, <1>2, MirrorStart, PTL DEF MirrorSpec

-----------------------------------------------------------------------------
(***************************************************************************)
(* Metrics.  The keys of the last answer are the keys remembered for the   *)
(* next one, so a key that leaves is one of those reported; and a gauge    *)
(* that was collected is compared with the rows at hand at that moment.    *)
(***************************************************************************)
Observations == [key : Series, ts : Int, signal : {"raw", "order"}, value : Nat]

MetricsInv ==
  /\ now \in Int /\ obs \in Seq(Observations) /\ DOMAIN scrape = Scrapers
  /\ shown = stale_keys /\ NoneVanishes /\ SeriesFresh

\* A nonempty set of naturals has a least member.
LEMMA LeastOf ==
  ASSUME NEW S \in SUBSET Nat, S # {}
  PROVE  \E x \in S : \A y \in S : x <= y
<1>1. PICK x \in S : \A y \in S : ~ (<<y, x>> \in OpToRel(<, Nat))
  BY NatLessThanWellFounded, WFMin
<1>2. ASSUME NEW y \in S PROVE x <= y
  <2>1. y < x => <<y, x>> \in OpToRel(<, Nat)
    BY DEF OpToRel
  <2>2. x \in Nat /\ y \in Nat /\ ~(y < x)
    BY <1>1, <2>1
  <2>3. QED  BY <2>2
<1>3. QED  BY <1>1, <1>2

LEMMA WindowIsInt == \A w \in Nat : WindowOr(w) \in Int
<1> SUFFICES ASSUME NEW w \in Nat PROVE WindowOr(w) \in Int
  OBVIOUS
<1> DEFINE own == IF StationWindow = 0 THEN w ELSE StationWindow
<1>1. own \in Nat
  BY WindowsAreSeconds
<1> HIDE DEF own
<1>2. \E x \in {1, own} : \A y \in {1, own} : x >= y
  BY <1>1
<1>3. Max({1, own}) \in {1, own}
  BY <1>2 DEF Max
<1>4. QED  BY <1>1, <1>3 DEF WindowOr, own

\* collect_station takes a row that no row of the series is newer than, up to
\* the moment of the scrape, also among those older than the window.
LEMMA NewestIsTaken ==
  ASSUME MetricsInv, NEW k \in Series, Exported(k) # {}
  PROVE  \E i \in DOMAIN obs :
           /\ obs[i].value = collect_station[<<"series", k>>]
           /\ obs[i].key = k /\ obs[i].signal # "order" /\ obs[i].ts <= now
           /\ \A j \in DOMAIN obs : obs[j].key = k /\ obs[j].signal # "order" /\ obs[j].ts <= now => obs[j].ts <= obs[i].ts
<1> DEFINE Newest == {i \in Exported(k) : \A j \in Exported(k) : obs[j].ts <= obs[i].ts}
<1>1. now \in Int /\ DOMAIN obs \subseteq Nat /\ \A i \in DOMAIN obs : obs[i] \in Observations
  BY DEF MetricsInv
<1>2. WindowOr(DefaultWindow) \in Int /\ WindowOr(FallbackWindow) \in Int
  BY WindowIsInt, WindowsAreSeconds
<1>3. \A i \in Exported(k) : i \in DOMAIN obs /\ obs[i].ts \in Int /\ obs[i].ts <= now
  BY <1>1 DEF Exported, InScrape, Observations
<1>4. Newest # {}
  <2> DEFINE ages == {now - obs[i].ts : i \in Exported(k)}
  <2>1. ages \in SUBSET Nat /\ ages # {}
    BY <1>1, <1>3
  <2>2. PICK a \in ages : \A b \in ages : a <= b
    BY <2>1, LeastOf
  <2>3. PICK i \in Exported(k) : a = now - obs[i].ts
    BY <2>2
  <2>4. ASSUME NEW j \in Exported(k) PROVE obs[j].ts <= obs[i].ts
    <3>1. now - obs[i].ts <= now - obs[j].ts
      BY <2>2, <2>3
    <3>2. QED  BY <1>1, <1>3, <3>1
  <2>5. QED  BY <2>3, <2>4
<1>5. Min(Newest) \in Newest
  <2>1. Newest \in SUBSET Nat
    BY <1>1, <1>3
  <2>2. \E x \in Newest : \A y \in Newest : x <= y
    BY <1>4, <2>1, LeastOf
  <2>3. QED  BY <2>2 DEF Min
<1>6. collect_station[<<"series", k>>] = obs[Min(Newest)].value
  BY DEF collect_station
<1> DEFINE i == Min(Newest)
<1>7. i \in Exported(k) /\ \A j \in Exported(k) : obs[j].ts <= obs[i].ts
  BY <1>5
<1> HIDE DEF Newest, i
<1>8. /\ obs[i].key = k /\ obs[i].signal # "order"
      /\ now - WindowOr(DefaultWindow) <= obs[i].ts /\ now - WindowOr(FallbackWindow) <= obs[i].ts
  BY <1>7 DEF Exported, InScrape, Wanted
<1>9. ASSUME NEW j \in DOMAIN obs, obs[j].key = k, obs[j].signal # "order", obs[j].ts <= now
      PROVE  obs[j].ts <= obs[i].ts
  <2>1. obs[j].ts \in Int /\ obs[i].ts \in Int /\ obs[j].signal = "raw"
    BY <1>1, <1>3, <1>7, <1>9 DEF Observations
  <2>2. CASE j \in Exported(k)
    BY <1>7, <2>2
  <2>3. CASE j \notin Exported(k)
    <3>1. ~(now - WindowOr(DefaultWindow) <= obs[j].ts /\ now - WindowOr(FallbackWindow) <= obs[j].ts)
      BY <1>9, <2>1, <2>3 DEF Exported, InScrape, Wanted
    <3>2. QED  BY <1>1, <1>2, <1>8, <2>1, <3>1
  <2>4. QED  BY <2>2, <2>3
<1>10. QED  BY <1>3, <1>6, <1>7, <1>8, <1>9 DEF i

LEMMA MetricsStart == MetricsInit => MetricsInv
  BY DEF MetricsInit, MetricsInv, NoneVanishes, SeriesFresh, NotScraping

LEMMA MetricsStep == MetricsInv /\ [MetricsNext]_mvars => MetricsInv'
<1> SUFFICES ASSUME MetricsInv, [MetricsNext]_mvars PROVE MetricsInv'
  OBVIOUS
<1>1. CASE UNCHANGED mvars
  BY <1>1 DEF mvars, MetricsInv, NoneVanishes, SeriesFresh
<1>2. CASE Observe
  <2>1. PICK k \in Series, sig \in {"raw", "order"}, at \in {now - 1, now} :
          obs' = Append(obs, [key |-> k, ts |-> at, signal |-> sig, value |-> Len(obs) + 1])
    BY <1>2 DEF Observe
  <2>2. [key |-> k, ts |-> at, signal |-> sig, value |-> Len(obs) + 1] \in Observations
    BY DEF MetricsInv, Observations
  <2>3. obs' \in Seq(Observations)
    BY <2>1, <2>2 DEF MetricsInv
  <2>4. QED  BY <1>2, <2>3 DEF Observe, MetricsInv, NoneVanishes, SeriesFresh
<1>3. CASE Reconfigure
  BY <1>3 DEF Reconfigure, MetricsInv, NoneVanishes, SeriesFresh
<1>4. CASE MetricsTick
  BY <1>4 DEF MetricsTick, MetricsInv, NoneVanishes, SeriesFresh
<1>5. ASSUME NEW s \in Scrapers, Collect(s) PROVE MetricsInv'
  <2>1. /\ DOMAIN scrape' = Scrapers /\ \A q \in Scrapers \ {s} : scrape'[q] = scrape[q]
        /\ scrape'[s].now = now /\ scrape'[s].series = Gauges /\ scrape'[s].rows = obs
    BY <1>5 DEF Collect, MetricsInv
  <2>2. ASSUME NEW k \in Series, <<"series", k>> \in DOMAIN Gauges
        PROVE  Exported(k) # {} /\ Gauges[<<"series", k>>] = collect_station[<<"series", k>>]
    <3>1. <<"series", k>> \notin DOMAIN collect_nodes
      BY DEF collect_nodes
    <3>2. <<"series", k>> \in DOMAIN collect_station /\ Gauges[<<"series", k>>] = collect_station[<<"series", k>>]
      BY <2>2, <3>1 DEF Gauges
    <3>3. QED  BY <3>2 DEF collect_station
  <2>3. SeriesFresh'
    <3>1. ASSUME NEW k \in Series, <<"series", k>> \in DOMAIN Gauges
          PROVE  \E i \in {i \in DOMAIN obs : obs[i].key = k /\ obs[i].signal # "order" /\ obs[i].ts <= now} :
                   /\ obs[i].value = Gauges[<<"series", k>>]
                   /\ \A j \in {j \in DOMAIN obs : obs[j].key = k /\ obs[j].signal # "order" /\ obs[j].ts <= now} :
                        obs[j].ts <= obs[i].ts
      BY <2>2, <3>1, NewestIsTaken
    <3>2. NewestShown(scrape'[s])
      BY <2>1, <3>1 DEF NewestShown
    <3>3. QED  BY <2>1, <3>2 DEF MetricsInv, SeriesFresh
  <2>4. QED  BY <1>5, <2>1, <2>3 DEF Collect, MetricsInv, NoneVanishes
<1>6. ASSUME NEW s \in Scrapers, Render(s) PROVE MetricsInv'
  <2>1. \A q \in Scrapers : scrape'[q] = scrape[q] \/ scrape'[q].at = "idle"
    BY <1>6 DEF Render, MetricsInv, NotScraping
  <2>2. SeriesFresh'
    BY <2>1 DEF SeriesFresh, MetricsInv
  <2>3. QED  BY <1>6, <2>2 DEF Render, CurrentKeys, MetricsInv, NoneVanishes
<1>7. QED  BY <1>1, <1>2, <1>3, <1>4, <1>5, <1>6 DEF MetricsNext

\* For any number of series, windows and caps and of scrapes that overlap
\* (prometheus_handler, api/prometheus.rs): a gauge is the newest observation of
\* its series, and no series leaves the answers without being reported stale.
THEOREM ScrapesAlwaysSound == MetricsSpec => []ScrapeSound
<1>1. MetricsInv => ScrapeSound
  BY DEF MetricsInv, ScrapeSound
<1>2. QED  BY <1>1, MetricsStart, MetricsStep, PTL DEF MetricsSpec
=============================================================================
