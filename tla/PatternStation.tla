---------------------------- MODULE PatternStation ----------------------------
(***************************************************************************)
(* The pattern station: the Aho-Corasick automaton of                      *)
(* opsense-mlib/src/ahocorasick.rs, the registry of patterns in the        *)
(* storage back ends, PatternStation (opsense-core/src/station.rs) and the *)
(* node that seeds it (opsense-components/src/station/pattern_transform.rs)*)
(*                                                                         *)
(* The node and a clear through the API both hold the station for reading  *)
(* only, so their steps on the automaton and on the storage interleave.    *)
(* A state of the automaton is the word that leads to it; the root is <<>>.*)
(***************************************************************************)
EXTENDS Integers, Sequences, FiniteSets, SequencesExt

CONSTANTS Configs,    \* the sets of patterns a node may be configured with
          Samples,    \* the texts that are looked up
          MaxRuns,    \* bound on the runs of the node
          MaxClears,  \* bound on the clears
          MaxBoots    \* bound on the starts of the process

VARIABLES pstore,     \* the [storage] backend of the station
          table,      \* the registry in the storage: pattern -> id, and a counter
          auto,       \* the automaton: its patterns, the built states, the flag
          task,       \* the task of the node: where it is, what it still sets
          clearing,   \* a clear has emptied the automaton and not yet the storage
          made,       \* the station is registered in the context
          gone,       \* patterns whose last set ended before a finished clear began
          settled,    \* patterns whose set has ended
          doomed,     \* those of them that the running clear will remove
          runs, clears, boots

pvars == <<pstore, table, auto, task, clearing, made, gone, settled, doomed, runs, clears, boots>>

-----------------------------------------------------------------------------
(* The automaton                                                           *)

NewAutomaton == [patterns |-> {}, built |-> {}, optimized |-> FALSE]

add(a, p) ==
  IF p = << >> \/ p \in a.patterns THEN a
  ELSE [a EXCEPT !.patterns = @ \cup {p}, !.optimized = FALSE]

\* optimize builds the states; labels, next and back are read off the words.
optimize(a) == [a EXCEPT !.built = a.patterns, !.optimized = TRUE]

States(ps) == {<< >>} \cup UNION {{SubSeq(p, 1, i) : i \in 1..Len(p)} : p \in ps}

\* Mutant: a state that cannot go on fails to the root at once.
failure_ToRoot(T) ==
  [s \in T |-> IF Len(s) <= 1 \/ <<Last(s)>> \notin T THEN << >> ELSE <<Last(s)>>]

\* The longest proper suffix of a state that is a state, found as optimize
\* does: along the failures of the state before it.
failure(T) ==
  LET RECURSIVE follow(_, _, _)
      follow(f, prev, e) ==
        CASE Append(prev, e) \in T -> Append(prev, e)
          [] Append(prev, e) \notin T /\ prev = << >> -> << >>
          [] OTHER -> follow(f, f[prev], e)
      f[s \in T] == IF Len(s) <= 1 THEN << >> ELSE follow(f, f[Front(s)], Last(s))
  IN  f

\* The state or one on its failure chain ends a pattern.
RECURSIVE ends(_, _, _)
ends(s, ps, f) == s # << >> /\ (s \in ps \/ ends(f[s], ps, f))

\* similar: read the sample; without a next state fail and read it again.
similar(a, sample) ==
  LET T == States(a.built)
      f == failure(T)
      RECURSIVE walk(_, _)
      walk(s, i) ==
        IF i > Len(sample) THEN FALSE
        ELSE LET t == Append(s, sample[i])
             IN  CASE t \in T -> ends(t, a.built, f) \/ walk(t, i + 1)
                   [] t \notin T /\ s = << >> -> walk(<< >>, i + 1)
                   [] OTHER -> walk(f[s], i)
  IN  a.optimized /\ walk(<< >>, 1)

-----------------------------------------------------------------------------
(* The registry of each back end.  Redis and the lake count the ids, which *)
(* a removal does not give back; SQLite takes the largest id plus one.     *)

NewTable == [ids |-> << >>, next |-> 1]
Kept(t) == DOMAIN t.ids
Registered(ids, p, id) == [q \in DOMAIN ids \cup {p} |-> IF q = p THEN id ELSE ids[q]]
MaxId(ids) == CHOOSE m \in {0} \cup {ids[p] : p \in DOMAIN ids} :
                \A p \in DOMAIN ids : ids[p] <= m

sqlite_add(t, p) ==
  IF p = << >> \/ p \in Kept(t) THEN t
  ELSE [t EXCEPT !.ids = Registered(@, p, MaxId(@) + 1)]
redis_add(t, p) ==
  IF p = << >> \/ p \in Kept(t) THEN t
  ELSE [t EXCEPT !.ids = Registered(@, p, t.next), !.next = @ + 1]
lake_add(t, p) ==
  IF p = << >> \/ p \in Kept(t) THEN t
  ELSE [t EXCEPT !.ids = Registered(@, p, t.next), !.next = t.next + 1]

sqlite_clear(t) == [t EXCEPT !.ids = << >>]
redis_clear(t) == NewTable
lake_clear(t) == NewTable

\* get_all: the patterns in the order of their ids.
ById(t) == SetToSortSeq(Kept(t), LAMBDA p, q : t.ids[p] < t.ids[q])
sqlite_get_all(t) == ById(t)
redis_get_all(t) == ById(t)
lake_get_all(t) == ById(t)

storage_add(t, p) ==
  CASE pstore = "memory" -> t [] pstore = "sqlite" -> sqlite_add(t, p)
    [] pstore = "redis" -> redis_add(t, p) [] pstore = "parquet" -> lake_add(t, p)
storage_clear(t) ==
  CASE pstore = "memory" -> t [] pstore = "sqlite" -> sqlite_clear(t)
    [] pstore = "redis" -> redis_clear(t) [] pstore = "parquet" -> lake_clear(t)
get_all(t) ==
  CASE pstore = "memory" -> << >> [] pstore = "sqlite" -> sqlite_get_all(t)
    [] pstore = "redis" -> redis_get_all(t) [] pstore = "parquet" -> lake_get_all(t)

\* from_storage: the stored patterns, in order, and a built automaton.  The
\* memory back end has no storage and nothing is built.
from_storage(t) ==
  IF pstore = "memory" THEN NewAutomaton
  ELSE optimize(FoldLeft(add, NewAutomaton, get_all(t)))

-----------------------------------------------------------------------------
Off == [at |-> "off", todo |-> {}, p |-> << >>]

PInit ==
  /\ pstore \in {"memory", "sqlite", "redis", "parquet"}
  /\ table = NewTable /\ auto = NewAutomaton /\ task = Off /\ clearing = FALSE
  /\ made = FALSE /\ gone = {} /\ settled = {} /\ doomed = {}
  /\ runs = 0 /\ clears = 0 /\ boots = 1

\* The node is started, at the start of the process or by a reload.  The
\* station of an earlier run stays; the one just opened is dropped.
RunNode ==
  /\ task.at \in {"off", "serving"} /\ runs < MaxRuns /\ runs' = runs + 1
  /\ \E c \in Configs : task' = [at |-> "seeding", todo |-> c, p |-> << >>]
  /\ auto' = IF made THEN auto ELSE from_storage(table)
  /\ made' = TRUE
  /\ UNCHANGED <<pstore, table, clearing, gone, settled, doomed, clears, boots>>

\* PatternStation::set, first half: the automaton.
SetPattern ==
  /\ task.at = "seeding"
  /\ \E p \in task.todo :
       /\ auto' = add(auto, p)
       /\ task' = [at |-> "storing", todo |-> task.todo \ {p}, p |-> p]
       /\ gone' = gone \ {p}
       /\ settled' = settled \ {p}
       /\ doomed' = doomed \ {p}
  /\ UNCHANGED <<pstore, table, clearing, made, runs, clears, boots>>

\* Second half: the storage.  Its error is ignored.
StorePattern ==
  /\ task.at = "storing"
  /\ table' = storage_add(table, task.p)
  /\ task' = [task EXCEPT !.at = "seeding", !.p = << >>]
  /\ settled' = settled \cup {task.p}
  /\ UNCHANGED <<pstore, auto, clearing, made, gone, doomed, runs, clears, boots>>

CommitPatterns ==
  /\ task.at = "seeding" /\ task.todo = {}
  /\ auto' = optimize(auto)
  /\ task' = [task EXCEPT !.at = "serving"]
  /\ UNCHANGED <<pstore, table, clearing, made, gone, settled, doomed, runs, clears, boots>>

\* PatternStation::clear, first half.
ClearAutomaton ==
  /\ made /\ ~clearing /\ clears < MaxClears /\ clears' = clears + 1
  /\ auto' = NewAutomaton
  /\ clearing' = TRUE /\ doomed' = settled
  /\ UNCHANGED <<pstore, table, task, made, gone, settled, runs, boots>>

\* Second half.  What was set before the clear began is cleared now.
ClearStorage ==
  /\ clearing
  /\ table' = storage_clear(table)
  /\ clearing' = FALSE
  /\ gone' = gone \cup doomed /\ settled' = settled \ doomed /\ doomed' = {}
  /\ UNCHANGED <<pstore, auto, task, made, runs, clears, boots>>

\* The process ends anywhere and starts again; the storage stays.
RestartProcess ==
  /\ boots < MaxBoots /\ boots' = boots + 1
  /\ auto' = NewAutomaton /\ task' = Off /\ clearing' = FALSE /\ made' = FALSE
  /\ doomed' = {}
  /\ UNCHANGED <<pstore, table, gone, settled, runs, clears>>

PNext == RunNode \/ SetPattern \/ StorePattern \/ CommitPatterns \/ ClearAutomaton \/ ClearStorage \/ RestartProcess
PSpec == PInit /\ [][PNext]_pvars

-----------------------------------------------------------------------------
Substring(p, s) == \E i \in 0..(Len(s) - Len(p)) : SubSeq(s, i + 1, i + Len(p)) = p

\* A lookup of a built automaton (ahocorasick.rs:228) answers yes exactly when
\* the sample contains a registered pattern, overlapping ones and patterns
\* that are suffixes of others included, and whatever was set since it was
\* built has put it out of use until the next commit.
LookupExact ==
  auto.optimized => \A s \in Samples :
    similar(auto, s) <=> \E p \in auto.patterns : Substring(p, s)

\* A pattern whose set had ended when a clear began and that nobody set since
\* is neither looked up nor in the storage once the clear has ended, also
\* after a restart: "dữ liệu cũ không còn đọc được, cũng không còn quay lại sau
\* restart" (context.rs, clear_station).
ClearedPatternsGone == gone \cap (auto.patterns \cup Kept(table)) = {}

(***************************************************************************)
(* What the users of the patterns rely on, after loads, sets and clears.   *)
(***************************************************************************)
PatternsSound == LookupExact /\ ClearedPatternsGone
=============================================================================
