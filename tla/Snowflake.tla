------------------------------ MODULE Snowflake ------------------------------
(***************************************************************************)
(* SnowflakeId::generate (opsense-mlib/src/snowflake_id.rs): a 64-bit word *)
(* with the last time and a sequence number, advanced by compare-and-swap  *)
(* from many threads, while the clock of the machine steps forward and     *)
(* back.                                                                   *)
(***************************************************************************)
EXTENDS Integers, Sequences, FiniteSets

CONSTANTS Callers,     \* the threads that ask for an id
          SeqSize,     \* sequence numbers per time (4096 in the code)
          TsSize,      \* times before the 40-bit field wraps
          MaxClock,    \* bound on the clock
          MaxIds       \* bound on the ids

\* The 40 bits of the time field are enough for the clock.
ASSUME SnowflakeAssumption ==
  SeqSize \in Nat /\ TsSize \in Nat /\ MaxClock \in Nat \ {0} /\ MaxClock < TsSize

VARIABLES wall,        \* the clock, less start_time
          word,        \* the atomic: [ts, seq]
          caller,      \* per thread: what it has loaded and computed
          issued       \* the ids in the order of their swaps

svars == <<wall, word, caller, issued>>

\* now_ms.saturating_sub(start_time): a time before start_time is 0.
current_ts(w) == IF w > 0 THEN w ELSE 0

\* What generate wants to store; seq 0 at the same time means: try again.
NewWord(old, now) ==
  IF now > old.ts THEN [ts |-> now, seq |-> 0]
  ELSE [ts |-> old.ts, seq |-> old.seq + 1]

\* The id: the machine field is the same for every thread.
IdOf(w) == <<w.ts % TsSize, w.seq>>

Waits == [at |-> "start", now |-> 0, old |-> [ts |-> 0, seq |-> 0]]

SInit ==
  /\ wall \in {0, 1} /\ word = [ts |-> 0, seq |-> 0]
  /\ caller = [c \in Callers |-> Waits] /\ issued = << >>

\* The clock is read, then the word is loaded.
ReadClock(c) ==
  /\ caller[c].at = "start" /\ Len(issued) < MaxIds
  /\ caller' = [caller EXCEPT ![c] = [Waits EXCEPT !.at = "timed", !.now = current_ts(wall)]]
  /\ UNCHANGED <<wall, word, issued>>

Load(c) ==
  /\ caller[c].at = "timed"
  /\ caller' = [caller EXCEPT ![c].old = word,
                  ![c].at = IF NewWord(word, caller[c].now).seq = SeqSize THEN "start" ELSE "swap"]
  /\ UNCHANGED <<wall, word, issued>>

\* Mutant: a store instead of a compare-and-swap.
Swap_Stores(c) ==
  /\ caller[c].at = "swap" /\ Len(issued) < MaxIds
  /\ word' = NewWord(caller[c].old, caller[c].now)
  /\ issued' = Append(issued, IdOf(NewWord(caller[c].old, caller[c].now)))
  /\ caller' = [caller EXCEPT ![c] = Waits]
  /\ UNCHANGED wall

\* compare_exchange_weak: it may also fail for no reason.
Swap(c) ==
  /\ caller[c].at = "swap" /\ Len(issued) < MaxIds
  /\ LET new == NewWord(caller[c].old, caller[c].now)
     IN  \/ /\ word = caller[c].old
            /\ word' = new /\ issued' = Append(issued, IdOf(new))
         \/ UNCHANGED <<word, issued>>
  /\ caller' = [caller EXCEPT ![c] = Waits]
  /\ UNCHANGED wall

ClockSteps ==
  /\ \E w \in {wall - 1, wall + 1} : w \in (0 - 1)..MaxClock /\ wall' = w
  /\ UNCHANGED <<word, caller, issued>>

SNext == ClockSteps \/ \E c \in Callers : ReadClock(c) \/ Load(c) \/ Swap(c)
SSpec == SInit /\ [][SNext]_svars

-----------------------------------------------------------------------------
Before(i, j) == i[1] < j[1] \/ (i[1] = j[1] /\ i[2] < j[2])

\* No two calls of generate (snowflake_id.rs:31) return the same id, and ids
\* grow in the order they are given, whatever threads race and however the
\* clock steps, as long as the time field has not wrapped.
IdsGrow == \A i, j \in DOMAIN issued : i < j => Before(issued[i], issued[j])
=============================================================================
