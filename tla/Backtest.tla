------------------------------- MODULE Backtest -------------------------------
(***************************************************************************)
(* Back tests over the block cache (opsense-qlib portfolio.rs): optimize   *)
(* runs many evaluations at once, every one stepping the kernel candle by  *)
(* candle through a window, and all of them fetch through one cache of     *)
(* blocks filled from the data loader.  Orders and plans are left out (see *)
(* Portfolio): an evaluation is the sequence of candles the kernel takes.  *)
(*                                                                         *)
(* wall is the clock, published the candle times the loader can serve.     *)
(* A fetch is several steps: the cache is read under a read lock, the      *)
(* loader is asked without a lock, the blocks are updated under the write  *)
(* lock.                                                                   *)
(***************************************************************************)
EXTENDS Integers, Sequences, FiniteSets, FiniteSetsExt

CONSTANTS Trials,     \* evaluations that run at once
          Windows,    \* the ranges <<from, to>> they may be asked for
          Candles,    \* candle times the market has
          Wall0, WallEnd,  \* the clock at the start and the bound on it
          BlockSecs, CandleSecs, Review

(* Candles open on the grid of their resolution; of a window that starts off that *)
(* grid every candle is taken only if the reviews keep the same distance from it.  *)
ASSUME BacktestParams ==
    /\ CandleSecs \in Nat \ {0} /\ Review \in Nat \ {0} /\ BlockSecs \in Nat \ {0}
    /\ Wall0 \in Nat /\ WallEnd \in Nat
    /\ Candles \subseteq Nat /\ \A t \in Candles : t % CandleSecs = 0
    /\ Windows \subseteq Nat \X Nat /\ \A w \in Windows : CandleSecs <= w[1] /\ w[1] < w[2]
    /\ Review % CandleSecs = 0 \/ \A w \in Windows : w[1] % CandleSecs = 0

VARIABLES wall, published, blocks, trial

bvars == <<wall, published, blocks, trial>>

MAX_RETRIES == 3
Fallback == 5        \* the 300 seconds of step_secs
Never == 1000000     \* u64::MAX as a covered_first that nothing reaches

block_id(t) == t \div BlockSecs
BlockStart(b) == b * BlockSecs
BlockEnd(b) == (b + 1) * BlockSecs
In(S, a, b) == {t \in S : a <= t /\ t < b}
Least(a, b) == IF a < b THEN a ELSE b
Most(a, b) == IF a > b THEN a ELSE b

(* The candles the loader had when the first evaluation could start. *)
Past == In(Candles, 0, Wall0)

Idle == [pc |-> "idle", from |-> 0, to |-> 0, next_ts |-> 0, review_at |-> 0, candle_ts |-> 0,
         want |-> <<0, 0>>, got |-> {}, now |-> 0, tries |-> 0, seen |-> <<>>]

BInit == wall = Wall0 /\ published = Past /\ blocks = <<>> /\ trial = [p \in Trials |-> Idle]

-----------------------------------------------------------------------------
(* The block cache: a function from block numbers to [candles, first, last]. *)

NewBlock == [candles |-> {}, first |-> Never, last |-> 0]
BlockOf(cache, b) == IF b \in DOMAIN cache THEN cache[b] ELSE NewBlock

(* min_gap of a block, or the fallback when it has fewer than two candles. *)
step_secs(S) ==
    IF Cardinality(S) < 2 THEN Fallback ELSE Min({x - y : x, y \in S} \cap 1..BlockSecs)

(* Every block of the range is there and covers its part of it. *)
try_read_blocks(cache, from, to) ==
    \A b \in block_id(from)..block_id(to - 1) :
      /\ b \in DOMAIN cache
      /\ cache[b].first <= Most(from, BlockStart(b))
      /\ Least(to, BlockEnd(b)) <= cache[b].last

ReadBlocks(cache, from, to) ==
    UNION {In(cache[b].candles, from, to) : b \in block_id(from)..block_id(to - 1)}

EffectiveTo(to, b) == Least(to, BlockEnd(b))

(* Coverage of a block after a fetch of [from, to) on behalf of a request up to original_to. *)
Covered(block, merged, from, to, b, original_to, now) ==
    LET effective_to == EffectiveTo(to, b)
    IN  [candles |-> merged,
         first |-> Least(block.first, Most(from, BlockStart(b))),
         last |-> IF merged = {} \/ now >= original_to THEN Most(block.last, effective_to)
                  ELSE Least(Most(block.last, Max(merged) + step_secs(merged)), effective_to)]

Merged(old, fresh) == old \cup fresh

update_blocks(cache, got, from, to, original_to, now) ==
    LET touched == block_id(from)..block_id(to - 1)
        new(b) == Covered(BlockOf(cache, b), Merged(BlockOf(cache, b).candles, In(got, BlockStart(b), BlockEnd(b))),
                          from, to, b, original_to, now)
    IN  [b \in DOMAIN cache \cup touched |-> IF b \in touched THEN new(b) ELSE cache[b]]

(* A miss asks the loader for whole blocks. *)
FetchBlocks(from, to) == <<BlockStart(block_id(from)), BlockEnd(block_id(to - 1))>>

-----------------------------------------------------------------------------
(* One evaluation. *)

Set(p, r) == trial' = [trial EXCEPT ![p] = r]

(* evaluate: prefetch up to the clock when there is anything to fetch, then the loop. *)
Evaluate(p, w) ==
    /\ trial[p].pc = "idle"
    /\ LET safe_to == Least(w[2], wall)
           start == [Idle EXCEPT !.from = w[1], !.to = w[2], !.next_ts = w[1]]
       IN  Set(p, IF w[1] < safe_to THEN [start EXCEPT !.pc = "prefetch", !.want = <<w[1], safe_to>>]
                                     ELSE [start EXCEPT !.pc = "loop"])
    /\ UNCHANGED <<wall, published, blocks>>

(* The head of the loop: done, or a rebuild when it is due (it may fail) and a fetch. *)
Loop(p) ==
    LET s == trial[p]
        due == s.review_at <= s.next_ts
        review == IF due THEN s.next_ts + Review ELSE s.review_at
    IN  /\ s.pc = "loop"
        /\ IF s.next_ts >= s.to THEN Set(p, [s EXCEPT !.pc = "done"])
           ELSE \/ Set(p, [s EXCEPT !.pc = "fetch", !.review_at = review, !.want = <<s.next_ts, review>>])
                \/ due /\ Set(p, [s EXCEPT !.pc = "failed", !.review_at = review])
        /\ UNCHANGED <<wall, published, blocks>>

NextTsSecond(t) == t + 1

(* The kernel jumps along the calendar, not to the second after the candle. *)
NextTs(t) == t + CandleSecs

(* The kernel takes the first candle it has not seen, or moves its pointer on; an *)
(* evaluation whose pointer stands still ends.                                     *)
Forwarded(s, got) ==
    LET fresh == {t \in got : t > s.candle_ts}
        t == Min(fresh)
    IN  IF fresh = {} THEN [s EXCEPT !.next_ts = @ + CandleSecs]
        ELSE [s EXCEPT !.next_ts = NextTs(t), !.candle_ts = t, !.seen = Append(@, t)]

Consume(s, got) ==
    LET f == Forwarded(s, got)
    IN  IF s.pc \in {"prefetch", "prefetching"} THEN [s EXCEPT !.pc = "loop", !.got = {}]
        ELSE [f EXCEPT !.pc = IF f.next_ts <= s.next_ts THEN "done" ELSE "loop", !.got = {}]

Fetching(s) == s.pc \in {"prefetch", "fetch"}

Hit(p) ==
    LET s == trial[p]
    IN  /\ Fetching(s)
        /\ try_read_blocks(blocks, s.want[1], s.want[2])
        /\ Set(p, Consume(s, ReadBlocks(blocks, s.want[1], s.want[2])))
        /\ UNCHANGED <<wall, published, blocks>>

TriedForgotten(tries) == 1
Tried(tries) == tries + 1

(* fetch_direct: the clock is read once; an empty answer is asked again only when the *)
(* range reaches past that clock, three times at most.                                 *)
Ask(p) ==
    LET s == trial[p]
        r == FetchBlocks(s.want[1], s.want[2])
        now == IF Fetching(s) THEN wall ELSE s.now
        got == In(published, r[1], r[2])
        asking == IF s.pc = "prefetch" THEN "prefetching" ELSE IF s.pc = "fetch" THEN "fetching" ELSE s.pc
    IN  /\ \/ Fetching(s) /\ ~try_read_blocks(blocks, s.want[1], s.want[2])
           \/ s.pc \in {"prefetching", "fetching"} /\ s.got = {} /\ s.tries > 0
        /\ \/ /\ got # {} \/ r[2] <= now
              /\ Set(p, [s EXCEPT !.pc = asking, !.now = now, !.got = got, !.tries = 0])
           \/ /\ got = {} /\ r[2] > now /\ s.tries < MAX_RETRIES
              /\ Set(p, [s EXCEPT !.pc = asking, !.now = now, !.tries = Tried(@)])
           \/ /\ got = {} /\ r[2] > now /\ s.tries = MAX_RETRIES
              /\ Set(p, [s EXCEPT !.pc = "failed"])
        /\ UNCHANGED <<wall, published, blocks>>

Store(p) ==
    LET s == trial[p]
        r == FetchBlocks(s.want[1], s.want[2])
    IN  /\ s.pc \in {"prefetching", "fetching"} /\ s.tries = 0
        /\ blocks' = update_blocks(blocks, s.got, r[1], r[2], s.want[2], s.now)
        /\ Set(p, Consume(s, In(s.got, s.want[1], s.want[2])))
        /\ UNCHANGED <<wall, published>>

(* The loader fails: the evaluation ends with its error. *)
LoaderFails(p) ==
    /\ trial[p].pc \in {"prefetching", "fetching"} \/ Fetching(trial[p])
    /\ Set(p, [trial[p] EXCEPT !.pc = "failed"])
    /\ UNCHANGED <<wall, published, blocks>>

(* Another evaluation with a new session on the same portfolio. *)
Again(p) == trial[p].pc \in {"done", "failed"} /\ Set(p, Idle) /\ UNCHANGED <<wall, published, blocks>>

(* The clock moves, and the loader publishes a candle some time after it closed. *)
TickWall == wall < WallEnd /\ wall' = wall + 1 /\ UNCHANGED <<published, blocks, trial>>
Publish(t) == t \in Candles \ published /\ t + CandleSecs <= wall
              /\ published' = published \cup {t} /\ UNCHANGED <<wall, blocks, trial>>

Work(p) == (\E w \in Windows : Evaluate(p, w)) \/ Loop(p) \/ Hit(p) \/ Ask(p) \/ Store(p)

BNext == \/ \E p \in Trials : Work(p) \/ LoaderFails(p) \/ Again(p)
         \/ TickWall \/ \E t \in Candles : Publish(t)

BSpec == BInit /\ [][BNext]_bvars /\ \A p \in Trials : WF_bvars(Work(p))

-----------------------------------------------------------------------------
(* Properties. *)

IsIncreasing(s) == \A i \in 1..(Len(s) - 1) : s[i] < s[i + 1]
Elems(s) == {s[i] : i \in DOMAIN s}

(* An evaluation that ends well took every candle of its window that the loader had from *)
(* the beginning, in order and once (evaluate, forward and the half-open fetch ranges).  *)
EvaluatesEveryCandle ==
    \A p \in Trials :
      /\ IsIncreasing(trial[p].seen)
      /\ trial[p].pc = "done" => In(Past, trial[p].from, trial[p].to) \subseteq Elems(trial[p].seen)

(* The range a block claims holds every candle the loader had from the beginning, whoever   *)
(* fetched it and in whatever order two fetches stored their answers (update_blocks).        *)
CoverageHolds ==
    \A b \in DOMAIN blocks : In(In(Past, BlockStart(b), BlockEnd(b)), blocks[b].first, blocks[b].last)
                               \subseteq blocks[b].candles

(* What an optimizer may conclude from an evaluation, with the block cache shared by all. *)
EvaluationsSound == EvaluatesEveryCandle /\ CoverageHolds

(* Every evaluation ends. *)
EvaluationEnds == \A p \in Trials : (trial[p].pc = "loop") ~> (trial[p].pc \in {"done", "failed"})

-----------------------------------------------------------------------------
(* An instance: blocks of three candle times; a window in the past over the
   edge of two blocks, one that reaches past the clock, one in a block that has
   no candle yet. *)
SampleWindows == {<<2, 8>>, <<10, 14>>, <<12, 14>>}
SampleCandles == {2, 4, 6, 8, 10}
=============================================================================
