---------------------------- MODULE TradingProofs ----------------------------
(***************************************************************************)
(* Proofs about the trading kernel for every value of the constants: what  *)
(* an optimizer may conclude from its back tests, whatever evaluations run *)
(* at once over the block cache, and what becomes of the orders and of the *)
(* session of the live node, which rebuilds both from its own records in   *)
(* every call.  Each has an invariant, and one lemma per action that keeps *)
(* it.                                                                     *)
(***************************************************************************)
EXTENDS LiveOrders, Backtest, FiniteSetTheorems, SequenceTheorems, WellFoundedInduction, TLAPS

\* A set of naturals has a least element.
LEMMA LeastOf ==
  ASSUME NEW S \in SUBSET Nat, S # {}
  PROVE  \E x \in S : \A y \in S : x <= y
<1>1. PICK x \in S : \A y \in S : ~ (<<y, x>> \in OpToRel(<, Nat))
  BY NatLessThanWellFounded, WFMin
<1>2. ASSUME NEW y \in S PROVE x <= y
  <2>1. y < x => <<y, x>> \in OpToRel(<, Nat)
    BY DEF OpToRel
  <2>2. x \in Nat /\ y \in Nat /\ ~(y < x)
    BY <1>1, <2>1
  <2>3. QED  BY <2>2
<1>3. QED  BY <1>1, <1>2
-----------------------------------------------------------------------------
(***************************************************************************)
(* Backtest.  Answers of the loader are merged into the cache in whole     *)
(* blocks, so a block that is there holds all the candles the loader had   *)
(* at the start, in whatever order fetches store; and the pointer of an    *)
(* evaluation passes none of them, because they lie on the candle grid.    *)
(***************************************************************************)
OnGrid(t) == t % CandleSecs = 0

Pcs == {"idle", "prefetch", "prefetching", "loop", "fetch", "fetching", "done", "failed"}
Evaluations == [pc : Pcs, from : Nat, to : Nat, next_ts : Nat, review_at : Nat, candle_ts : Nat, want : Nat \X Nat,
                got : SUBSET Candles, now : Nat, tries : Nat, seen : Seq(Nat)]

\* Where the pointer stands, or how far the next review is from it.
Aligned(s) ==
  \/ OnGrid(s.next_ts)
  \/ OnGrid(Review) /\ (s.review_at > s.next_ts => OnGrid(s.review_at - s.next_ts))

\* What an evaluation has taken: everything before its pointer.
TakenInv(s) ==
  /\ IsIncreasing(s.seen) /\ \A i \in DOMAIN s.seen : s.seen[i] <= s.candle_ts
  /\ s.pc # "idle" => /\ s.candle_ts < s.next_ts /\ s.from <= s.next_ts /\ Aligned(s)
                      /\ In(Past, s.from, s.next_ts) \subseteq Elems(s.seen)

EvaluationInv(s) ==
  /\ s \in Evaluations /\ TakenInv(s)
  /\ s.pc = "done" => s.to <= s.next_ts
  /\ s.pc \in {"fetch", "fetching"} => s.want = <<s.next_ts, s.review_at>>
  /\ s.pc = "loop" \/ Fetching(s) => s.tries = 0
  /\ s.pc \in {"prefetch", "prefetching", "fetch", "fetching"} => s.want[1] < s.want[2]
  /\ s.pc \in {"prefetching", "fetching"} /\ s.tries = 0 =>
       LET r == FetchBlocks(s.want[1], s.want[2]) IN In(Past, r[1], r[2]) \subseteq s.got

WholeBlocks(cache) ==
  \A b \in DOMAIN cache : cache[b].candles \subseteq Candles
                          /\ In(Past, BlockStart(b), BlockEnd(b)) \subseteq cache[b].candles

BacktestInv ==
  /\ wall \in Nat /\ Past \subseteq published /\ published \subseteq Candles
  /\ WholeBlocks(blocks)
  /\ DOMAIN trial = Trials /\ \A p \in Trials : EvaluationInv(trial[p])

\* The block of a time holds it, and blocks are in the order of time.
LEMMA BlockHolds ==
  ASSUME NEW t \in Nat
  PROVE  block_id(t) \in Int /\ BlockStart(block_id(t)) <= t /\ t < BlockEnd(block_id(t))
  BY BacktestParams DEF block_id, BlockStart, BlockEnd

LEMMA BlocksInOrder ==
  ASSUME NEW t \in Nat, NEW u \in Nat, t <= u
  PROVE  block_id(t) <= block_id(u)
  BY BacktestParams DEF block_id

LEMMA InsideFetch ==
  ASSUME NEW from \in Nat, NEW to \in Nat, from < to,
         NEW b \in block_id(from)..block_id(to - 1)
  PROVE  /\ FetchBlocks(from, to)[1] \in Int /\ FetchBlocks(from, to)[2] \in Int
         /\ FetchBlocks(from, to)[1] <= from /\ to <= FetchBlocks(from, to)[2]
         /\ b \in Int /\ FetchBlocks(from, to)[1] <= BlockStart(b) /\ BlockEnd(b) <= FetchBlocks(from, to)[2]
<1>1. to - 1 \in Nat /\ block_id(from) \in Int /\ block_id(to - 1) \in Int /\ BlockSecs \in Nat \ {0}
  BY BlockHolds, BacktestParams
<1>2. BlockStart(block_id(from)) <= from /\ to - 1 < BlockEnd(block_id(to - 1))
  BY <1>1, BlockHolds
<1>3. \A i, j \in Int : i <= j => i * BlockSecs <= j * BlockSecs /\ (i + 1) * BlockSecs <= (j + 1) * BlockSecs
  BY <1>1
<1>4. b \in Int /\ block_id(from) <= b /\ b <= block_id(to - 1)
  BY <1>1
<1>5. /\ BlockStart(block_id(from)) \in Int /\ BlockEnd(block_id(to - 1)) \in Int
      /\ BlockStart(block_id(from)) <= BlockStart(b) /\ BlockEnd(b) <= BlockEnd(block_id(to - 1))
  BY <1>1, <1>3, <1>4 DEF BlockStart, BlockEnd
<1>6. QED  BY <1>1, <1>2, <1>4, <1>5 DEF FetchBlocks

\* Two times on the grid are a candle apart.
LEMMA GridSteps ==
  ASSUME NEW a \in Nat, OnGrid(a)
  PROVE  /\ OnGrid(a + CandleSecs)
         /\ \A b \in Nat : OnGrid(b) /\ a < b => a + CandleSecs <= b
         /\ \A b \in Nat : OnGrid(b) => OnGrid(a + b)
         /\ \A b \in Nat : OnGrid(b) /\ b <= a => OnGrid(a - b)
<1>1. CandleSecs \in Nat \ {0}
  BY BacktestParams
<1>2. \A t \in Nat : OnGrid(t) => t \div CandleSecs \in Nat /\ t = CandleSecs * (t \div CandleSecs)
  BY <1>1 DEF OnGrid
<1>3. \A i \in Nat : OnGrid(CandleSecs * i)
  BY <1>1 DEF OnGrid
<1>4. PICK i \in Nat : a = CandleSecs * i
  BY <1>2
<1>5. OnGrid(a + CandleSecs)
  <2>1. a + CandleSecs = CandleSecs * (i + 1)
    BY <1>1, <1>4
  <2>2. QED  BY <1>3, <2>1
<1>6. ASSUME NEW b \in Nat, OnGrid(b)
      PROVE (a < b => a + CandleSecs <= b) /\ OnGrid(a + b) /\ (b <= a => OnGrid(a - b))
  <2>1. PICK j \in Nat : b = CandleSecs * j
    BY <1>2, <1>6
  <2>2. a < b => a + CandleSecs <= b
    <3>1. a < b => i < j
      BY <1>1, <1>4, <2>1
    <3>2. i < j => CandleSecs * i + CandleSecs <= CandleSecs * j
      BY <1>1
    <3>3. QED  BY <1>4, <2>1, <3>1, <3>2
  <2>3. OnGrid(a + b)
    <3>1. a + b = CandleSecs * (i + j)
      BY <1>1, <1>4, <2>1
    <3>2. QED  BY <1>3, <3>1
  <2>4. b <= a => OnGrid(a - b)
    <3>1. a - b = CandleSecs * (i - j) /\ (b <= a => i - j \in Nat)
      BY <1>1, <1>4, <2>1
    <3>2. QED  BY <1>3, <3>1
  <2>5. QED  BY <2>2, <2>3, <2>4
<1>7. QED  BY <1>5, <1>6

LEMMA LeastTime ==
  ASSUME NEW S \in SUBSET Nat, S # {}
  PROVE  Min(S) \in S /\ \A t \in S : Min(S) <= t
  BY LeastOf DEF Min

LEMMA OneMoreSeen ==
  ASSUME NEW s \in Seq(Nat), NEW t \in Nat, IsIncreasing(s), \A i \in DOMAIN s : s[i] < t
  PROVE  /\ Append(s, t) \in Seq(Nat) /\ IsIncreasing(Append(s, t))
         /\ Elems(Append(s, t)) = Elems(s) \cup {t}
         /\ \A i \in DOMAIN Append(s, t) : Append(s, t)[i] <= t
<1>1. /\ Append(s, t) \in Seq(Nat) /\ Len(Append(s, t)) = Len(s) + 1 /\ Len(s) \in Nat
      /\ DOMAIN Append(s, t) = 1..(Len(s) + 1) /\ DOMAIN s = 1..Len(s)
      /\ Append(s, t)[Len(s) + 1] = t /\ \A i \in 1..Len(s) : Append(s, t)[i] = s[i] /\ s[i] \in Nat
  OBVIOUS
<1>2. \A i \in DOMAIN Append(s, t) : i \in 1..Len(s) \/ i = Len(s) + 1
  BY <1>1
<1>3. IsIncreasing(Append(s, t))
  <2> SUFFICES ASSUME NEW i \in 1..(Len(Append(s, t)) - 1) PROVE Append(s, t)[i] < Append(s, t)[i + 1]
    BY DEF IsIncreasing
  <2>1. i \in 1..Len(s)
    BY <1>1
  <2>2. CASE i = Len(s)
    BY <1>1, <2>1, <2>2
  <2>3. CASE i # Len(s)
    <3>1. i \in 1..(Len(s) - 1) /\ i + 1 \in 1..Len(s)
      <4>1. PICK n \in Nat : n = Len(s)
        BY <1>1
      <4>2. i \in 1..n /\ i # n
        BY <2>1, <2>3, <4>1
      <4>3. i \in 1..(n - 1) /\ i + 1 \in 1..n
        BY <4>2
      <4>4. QED  BY <4>1, <4>3
    <3>2. s[i] < s[i + 1]
      BY <3>1 DEF IsIncreasing
    <3>3. QED  BY <1>1, <2>1, <3>1, <3>2
  <2>4. QED  BY <2>2, <2>3
<1>4. Elems(Append(s, t)) = Elems(s) \cup {t}
  BY <1>1, <1>2 DEF Elems
<1>5. \A i \in DOMAIN Append(s, t) : Append(s, t)[i] <= t
  BY <1>1, <1>2
<1>6. QED  BY <1>1, <1>3, <1>4, <1>5

\* A fetch asks the loader for the whole blocks its range touches.
LEMMA WholeFetch ==
  ASSUME NEW from \in Nat, NEW to \in Nat, from < to,
         NEW b \in block_id(FetchBlocks(from, to)[1])..block_id(FetchBlocks(from, to)[2] - 1)
  PROVE  b \in Int /\ FetchBlocks(from, to)[1] <= BlockStart(b) /\ BlockEnd(b) <= FetchBlocks(from, to)[2]
<1>1. BlockSecs \in Nat \ {0}
  BY BacktestParams
<1> DEFINE i == block_id(from)
           j == block_id(to - 1)
<1>2. i \in Nat /\ j \in Nat
  BY <1>1 DEF block_id
<1>3. \A k \in Nat : block_id(k * BlockSecs) \in Nat /\ block_id((k + 1) * BlockSecs - 1) \in Nat
  <2> TAKE k \in Nat
  <2>1. k * BlockSecs \in Nat /\ (k + 1) * BlockSecs - 1 \in Nat
    BY <1>1
  <2>2. QED  BY <1>1, <2>1 DEF block_id
<1>4. \A m, n \in Int : m < n => (m + 1) * BlockSecs <= n * BlockSecs
  BY <1>1
<1>5. \A k \in Nat : block_id(k * BlockSecs) >= k
  <2> TAKE k \in Nat
  <2> DEFINE q == block_id(k * BlockSecs)
  <2>1. k * BlockSecs \in Nat /\ q \in Nat
    BY <1>1, <1>3
  <2>2. k * BlockSecs < (q + 1) * BlockSecs
    BY <2>1, BlockHolds DEF BlockEnd
  <2>3. q < k => (q + 1) * BlockSecs <= k * BlockSecs
    BY <1>4, <2>1
  <2>4. (q + 1) * BlockSecs \in Int
    BY <1>1, <2>1
  <2> HIDE DEF q
  <2>5. q >= k
    BY <2>1, <2>2, <2>3, <2>4
  <2>6. QED  BY <2>5 DEF q
<1>6. \A k \in Nat : block_id((k + 1) * BlockSecs - 1) <= k
  <2> TAKE k \in Nat
  <2> DEFINE q == block_id((k + 1) * BlockSecs - 1)
  <2>1. (k + 1) * BlockSecs - 1 \in Nat /\ q \in Nat
    BY <1>1, <1>3
  <2>2. q * BlockSecs <= (k + 1) * BlockSecs - 1
    BY <2>1, BlockHolds DEF BlockStart
  <2>3. k < q => (k + 1) * BlockSecs <= q * BlockSecs
    BY <1>4, <2>1
  <2>4. (k + 1) * BlockSecs \in Int /\ q * BlockSecs \in Int
    BY <1>1, <2>1
  <2> HIDE DEF q
  <2>5. q <= k
    BY <2>1, <2>2, <2>3, <2>4
  <2>6. QED  BY <2>5 DEF q
<1>7. FetchBlocks(from, to)[1] = i * BlockSecs /\ FetchBlocks(from, to)[2] = (j + 1) * BlockSecs
  BY DEF FetchBlocks, BlockStart, BlockEnd
<1>8. block_id(i * BlockSecs) \in Nat /\ block_id((j + 1) * BlockSecs - 1) \in Nat
  BY <1>2, <1>3
<1> HIDE DEF i, j
<1>9. b \in Int /\ i <= b /\ b <= j
  <2>1. i <= block_id(i * BlockSecs) /\ block_id((j + 1) * BlockSecs - 1) <= j
    BY <1>2, <1>5, <1>6
  <2>2. b \in block_id(i * BlockSecs)..block_id((j + 1) * BlockSecs - 1)
    BY <1>7
  <2> DEFINE x == block_id(i * BlockSecs)
             y == block_id((j + 1) * BlockSecs - 1)
  <2> HIDE DEF x, y
  <2>3. x \in Nat /\ y \in Nat /\ i <= x /\ y <= j /\ b \in x..y
    BY <1>8, <2>1, <2>2 DEF x, y
  <2>4. QED  BY <1>2, <2>3
<1>10. \A m, n \in Int : m <= n => m * BlockSecs <= n * BlockSecs /\ (m + 1) * BlockSecs <= (n + 1) * BlockSecs
  BY <1>1
<1>11. QED  BY <1>2, <1>7, <1>9, <1>10 DEF BlockStart, BlockEnd

\* The candles of the market are times on the grid.
LEMMA CandlesOnGrid ==
  /\ Candles \subseteq Nat /\ Past \subseteq Candles /\ CandleSecs \in Nat \ {0} /\ Review \in Nat \ {0}
  /\ \A t \in Candles : OnGrid(t)
  /\ OnGrid(0) /\ OnGrid(CandleSecs)
<1>1. OnGrid(0)
  BY BacktestParams DEF OnGrid
<1>2. OnGrid(0 + CandleSecs)
  BY <1>1, GridSteps
<1>3. OnGrid(CandleSecs)
  BY <1>2, BacktestParams
<1>4. QED  BY <1>1, <1>3, BacktestParams DEF OnGrid, Past, In

\* An answer that holds no candle: nothing lies before the moved pointer either.
LEMMA NothingPassed ==
  ASSUME NEW s \in Evaluations, Aligned(s), s.next_ts < s.review_at,
         NEW t \in Candles, s.next_ts <= t, t < s.next_ts + CandleSecs
  PROVE  t < s.review_at
<1>1. s.next_ts \in Nat /\ s.review_at \in Nat /\ t \in Nat /\ OnGrid(t) /\ CandleSecs \in Nat
  BY CandlesOnGrid DEF Evaluations
<1>2. CASE OnGrid(s.next_ts)
  <2>1. s.next_ts < t => s.next_ts + CandleSecs <= t
    BY <1>1, <1>2, GridSteps
  <2>2. t = s.next_ts
    BY <1>1, <2>1
  <2>3. QED  BY <2>2
<1>3. CASE OnGrid(s.review_at - s.next_ts)
  <2>1. s.review_at - s.next_ts \in Nat /\ 0 < s.review_at - s.next_ts
    BY <1>1
  <2>2. 0 + CandleSecs <= s.review_at - s.next_ts
    BY <1>3, <2>1, CandlesOnGrid, GridSteps
  <2>3. QED  BY <1>1, <2>2
<1>4. QED  BY <1>1, <1>2, <1>3 DEF Aligned

\* The evaluation with its pointer moved to x, after candle c.
Advanced(s, x, c, q) == [s EXCEPT !.next_ts = x, !.candle_ts = c, !.seen = q, !.pc = "loop", !.got = {}]

IsAdvanced(n, s, x, c, q) ==
  /\ n \in Evaluations /\ n.pc = "loop" /\ n.next_ts = x /\ n.candle_ts = c /\ n.seen = q
  /\ n.from = s.from /\ n.review_at = s.review_at /\ n.tries = s.tries

LEMMA AdvancedFields ==
  ASSUME NEW s \in Evaluations, NEW x \in Nat, NEW c \in Nat, NEW q \in Seq(Nat)
  PROVE  IsAdvanced(Advanced(s, x, c, q), s, x, c, q)
<1> DEFINE a == [s EXCEPT !.next_ts = x, !.candle_ts = c]
           b == [a EXCEPT !.seen = q, !.pc = "loop"]
           n == [b EXCEPT !.got = {}]
<1>1. /\ a \in Evaluations /\ a.next_ts = x /\ a.candle_ts = c
      /\ a.from = s.from /\ a.review_at = s.review_at /\ a.tries = s.tries
  BY DEF Evaluations
<1> HIDE DEF a
<1>2. /\ b \in Evaluations /\ b.next_ts = x /\ b.candle_ts = c /\ b.seen = q /\ b.pc = "loop"
      /\ b.from = s.from /\ b.review_at = s.review_at /\ b.tries = s.tries
  BY <1>1 DEF Evaluations, Pcs
<1> HIDE DEF b
<1>3. /\ n \in Evaluations /\ n.pc = "loop" /\ n.next_ts = x /\ n.candle_ts = c /\ n.seen = q
      /\ n.from = s.from /\ n.review_at = s.review_at /\ n.tries = s.tries
  BY <1>2 DEF Evaluations
<1>4. n = Advanced(s, x, c, q)
  BY DEF n, b, a, Advanced
<1> HIDE DEF n
<1>5. QED  BY <1>3, <1>4 DEF IsAdvanced

\* The kernel takes the first candle at or after its pointer, or moves the pointer a candle on.
LEMMA TakesNext ==
  ASSUME NEW s, EvaluationInv(s), s.pc \in {"fetch", "fetching"}, s.tries = 0,
         NEW got \in SUBSET Candles, \A t \in got : s.next_ts <= t /\ t < s.review_at,
         In(Past, s.next_ts, s.review_at) \subseteq got
  PROVE  EvaluationInv(Consume(s, got))
<1>1. /\ s \in Evaluations /\ s.next_ts \in Nat /\ s.review_at \in Nat /\ s.candle_ts \in Nat /\ s.seen \in Seq(Nat)
      /\ s.from \in Nat /\ s.next_ts < s.review_at /\ s.candle_ts < s.next_ts /\ s.from <= s.next_ts /\ Aligned(s)
      /\ In(Past, s.from, s.next_ts) \subseteq Elems(s.seen)
      /\ IsIncreasing(s.seen) /\ \A i \in DOMAIN s.seen : s.seen[i] <= s.candle_ts
  BY DEF EvaluationInv, Evaluations, TakenInv
<1>2. CandleSecs \in Nat \ {0} /\ Candles \subseteq Nat /\ Past \subseteq Candles
  BY CandlesOnGrid
<1>3. {t \in got : t > s.candle_ts} = got
  <2>1. \A t \in got : t \in Nat /\ s.next_ts <= t
    BY <1>2
  <2>2. \A t \in got : t > s.candle_ts
    BY <1>1, <2>1
  <2>3. QED  BY <2>2
<1> DEFINE f == Forwarded(s, got)
           moved == s.next_ts + CandleSecs
<1>4. CASE got = {}
  <2>1. f = [s EXCEPT !.next_ts = moved]
    BY <1>3, <1>4 DEF Forwarded
  <2>2. f.next_ts = moved /\ ~(f.next_ts <= s.next_ts)
    BY <1>1, <1>2, <2>1 DEF Evaluations
  <2> DEFINE n == Advanced(s, moved, s.candle_ts, s.seen)
  <2>3. Consume(s, got) = n
    BY <1>1, <2>1, <2>2 DEF Consume, Evaluations, Advanced
  <2>4. /\ n \in Evaluations /\ n.pc = "loop" /\ n.next_ts = moved /\ n.review_at = s.review_at /\ n.from = s.from
        /\ n.seen = s.seen /\ n.candle_ts = s.candle_ts /\ n.tries = 0
    <3>1. moved \in Nat
      BY <1>1, <1>2
    <3>2. s \in Evaluations /\ s.candle_ts \in Nat /\ s.seen \in Seq(Nat)
      BY <1>1
    <3> HIDE DEF moved
    <3>3. IsAdvanced(n, s, moved, s.candle_ts, s.seen)
      BY ONLY <3>1, <3>2, AdvancedFields
    <3>4. QED  BY ONLY <3>3, s.tries = 0 DEF IsAdvanced
  <2>5. In(Past, s.from, moved) \subseteq Elems(s.seen)
    <3> SUFFICES ASSUME NEW t \in Past, s.from <= t, t < moved PROVE t \in Elems(s.seen)
      BY DEF In
    <3>1. CASE t < s.next_ts
      BY <1>1, <3>1 DEF In
    <3>2. CASE s.next_ts <= t
      <4>1. t < s.review_at
        BY <1>1, <1>2, <3>2, NothingPassed
      <4>2. t \in got
        BY <3>2, <4>1 DEF In
      <4>3. QED  BY <1>4, <4>2
    <3>3. QED  BY <1>1, <1>2, <3>1, <3>2
  <2>6. Aligned(n)
    <3>1. CASE OnGrid(s.next_ts)
      <4>1. OnGrid(moved)
        BY <1>1, <3>1, GridSteps
      <4>2. QED  BY <2>4, <4>1 DEF Aligned
    <3>2. CASE OnGrid(Review) /\ OnGrid(s.review_at - s.next_ts)
      <4>1. moved < s.review_at => OnGrid((s.review_at - s.next_ts) - CandleSecs)
        <5>1. s.review_at - s.next_ts \in Nat
          BY <1>1
        <5>2. moved < s.review_at => CandleSecs <= s.review_at - s.next_ts
          BY <1>1, <1>2
        <5>3. QED  BY <1>2, <3>2, <5>1, <5>2, CandlesOnGrid, GridSteps
      <4>2. (s.review_at - s.next_ts) - CandleSecs = s.review_at - moved
        BY <1>1, <1>2
      <4>3. QED  BY <1>1, <1>2, <2>4, <3>2, <4>1, <4>2 DEF Aligned
    <3>3. QED  BY <1>1, <3>1, <3>2 DEF Aligned
  <2>7. TakenInv(n)
    <3>1. n.candle_ts < n.next_ts /\ n.from <= n.next_ts
      BY <1>1, <1>2, <2>4
    <3>2. QED  BY <1>1, <2>4, <2>5, <2>6, <3>1 DEF TakenInv
  <2>8. EvaluationInv(n)
    BY <2>4, <2>7 DEF EvaluationInv, Fetching
  <2>9. QED  BY <2>3, <2>8
<1>5. CASE got # {}
  <2> DEFINE t == Min(got)
             next == t + CandleSecs
             n == Advanced(s, next, t, Append(s.seen, t))
  <2>1. t \in got /\ t \in Nat /\ \A u \in got : t <= u
    BY <1>2, <1>5, LeastTime
  <2>2. OnGrid(t) /\ s.next_ts <= t /\ t < s.review_at
    BY <2>1, CandlesOnGrid
  <2>3. f = [s EXCEPT !.next_ts = next, !.candle_ts = t, !.seen = Append(s.seen, t)]
    BY <1>3, <1>5 DEF Forwarded, NextTs
  <2> HIDE DEF t
  <2>4. f.next_ts = next /\ ~(f.next_ts <= s.next_ts)
    BY <1>1, <1>2, <2>1, <2>2, <2>3 DEF Evaluations
  <2>5. Consume(s, got) = n
    BY <1>1, <2>3, <2>4 DEF Consume, Evaluations, Advanced
  <2>6. /\ Append(s.seen, t) \in Seq(Nat) /\ IsIncreasing(Append(s.seen, t)) /\ Elems(Append(s.seen, t)) = Elems(s.seen) \cup {t}
        /\ \A i \in DOMAIN Append(s.seen, t) : Append(s.seen, t)[i] <= t
    <3>1. \A i \in DOMAIN s.seen : s.seen[i] < t
      <4> TAKE i \in DOMAIN s.seen
      <4>1. s.seen[i] \in Nat /\ s.seen[i] <= s.candle_ts
        BY <1>1
      <4>2. QED  BY <1>1, <2>1, <2>2, <4>1
    <3>2. QED  BY <1>1, <2>1, <3>1, OneMoreSeen
  <2>7. /\ n \in Evaluations /\ n.pc = "loop" /\ n.next_ts = next /\ n.from = s.from
        /\ n.seen = Append(s.seen, t) /\ n.candle_ts = t /\ n.tries = 0
    <3>1. next \in Nat
      BY <1>2, <2>1
    <3> HIDE DEF next
    <3>2. s \in Evaluations /\ t \in Nat /\ Append(s.seen, t) \in Seq(Nat)
      BY <1>1, <2>1, <2>6
    <3>3. IsAdvanced(n, s, next, t, Append(s.seen, t))
      BY ONLY <3>1, <3>2, AdvancedFields
    <3>4. QED  BY ONLY <3>3, s.tries = 0 DEF IsAdvanced
  <2>8. In(Past, s.from, next) \subseteq Elems(s.seen) \cup {t}
    <3> SUFFICES ASSUME NEW u \in Past, s.from <= u, u < next PROVE u \in Elems(s.seen) \/ u = t
      BY DEF In
    <3>1. u \in Nat /\ OnGrid(u)
      BY CandlesOnGrid
    <3>2. ~(t < u)
      <4>1. t < u => next <= u
        BY <2>1, <2>2, <3>1, GridSteps
      <4>2. QED  BY <1>2, <2>1, <3>1, <4>1
    <3>3. CASE u < s.next_ts
      BY <1>1, <3>3 DEF In
    <3>4. CASE s.next_ts <= u
      <4>1. u < s.review_at
        BY <1>1, <2>1, <2>2, <3>1, <3>2
      <4>2. u \in got
        BY <3>4, <4>1 DEF In
      <4>3. QED  BY <2>1, <3>1, <3>2, <4>2
    <3>5. QED  BY <1>1, <3>1, <3>3, <3>4
  <2>9. Aligned(n)
    <3>1. OnGrid(next)
      BY <2>1, <2>2, GridSteps
    <3>2. QED  BY <2>7, <3>1 DEF Aligned
  <2>10. TakenInv(n)
    <3>1. n.candle_ts < n.next_ts /\ n.from <= n.next_ts
      BY <1>1, <1>2, <2>1, <2>2, <2>7
    <3>2. QED  BY <2>6, <2>7, <2>8, <2>9, <3>1 DEF TakenInv
  <2>11. EvaluationInv(n)
    BY <2>7, <2>10 DEF EvaluationInv, Fetching
  <2>12. QED  BY <2>5, <2>11
<1>6. QED  BY <1>4, <1>5

\* The answer to a prefetch is thrown away; that of a fetch is taken from.
LEMMA Consumes ==
  ASSUME NEW s, EvaluationInv(s), s.pc \in {"prefetch", "prefetching", "fetch", "fetching"}, s.tries = 0,
         NEW got \in SUBSET Candles, \A t \in got : s.want[1] <= t /\ t < s.want[2],
         In(Past, s.want[1], s.want[2]) \subseteq got
  PROVE  EvaluationInv(Consume(s, got))
<1>1. CASE s.pc \in {"prefetch", "prefetching"}
  <2> DEFINE n == [s EXCEPT !.pc = "loop", !.got = {}]
  <2>1. Consume(s, got) = n
    BY <1>1 DEF Consume
  <2>2. s \in Evaluations /\ TakenInv(s)
    BY DEF EvaluationInv
  <2>3. /\ n \in Evaluations /\ n.pc = "loop" /\ n.tries = 0 /\ n.next_ts = s.next_ts /\ n.from = s.from
        /\ n.review_at = s.review_at /\ n.seen = s.seen /\ n.candle_ts = s.candle_ts
    BY <2>2 DEF Evaluations, Pcs
  <2>4. TakenInv(n)
    BY <1>1, <2>2, <2>3 DEF TakenInv, Aligned
  <2>5. EvaluationInv(n)
    BY <2>3, <2>4 DEF EvaluationInv, Fetching
  <2>6. QED  BY <2>1, <2>5
<1>2. CASE s.pc \in {"fetch", "fetching"}
  <2>1. s.want[1] = s.next_ts /\ s.want[2] = s.review_at
    BY <1>2 DEF EvaluationInv
  <2>2. QED  BY <1>2, <2>1, TakesNext
<1>3. QED  BY <1>1, <1>2

\* update_blocks merges an answer for whole blocks into each of them.
LEMMA StoreKeepsWhole ==
  ASSUME NEW cache, WholeBlocks(cache), NEW from \in Nat, NEW to \in Nat, from < to,
         NEW got \in SUBSET Candles, NEW original_to, NEW at,
         In(Past, FetchBlocks(from, to)[1], FetchBlocks(from, to)[2]) \subseteq got
  PROVE  WholeBlocks(update_blocks(cache, got, FetchBlocks(from, to)[1], FetchBlocks(from, to)[2], original_to, at))
<1> DEFINE lo == FetchBlocks(from, to)[1]
           hi == FetchBlocks(from, to)[2]
           touched == block_id(lo)..block_id(hi - 1)
           stored == update_blocks(cache, got, lo, hi, original_to, at)
           fresh(b) == In(got, BlockStart(b), BlockEnd(b))
           merged(b) == Merged(BlockOf(cache, b).candles, fresh(b))
<1>1. /\ DOMAIN stored = DOMAIN cache \cup touched
      /\ \A b \in touched : stored[b].candles = merged(b)
      /\ \A b \in DOMAIN cache \ touched : stored[b] = cache[b]
  <2> DEFINE new(b) == Covered(BlockOf(cache, b), merged(b), lo, hi, b, original_to, at)
  <2>1. stored = [b \in DOMAIN cache \cup touched |-> IF b \in touched THEN new(b) ELSE cache[b]]
    BY DEF update_blocks
  <2>2. \A b : new(b).candles = merged(b)
    BY DEF Covered
  <2> HIDE DEF stored, touched, new, merged
  <2>3. QED  BY <2>1, <2>2
<1>2. \A b : BlockOf(cache, b).candles \subseteq Candles
  BY DEF BlockOf, NewBlock, WholeBlocks
<1>3. ASSUME NEW b \in touched
      PROVE  merged(b) \subseteq Candles /\ In(Past, BlockStart(b), BlockEnd(b)) \subseteq merged(b)
  <2>1. b \in Int /\ lo <= BlockStart(b) /\ BlockEnd(b) <= hi
    BY WholeFetch
  <2>2. BlockStart(b) \in Int /\ BlockEnd(b) \in Int /\ lo \in Int /\ hi \in Int
    <3>1. BlockSecs \in Nat \ {0}
      BY BacktestParams
    <3>2. block_id(from) \in Int /\ block_id(to - 1) \in Int
      BY <3>1 DEF block_id
    <3>3. QED  BY <2>1, <3>1, <3>2 DEF BlockStart, BlockEnd, FetchBlocks
  <2>3. In(Past, BlockStart(b), BlockEnd(b)) \subseteq got
    <3> HIDE DEF lo, hi
    <3> SUFFICES ASSUME NEW t \in Past, BlockStart(b) <= t, t < BlockEnd(b) PROVE t \in got
      BY DEF In
    <3>1. t \in Nat
      BY CandlesOnGrid
    <3>2. lo <= t /\ t < hi
      BY <2>1, <2>2, <3>1
    <3>3. QED  BY <3>2 DEF In, lo, hi
  <2>4. In(Past, BlockStart(b), BlockEnd(b)) \subseteq fresh(b)
    BY <2>3 DEF In
  <2>5. fresh(b) \subseteq Candles
    BY DEF In
  <2>6. QED  BY <1>2, <2>4, <2>5 DEF Merged
<1> HIDE DEF stored, touched, merged
<1>4. ASSUME NEW b \in DOMAIN stored
      PROVE  stored[b].candles \subseteq Candles /\ In(Past, BlockStart(b), BlockEnd(b)) \subseteq stored[b].candles
  <2>1. CASE b \in touched
    BY <1>1, <1>3, <2>1
  <2>2. CASE b \notin touched
    <3>1. b \in DOMAIN cache /\ stored[b] = cache[b]
      BY <1>1, <1>4, <2>2
    <3>2. QED  BY <3>1 DEF WholeBlocks
  <2>3. QED  BY <2>1, <2>2
<1>5. WholeBlocks(stored)
  BY <1>4 DEF WholeBlocks
<1>6. QED  BY <1>5 DEF stored

\* A hit finds every old candle of its range in the blocks.
LEMMA ReadsWhole ==
  ASSUME NEW cache, WholeBlocks(cache), NEW from \in Nat, NEW to \in Nat, from < to, try_read_blocks(cache, from, to)
  PROVE  /\ ReadBlocks(cache, from, to) \subseteq Candles /\ In(Past, from, to) \subseteq ReadBlocks(cache, from, to)
         /\ \A t \in ReadBlocks(cache, from, to) : from <= t /\ t < to
<1>1. \A b \in block_id(from)..block_id(to - 1) : b \in DOMAIN cache
  BY DEF try_read_blocks
<1>2. ReadBlocks(cache, from, to) \subseteq Candles
  BY <1>1 DEF ReadBlocks, WholeBlocks, In
<1>3. \A t \in ReadBlocks(cache, from, to) : from <= t /\ t < to
  BY DEF ReadBlocks, In
<1>4. ASSUME NEW t \in Past, from <= t, t < to PROVE t \in ReadBlocks(cache, from, to)
  <2>1. t \in Nat /\ to - 1 \in Nat /\ t <= to - 1
    BY <1>4, CandlesOnGrid
  <2> DEFINE b == block_id(t)
  <2>2. b \in Int /\ BlockStart(b) <= t /\ t < BlockEnd(b)
    BY <2>1, BlockHolds
  <2>3. block_id(from) <= b /\ b <= block_id(to - 1) /\ block_id(from) \in Int /\ block_id(to - 1) \in Int
    BY <1>4, <2>1, BlocksInOrder, BlockHolds
  <2> HIDE DEF b
  <2>4. b \in block_id(from)..block_id(to - 1)
    BY <2>2, <2>3
  <2>5. t \in In(Past, BlockStart(b), BlockEnd(b))
    BY <2>2 DEF In
  <2>6. t \in cache[b].candles
    BY <1>1, <2>4, <2>5 DEF WholeBlocks
  <2>7. QED  BY <1>4, <2>4, <2>6 DEF ReadBlocks, In
<1>5. QED  BY <1>2, <1>3, <1>4 DEF In

LEMMA BacktestStart == BInit => BacktestInv
<1> SUFFICES ASSUME BInit PROVE BacktestInv
  OBVIOUS
<1>1. wall \in Nat /\ published = Past /\ Past \subseteq Candles
  BY BacktestParams, CandlesOnGrid DEF BInit
<1>2. WholeBlocks(blocks)
  BY DEF BInit, WholeBlocks
<1>3. Idle \in Evaluations /\ Idle.pc = "idle" /\ Idle.seen = <<>>
  BY DEF Idle, Evaluations, Pcs
<1>4. EvaluationInv(Idle)
  BY <1>3 DEF EvaluationInv, TakenInv, Fetching, IsIncreasing
<1>5. QED  BY <1>1, <1>2, <1>4 DEF BInit, BacktestInv

\* A step of one evaluation that leaves the clock, the loader and the cache as they are.
LEMMA OneEvaluation ==
  ASSUME BacktestInv, NEW p \in Trials, NEW r, EvaluationInv(r), Set(p, r), UNCHANGED <<wall, published>>,
         WholeBlocks(blocks')
  PROVE  BacktestInv'
<1>1. DOMAIN trial' = Trials /\ \A q \in Trials : trial'[q] = IF q = p THEN r ELSE trial[q]
  BY DEF Set, BacktestInv
<1>2. \A q \in Trials : EvaluationInv(trial'[q])
  BY <1>1 DEF BacktestInv
<1>3. QED  BY <1>1, <1>2 DEF BacktestInv, WholeBlocks

LEMMA EvaluateKeeps ==
  ASSUME BacktestInv, NEW p \in Trials, NEW w \in Windows, Evaluate(p, w)
  PROVE  BacktestInv'
<1>1. w = <<w[1], w[2]>> /\ w[1] \in Nat /\ w[2] \in Nat /\ CandleSecs <= w[1] /\ w[1] < w[2] /\ CandleSecs \in Nat \ {0}
  BY BacktestParams
<1>2. Review % CandleSecs = 0 \/ w[1] % CandleSecs = 0
  BY BacktestParams
<1>3. wall \in Nat
  BY DEF BacktestInv
<1> DEFINE safe_to == Least(w[2], wall)
           start == [Idle EXCEPT !.from = w[1], !.to = w[2], !.next_ts = w[1]]
           ahead == [start EXCEPT !.pc = "prefetch", !.want = <<w[1], safe_to>>]
           looping == [start EXCEPT !.pc = "loop"]
<1>4. safe_to \in Nat
  BY <1>1, <1>3 DEF Least
<1>5. /\ start \in Evaluations /\ start.from = w[1] /\ start.next_ts = w[1] /\ start.review_at = 0 /\ start.candle_ts = 0
      /\ start.seen = <<>> /\ start.tries = 0
  <2>1. /\ Idle \in Evaluations /\ Idle.review_at = 0 /\ Idle.candle_ts = 0 /\ Idle.tries = 0 /\ Idle.seen = <<>>
    BY DEF Idle, Evaluations, Pcs
  <2>2. w[1] \in Nat /\ w[2] \in Nat
    BY <1>1
  <2>3. QED  BY <2>1, <2>2 DEF Evaluations
<1> HIDE DEF start, safe_to
<1>6. \A r : /\ r.from = w[1] /\ r.next_ts = w[1] /\ r.review_at = 0 /\ r.candle_ts = 0 /\ r.seen = <<>>
             => TakenInv(r)
  <2>1. In(Past, w[1], w[1]) = {}
    BY <1>1, CandlesOnGrid DEF In
  <2>2. QED  BY <1>1, <1>2, <2>1 DEF TakenInv, IsIncreasing, Aligned, OnGrid
<1>7. w[1] < safe_to => EvaluationInv(ahead)
  <2>1. /\ ahead \in Evaluations /\ ahead.pc = "prefetch" /\ ahead.want = <<w[1], safe_to>> /\ ahead.tries = 0
        /\ ahead.from = w[1] /\ ahead.next_ts = w[1] /\ ahead.review_at = 0 /\ ahead.candle_ts = 0 /\ ahead.seen = <<>>
    BY <1>1, <1>4, <1>5 DEF Evaluations, Pcs
  <2>2. TakenInv(ahead)
    BY <1>6, <2>1
  <2> HIDE DEF ahead
  <2>3. QED  BY <2>1, <2>2 DEF EvaluationInv, Fetching
<1>8. EvaluationInv(looping)
  <2>1. /\ looping \in Evaluations /\ looping.pc = "loop" /\ looping.tries = 0
        /\ looping.from = w[1] /\ looping.next_ts = w[1] /\ looping.review_at = 0 /\ looping.candle_ts = 0 /\ looping.seen = <<>>
    BY <1>5 DEF Evaluations, Pcs
  <2>2. TakenInv(looping)
    BY <1>6, <2>1
  <2> HIDE DEF looping
  <2>3. QED  BY <2>1, <2>2 DEF EvaluationInv, Fetching
<1>9. Set(p, IF w[1] < safe_to THEN ahead ELSE looping) /\ UNCHANGED <<wall, published, blocks>>
  BY DEF Evaluate, start, safe_to
<1>10. EvaluationInv(IF w[1] < safe_to THEN ahead ELSE looping)
  BY <1>7, <1>8
<1>11. WholeBlocks(blocks')
  BY <1>9 DEF BacktestInv, WholeBlocks
<1>12. QED  BY <1>9, <1>10, <1>11, OneEvaluation

LEMMA LoopKeeps ==
  ASSUME BacktestInv, NEW p \in Trials, Loop(p)
  PROVE  BacktestInv'
<1> DEFINE s == trial[p]
           due == s.review_at <= s.next_ts
           review == IF due THEN s.next_ts + Review ELSE s.review_at
           done == [s EXCEPT !.pc = "done"]
           fetch == [s EXCEPT !.pc = "fetch", !.review_at = review, !.want = <<s.next_ts, review>>]
           failed == [s EXCEPT !.pc = "failed", !.review_at = review]
<1>1. EvaluationInv(s) /\ s.pc = "loop" /\ WholeBlocks(blocks)
  BY DEF Loop, BacktestInv
<1>2. /\ UNCHANGED <<wall, published, blocks>>
      /\ \/ s.next_ts >= s.to /\ Set(p, done)
         \/ Set(p, fetch)
         \/ Set(p, failed)
  BY DEF Loop
<1> HIDE DEF s
<1>3. /\ s \in Evaluations /\ TakenInv(s) /\ s.tries = 0 /\ s.next_ts \in Nat /\ s.review_at \in Nat /\ s.to \in Nat
  BY <1>1 DEF EvaluationInv, Evaluations
<1>4. review \in Nat /\ s.next_ts < review /\ Review \in Nat
  BY <1>3, CandlesOnGrid
<1>5. WholeBlocks(blocks')
  BY <1>1, <1>2 DEF WholeBlocks
<1>6. ASSUME NEW r, r.seen = s.seen, r.candle_ts = s.candle_ts, r.from = s.from, r.next_ts = s.next_ts,
             r.review_at = s.review_at \/ r.review_at = review
      PROVE  TakenInv(r)
  <2>1. OnGrid(Review) /\ ~OnGrid(s.next_ts) => (r.review_at > r.next_ts => OnGrid(r.review_at - r.next_ts))
    <3>1. due => review - s.next_ts = Review
      BY <1>3, <1>4
    <3>2. ~due => review = s.review_at
      OBVIOUS
    <3>3. r.review_at > r.next_ts => r.review_at = review
      BY <1>3, <1>6, <3>2
    <3>4. ~due /\ OnGrid(Review) /\ ~OnGrid(s.next_ts) => OnGrid(s.review_at - s.next_ts)
      BY <1>1, <1>3 DEF TakenInv, Aligned
    <3>5. QED  BY <1>6, <3>1, <3>2, <3>3, <3>4
  <2>2. Aligned(r)
    BY <1>1, <1>3, <1>6, <2>1 DEF TakenInv, Aligned
  <2>3. QED  BY <1>1, <1>3, <1>6, <2>2 DEF TakenInv
<1> HIDE DEF review
<1>7. CASE s.next_ts >= s.to /\ Set(p, done)
  <2>1. /\ done \in Evaluations /\ done.pc = "done" /\ done.seen = s.seen /\ done.candle_ts = s.candle_ts
        /\ done.from = s.from /\ done.next_ts = s.next_ts /\ done.review_at = s.review_at /\ done.to = s.to
    BY <1>3 DEF Evaluations, Pcs
  <2>2. TakenInv(done)
    BY <1>6, <2>1
  <2>3. done.to <= done.next_ts
    BY <1>3, <1>7, <2>1
  <2> HIDE DEF done
  <2>4. EvaluationInv(done)
    BY <2>1, <2>2, <2>3 DEF EvaluationInv, Fetching
  <2>5. QED  BY <1>2, <1>5, <1>7, <2>4, OneEvaluation
<1>8. CASE Set(p, fetch)
  <2>1. /\ fetch \in Evaluations /\ fetch.pc = "fetch" /\ fetch.seen = s.seen /\ fetch.candle_ts = s.candle_ts
        /\ fetch.from = s.from /\ fetch.next_ts = s.next_ts /\ fetch.review_at = review /\ fetch.tries = 0
        /\ fetch.want = <<s.next_ts, review>>
    BY <1>3, <1>4 DEF Evaluations, Pcs
  <2>2. TakenInv(fetch)
    BY <1>6, <2>1
  <2> HIDE DEF fetch
  <2>3. EvaluationInv(fetch)
    BY <1>4, <2>1, <2>2 DEF EvaluationInv, Fetching
  <2>4. QED  BY <1>2, <1>5, <1>8, <2>3, OneEvaluation
<1>9. CASE Set(p, failed)
  <2>1. /\ failed \in Evaluations /\ failed.pc = "failed" /\ failed.seen = s.seen /\ failed.candle_ts = s.candle_ts
        /\ failed.from = s.from /\ failed.next_ts = s.next_ts /\ failed.review_at = review
    BY <1>3, <1>4 DEF Evaluations, Pcs
  <2>2. TakenInv(failed)
    BY <1>6, <2>1
  <2> HIDE DEF failed
  <2>3. EvaluationInv(failed)
    BY <2>1, <2>2 DEF EvaluationInv, Fetching
  <2>4. QED  BY <1>2, <1>5, <1>9, <2>3, OneEvaluation
<1>10. QED  BY <1>2, <1>7, <1>8, <1>9

LEMMA HitKeeps ==
  ASSUME BacktestInv, NEW p \in Trials, Hit(p)
  PROVE  BacktestInv'
<1> DEFINE s == trial[p]
           got == ReadBlocks(blocks, s.want[1], s.want[2])
<1>1. /\ EvaluationInv(s) /\ WholeBlocks(blocks) /\ Fetching(s) /\ try_read_blocks(blocks, s.want[1], s.want[2])
      /\ Set(p, Consume(s, got)) /\ UNCHANGED <<wall, published, blocks>>
  BY DEF Hit, BacktestInv
<1> HIDE DEF s
<1>2. s.want[1] \in Nat /\ s.want[2] \in Nat /\ s.want[1] < s.want[2] /\ s.tries = 0 /\ s.pc \in {"prefetch", "fetch"}
  BY <1>1 DEF EvaluationInv, Evaluations, Fetching
<1>3. /\ got \subseteq Candles /\ In(Past, s.want[1], s.want[2]) \subseteq got
      /\ \A t \in got : s.want[1] <= t /\ t < s.want[2]
  BY <1>1, <1>2, ReadsWhole
<1> HIDE DEF got
<1>4. EvaluationInv(Consume(s, got))
  BY <1>1, <1>2, <1>3, Consumes
<1>5. WholeBlocks(blocks')
  BY <1>1 DEF WholeBlocks
<1>6. QED  BY <1>1, <1>4, <1>5, OneEvaluation

LEMMA AskKeeps ==
  ASSUME BacktestInv, NEW p \in Trials, Ask(p)
  PROVE  BacktestInv'
<1> DEFINE s == trial[p]
           r == FetchBlocks(s.want[1], s.want[2])
           at == IF Fetching(s) THEN wall ELSE s.now
           got == In(published, r[1], r[2])
           asking == IF s.pc = "prefetch" THEN "prefetching" ELSE IF s.pc = "fetch" THEN "fetching" ELSE s.pc
           answered == [s EXCEPT !.pc = asking, !.now = at, !.got = got, !.tries = 0]
           again == [s EXCEPT !.pc = asking, !.now = at, !.tries = Tried(s.tries)]
           failed == [s EXCEPT !.pc = "failed"]
<1>1. EvaluationInv(s) /\ WholeBlocks(blocks) /\ s.pc \in {"prefetch", "prefetching", "fetch", "fetching"}
      /\ UNCHANGED <<wall, published, blocks>>
      /\ (Set(p, answered) \/ Set(p, again) \/ Set(p, failed))
  BY DEF Ask, BacktestInv, Fetching
<1>2. wall \in Nat /\ Past \subseteq published /\ published \subseteq Candles
  BY DEF BacktestInv
<1>3. got \subseteq Candles /\ In(Past, r[1], r[2]) \subseteq got
  BY <1>2 DEF In
<1> HIDE DEF s
<1>4. /\ s \in Evaluations /\ TakenInv(s) /\ s.tries \in Nat /\ s.want \in Nat \X Nat /\ s.want[1] < s.want[2]
      /\ s.pc \in {"fetch", "fetching"} => s.want = <<s.next_ts, s.review_at>>
  BY <1>1 DEF EvaluationInv, Evaluations
<1>5. at \in Nat /\ asking \in {"prefetching", "fetching"} /\ (asking = "fetching" => s.pc \in {"fetch", "fetching"})
  BY <1>1, <1>2, <1>4 DEF Evaluations
<1>6. \A n : /\ n.seen = s.seen /\ n.candle_ts = s.candle_ts /\ n.from = s.from /\ n.next_ts = s.next_ts
             /\ n.review_at = s.review_at
             => TakenInv(n)
  BY <1>1, <1>4 DEF TakenInv, Aligned
<1>7. WholeBlocks(blocks')
  BY <1>1 DEF WholeBlocks
<1> HIDE DEF at, asking, got
<1>8. CASE Set(p, answered)
  <2>1. /\ answered \in Evaluations /\ answered.pc = asking /\ answered.got = got /\ answered.tries = 0
        /\ answered.want = s.want /\ answered.seen = s.seen /\ answered.candle_ts = s.candle_ts /\ answered.from = s.from
        /\ answered.next_ts = s.next_ts /\ answered.review_at = s.review_at
    BY <1>3, <1>4, <1>5 DEF Evaluations, Pcs
  <2>2. TakenInv(answered)
    BY <1>6, <2>1
  <2> HIDE DEF answered
  <2>3. EvaluationInv(answered)
    BY <1>3, <1>4, <1>5, <2>1, <2>2 DEF EvaluationInv, Fetching
  <2>4. QED  BY <1>1, <1>7, <1>8, <2>3, OneEvaluation
<1>9. CASE Set(p, again)
  <2>1. Tried(s.tries) \in Nat /\ Tried(s.tries) # 0
    BY <1>4 DEF Tried
  <2>2. /\ again \in Evaluations /\ again.pc = asking /\ again.tries = Tried(s.tries)
        /\ again.want = s.want /\ again.seen = s.seen /\ again.candle_ts = s.candle_ts /\ again.from = s.from
        /\ again.next_ts = s.next_ts /\ again.review_at = s.review_at
    BY <1>4, <1>5, <2>1 DEF Evaluations, Pcs
  <2>3. TakenInv(again)
    BY <1>6, <2>2
  <2> HIDE DEF again
  <2>4. EvaluationInv(again)
    BY <1>4, <1>5, <2>1, <2>2, <2>3 DEF EvaluationInv, Fetching
  <2>5. QED  BY <1>1, <1>7, <1>9, <2>4, OneEvaluation
<1>10. CASE Set(p, failed)
  <2>1. /\ failed \in Evaluations /\ failed.pc = "failed"
        /\ failed.seen = s.seen /\ failed.candle_ts = s.candle_ts /\ failed.from = s.from
        /\ failed.next_ts = s.next_ts /\ failed.review_at = s.review_at
    BY <1>4 DEF Evaluations, Pcs
  <2>2. TakenInv(failed)
    BY <1>6, <2>1
  <2> HIDE DEF failed
  <2>3. EvaluationInv(failed)
    BY <2>1, <2>2 DEF EvaluationInv, Fetching
  <2>4. QED  BY <1>1, <1>7, <1>10, <2>3, OneEvaluation
<1>11. QED  BY <1>1, <1>8, <1>9, <1>10

LEMMA StoreKeeps ==
  ASSUME BacktestInv, NEW p \in Trials, Store(p)
  PROVE  BacktestInv'
<1> DEFINE s == trial[p]
           r == FetchBlocks(s.want[1], s.want[2])
           got == In(s.got, s.want[1], s.want[2])
<1>1. /\ EvaluationInv(s) /\ WholeBlocks(blocks) /\ s.pc \in {"prefetching", "fetching"} /\ s.tries = 0
      /\ blocks' = update_blocks(blocks, s.got, r[1], r[2], s.want[2], s.now)
      /\ Set(p, Consume(s, got)) /\ UNCHANGED <<wall, published>>
  BY DEF Store, BacktestInv
<1> HIDE DEF s
<1>2. /\ s.want[1] \in Nat /\ s.want[2] \in Nat /\ s.want[1] < s.want[2] /\ s.got \subseteq Candles
      /\ In(Past, r[1], r[2]) \subseteq s.got
  BY <1>1 DEF EvaluationInv, Evaluations
<1>3. WholeBlocks(blocks')
  <2> DEFINE cache == update_blocks(blocks, s.got, r[1], r[2], s.want[2], s.now)
  <2>1. WholeBlocks(cache)
    BY <1>1, <1>2, StoreKeepsWhole
  <2> HIDE DEF cache
  <2>2. blocks' = cache
    BY <1>1 DEF cache
  <2>3. QED  BY <2>1, <2>2
<1>4. In(Past, s.want[1], s.want[2]) \subseteq got
  <2> SUFFICES ASSUME NEW t \in Past, s.want[1] <= t, t < s.want[2] PROVE t \in got
    BY DEF In
  <2>1. block_id(s.want[1]) \in block_id(s.want[1])..block_id(s.want[2] - 1)
    <3>1. s.want[2] - 1 \in Nat /\ s.want[1] <= s.want[2] - 1
      BY <1>2
    <3>2. QED  BY <1>2, <3>1, BlockHolds, BlocksInOrder
  <2>2. r[1] \in Int /\ r[2] \in Int /\ r[1] <= s.want[1] /\ s.want[2] <= r[2]
    BY <1>2, <2>1, InsideFetch
  <2>3. t \in Nat
    BY CandlesOnGrid
  <2> HIDE DEF r
  <2>4. r[1] <= t /\ t < r[2]
    BY <1>2, <2>2, <2>3
  <2>5. t \in s.got
    BY <1>2, <2>4 DEF In, r
  <2>6. QED  BY <2>5 DEF In
<1>5. got \subseteq Candles /\ \A t \in got : s.want[1] <= t /\ t < s.want[2]
  BY <1>2 DEF In
<1> HIDE DEF got
<1>6. EvaluationInv(Consume(s, got))
  BY <1>1, <1>4, <1>5, Consumes
<1>7. QED  BY <1>1, <1>3, <1>6, OneEvaluation

LEMMA BacktestStep == BacktestInv /\ [BNext]_bvars => BacktestInv'
<1> SUFFICES ASSUME BacktestInv, [BNext]_bvars PROVE BacktestInv'
  OBVIOUS
<1>1. ASSUME NEW p \in Trials, NEW w \in Windows, Evaluate(p, w) PROVE BacktestInv'
  BY <1>1, EvaluateKeeps
<1>2. ASSUME NEW p \in Trials, Loop(p) PROVE BacktestInv'
  BY <1>2, LoopKeeps
<1>3. ASSUME NEW p \in Trials, Hit(p) PROVE BacktestInv'
  BY <1>3, HitKeeps
<1>4. ASSUME NEW p \in Trials, Ask(p) PROVE BacktestInv'
  BY <1>4, AskKeeps
<1>5. ASSUME NEW p \in Trials, Store(p) PROVE BacktestInv'
  BY <1>5, StoreKeeps
<1>6. ASSUME NEW p \in Trials, LoaderFails(p) PROVE BacktestInv'
  <2> DEFINE s == trial[p]
             n == [s EXCEPT !.pc = "failed"]
  <2>1. /\ EvaluationInv(s) /\ WholeBlocks(blocks) /\ s.pc # "idle"
        /\ Set(p, n) /\ UNCHANGED <<wall, published, blocks>>
    BY <1>6 DEF LoaderFails, BacktestInv, Fetching
  <2> HIDE DEF s
  <2>2. s \in Evaluations /\ TakenInv(s)
    BY <2>1 DEF EvaluationInv
  <2>3. /\ n \in Evaluations /\ n.pc = "failed" /\ n.seen = s.seen /\ n.candle_ts = s.candle_ts /\ n.from = s.from
        /\ n.next_ts = s.next_ts /\ n.review_at = s.review_at
    BY <2>2 DEF Evaluations, Pcs
  <2>4. TakenInv(n)
    BY <2>1, <2>2, <2>3 DEF TakenInv, Aligned
  <2> HIDE DEF n
  <2>5. EvaluationInv(n)
    BY <2>3, <2>4 DEF EvaluationInv, Fetching
  <2>6. WholeBlocks(blocks')
    BY <2>1 DEF WholeBlocks
  <2>7. QED  BY <2>1, <2>5, <2>6, OneEvaluation
<1>7. ASSUME NEW p \in Trials, Again(p) PROVE BacktestInv'
  <2>1. Idle \in Evaluations /\ Idle.pc = "idle" /\ Idle.seen = <<>>
    BY DEF Idle, Evaluations, Pcs
  <2>2. EvaluationInv(Idle)
    BY <2>1 DEF EvaluationInv, TakenInv, Fetching, IsIncreasing
  <2>3. Set(p, Idle) /\ UNCHANGED <<wall, published, blocks>>
    BY <1>7 DEF Again
  <2>4. WholeBlocks(blocks')
    BY <2>3 DEF BacktestInv, WholeBlocks
  <2>5. QED  BY <2>2, <2>3, <2>4, OneEvaluation
<1>8. CASE TickWall
  BY <1>8 DEF TickWall, BacktestInv, WholeBlocks
<1>9. ASSUME NEW t \in Candles, Publish(t) PROVE BacktestInv'
  BY <1>9 DEF Publish, BacktestInv, WholeBlocks
<1>10. CASE UNCHANGED bvars
  BY <1>10 DEF bvars, BacktestInv, WholeBlocks
<1>11. QED
  BY <1>1, <1>2, <1>3, <1>4, <1>5, <1>6, <1>7, <1>8, <1>9, <1>10 DEF BNext, Work

LEMMA BacktestSafe == BacktestInv => EvaluationsSound
<1> SUFFICES ASSUME BacktestInv PROVE EvaluationsSound
  OBVIOUS
<1>1. ASSUME NEW p \in Trials
      PROVE  /\ IsIncreasing(trial[p].seen)
             /\ trial[p].pc = "done" => In(Past, trial[p].from, trial[p].to) \subseteq Elems(trial[p].seen)
  <2> DEFINE s == trial[p]
  <2>1. EvaluationInv(s)
    BY DEF BacktestInv
  <2> HIDE DEF s
  <2>2. s.to \in Nat /\ s.next_ts \in Nat
    BY <2>1 DEF EvaluationInv, Evaluations
  <2>3. s.pc = "done" => In(Past, s.from, s.to) \subseteq In(Past, s.from, s.next_ts)
    <3> SUFFICES ASSUME s.pc = "done", NEW t \in Past, s.from <= t, t < s.to PROVE t < s.next_ts
      BY DEF In
    <3>1. t \in Nat /\ s.to <= s.next_ts
      BY <2>1, CandlesOnGrid DEF EvaluationInv
    <3>2. QED  BY <2>2, <3>1
  <2>4. IsIncreasing(s.seen) /\ (s.pc = "done" => In(Past, s.from, s.next_ts) \subseteq Elems(s.seen))
    BY <2>1 DEF EvaluationInv, TakenInv
  <2>5. QED  BY <2>3, <2>4 DEF s
<1>2. CoverageHolds
  BY DEF BacktestInv, WholeBlocks, CoverageHolds, In
<1>3. QED  BY <1>1, <1>2 DEF EvaluationsSound, EvaluatesEveryCandle

\* Every evaluation that ends well took each candle of its window that the loader had from
\* the beginning, once and in order, however the fetches of all evaluations interleave over
\* the shared blocks and however late candles are published (evaluate, fetch_with_blocks).
THEOREM EvaluationsAlwaysSound == BSpec => []EvaluationsSound
<1>1. BInit => BacktestInv
  BY BacktestStart
<1>2. BacktestInv /\ [BNext]_bvars => BacktestInv'
  BY BacktestStep
<1>3. BacktestInv => EvaluationsSound
  BY BacktestSafe
<1>4. QED  BY <1>1, <1>2, <1>3, PTL DEF BSpec

-----------------------------------------------------------------------------
(***************************************************************************)
(* Finite sets and recursion along a sequence.                             *)
(***************************************************************************)
LEMMA ImageFinite ==
  ASSUME NEW S, IsFiniteSet(S), NEW f
  PROVE  IsFiniteSet({f[x] : x \in S})
<1> DEFINE g == [x \in S |-> f[x]]
           T == {f[x] : x \in S}
<1>1. g \in Surjection(S, T)
  BY DEF Surjection
<1>2. QED  BY <1>1, FS_Surjection

\* A finite set of naturals has a greatest element.
LEMMA GreatestOf ==
  ASSUME NEW S \in SUBSET Nat, S # {}, IsFiniteSet(S)
  PROVE  Max(S) \in S /\ \A x \in S : x <= Max(S)
<1> DEFINE Bound(T) == \E b \in Nat : \A x \in T : x <= b
           Sizes == {n \in Nat : \E T \in SUBSET S : IsFiniteSet(T) /\ Cardinality(T) = n /\ ~Bound(T)}
<1>1. Sizes = {}
  <2> SUFFICES ASSUME Sizes # {} PROVE FALSE
    OBVIOUS
  <2>1. PICK n \in Sizes : \A k \in Sizes : n <= k
    BY LeastOf
  <2>2. PICK T \in SUBSET S : IsFiniteSet(T) /\ Cardinality(T) = n /\ ~Bound(T)
    BY <2>1
  <2>3. PICK e \in T : TRUE
    BY <2>2
  <2>4. IsFiniteSet(T \ {e}) /\ Cardinality(T \ {e}) = n - 1 /\ T \ {e} \in SUBSET S
    BY <2>2, <2>3, FS_RemoveElement
  <2>5. n \in Nat /\ n - 1 \in Nat
    BY <2>1, <2>4, FS_CardinalityType
  <2>6. Bound(T \ {e})
    <3>1. n - 1 \notin Sizes
      BY <2>1, <2>5
    <3>2. QED  BY <2>4, <2>5, <3>1
  <2>7. PICK b \in Nat : \A x \in T \ {e} : x <= b
    BY <2>6
  <2>8. e \in Nat /\ \A x \in T : x <= b + e
    BY <2>2, <2>3, <2>7
  <2>9. b + e \in Nat
    BY <2>8
  <2>10. QED  BY <2>2, <2>8, <2>9
<1>2. Bound(S)
  <2>1. Cardinality(S) \in Nat /\ Cardinality(S) \notin Sizes
    BY <1>1, FS_CardinalityType
  <2>2. QED  BY <2>1
<1> DEFINE Bounds == {b \in Nat : \A x \in S : x <= b}
<1>3. PICK m \in Bounds : \A b \in Bounds : m <= b
  BY <1>2, LeastOf
<1>4. m \in S
  <2> SUFFICES ASSUME m \notin S PROVE FALSE
    OBVIOUS
  <2>1. PICK e \in S : TRUE
    OBVIOUS
  <2>2. m \in Nat /\ e \in Nat /\ \A x \in S : x <= m /\ x # m
    BY <1>3, <2>1
  <2>3. m - 1 \in Nat /\ \A x \in S : x <= m - 1
    BY <2>1, <2>2
  <2>4. m - 1 \in Bounds /\ ~(m <= m - 1)
    BY <2>2, <2>3
  <2>5. QED  BY <1>3, <2>4
<1>5. \E x \in S : \A y \in S : x >= y
  BY <1>3, <1>4
<1>6. QED  BY <1>5 DEF Max

LEMMA AlongIs ==
  ASSUME NEW n \in Nat, NEW Good \in SUBSET Nat, 0 \in Good,
         \A i \in 1..n : i - 1 \in Good => i \in Good
  PROVE  \A i \in 0..n : i \in Good
<1> DEFINE Bad == (0..n) \ Good
<1>1. CASE Bad = {}
  BY <1>1
<1>2. CASE Bad # {}
  <2>1. Bad \in SUBSET Nat
    OBVIOUS
  <2>2. PICK m \in Bad : \A k \in Bad : m <= k
    BY <1>2, <2>1, LeastOf
  <2>3. m \in 1..n /\ m - 1 \notin Bad /\ m - 1 \in 0..n
    BY <2>2
  <2>4. QED  BY <2>2, <2>3
<1>3. QED  BY <1>1, <1>2

Stepwise(n, V, start, G) ==
  \E f \in [0..n -> V] : f[0] = start /\ \A i \in 1..n : f[i] = G[<<f[i - 1], i>>]

\* A function over 0..n whose value at i is a step from the one at i - 1.
LEMMA StepwiseExists ==
  ASSUME NEW n \in Nat, NEW V, NEW start \in V, NEW G, \A x \in V, i \in 1..n : G[<<x, i>>] \in V
  PROVE  Stepwise(n, V, start, G)
<1> DEFINE Built(m) == \E f \in [0..m -> V] : f[0] = start /\ \A i \in 1..m : f[i] = G[<<f[i - 1], i>>]
           Missing == {m \in 0..n : ~Built(m)}
<1>1. Built(0)
  <2> DEFINE f == [i \in 0..0 |-> start]
  <2>1. f \in [0..0 -> V] /\ f[0] = start /\ \A i \in 1..0 : f[i] = G[<<f[i - 1], i>>]
    OBVIOUS
  <2>2. QED  BY <2>1
<1>2. ASSUME NEW m \in 1..n, Built(m - 1) PROVE Built(m)
  <2>1. PICK f \in [0..(m - 1) -> V] : f[0] = start /\ \A i \in 1..(m - 1) : f[i] = G[<<f[i - 1], i>>]
    BY <1>2
  <2> DEFINE g == [i \in 0..m |-> IF i = m THEN G[<<f[m - 1], m>>] ELSE f[i]]
  <2>2. f[m - 1] \in V /\ G[<<f[m - 1], m>>] \in V
    BY <2>1
  <2>3. g \in [0..m -> V]
    BY <2>1, <2>2
  <2>4. g[0] = start
    BY <2>1
  <2>5. ASSUME NEW i \in 1..m PROVE g[i] = G[<<g[i - 1], i>>]
    <3>1. i - 1 \in 0..m /\ i - 1 # m /\ i \in 0..m
      OBVIOUS
    <3>2. g[i - 1] = f[i - 1]
      BY <3>1
    <3>3. QED  BY <2>1, <3>1, <3>2
  <2> HIDE DEF g
  <2>6. QED  BY <2>3, <2>4, <2>5
<1>3. CASE Missing = {}
  <2>1. n \in 0..n /\ n \notin Missing
    BY <1>3
  <2>2. Built(n)
    BY <2>1
  <2>3. QED  BY <2>2 DEF Stepwise
<1>4. CASE Missing # {}
  <2>1. Missing \in SUBSET Nat
    OBVIOUS
  <2>2. PICK m \in Missing : \A k \in Missing : m <= k
    BY <1>4, <2>1, LeastOf
  <2>3. m \in 0..n /\ ~Built(m) /\ m # 0
    BY <1>1, <2>2
  <2>4. m \in 1..n /\ m - 1 \in 0..n /\ m - 1 \notin Missing
    <3>1. m \in 1..n /\ m - 1 \in 0..n /\ ~(m <= m - 1)
      BY <2>3
    <3> HIDE DEF Missing
    <3>2. QED  BY <2>2, <3>1
  <2>5. Built(m - 1)
    BY <2>4
  <2>6. QED  BY <1>2, <2>3, <2>4, <2>5
<1>5. QED  BY <1>3, <1>4

-----------------------------------------------------------------------------
(***************************************************************************)
(* Live trading: the plans.  However a plan was built, written, read back  *)
(* or booked on, its grids are numbered from 1 and their levels are whole  *)
(* numbers.                                                                *)
(***************************************************************************)
\* What holds at 0 and goes over from one place to the next holds at the end.
LEMMA EndsInside ==
  ASSUME NEW n \in Nat, NEW V, NEW h, h[0] \in V, \A i \in 1..n : h[i - 1] \in V => h[i] \in V
  PROVE  h[n] \in V
<1> DEFINE Good == {i \in 0..n : h[i] \in V}
<1>1. 0 \in Good /\ Good \in SUBSET Nat /\ n \in 0..n
  OBVIOUS
<1>2. ASSUME NEW i \in 1..n, i - 1 \in Good PROVE i \in Good
  BY <1>2
<1> HIDE DEF Good
<1>3. n \in Good
  BY <1>1, <1>2, AlongIs
<1>4. QED  BY <1>3 DEF Good

LEMMA OnlyType ==
  ASSUME NEW X, NEW s \in Seq(X), NEW good, NEW Y, \A i \in DOMAIN s : i \in good => s[i] \in Y
  PROVE  Only(s, good) \in Seq(Y)
<1>1. PICK n \in Nat : n = Len(s) /\ \A i \in 1..n : i \in good => s[i] \in Y
  OBVIOUS
<1>2. PICK V : V = Seq(Y)
  OBVIOUS
<1> DEFINE P(t, i) == IF i \in good THEN Append(t, s[i]) ELSE t
           G == [x \in V \X (1..n) |-> P(x[1], x[2])]
           F(k) == [m \in 0..n |-> IF m = 0 THEN <<>> ELSE P(k[m - 1], m)]
           h == CHOOSE k : k = F(k)
<1>3. Only(s, good) = h[n]
  BY <1>1 DEF Only
<1>4. \A x \in V, i \in 1..n : P(x, i) \in V
  BY <1>1, <1>2
<1>5. <<>> \in V
  BY <1>2
<1> HIDE DEF P
<1>6. \A x \in V, i \in 1..n : G[<<x, i>>] = P(x, i)
  OBVIOUS
<1> HIDE DEF G
<1>7. \E f : f = F(f)
  <2>1. Stepwise(n, V, <<>>, G)
    <3>1. \A x \in V, i \in 1..n : G[<<x, i>>] \in V
      BY <1>4, <1>6
    <3>2. QED  BY <1>5, <3>1, StepwiseExists
  <2>2. PICK f \in [0..n -> V] : f[0] = <<>> /\ \A i \in 1..n : f[i] = G[<<f[i - 1], i>>]
    BY <2>1 DEF Stepwise
  <2>3. ASSUME NEW i \in 1..n PROVE f[i] = P(f[i - 1], i)
    <3>1. f[i - 1] \in V /\ f[i] = G[<<f[i - 1], i>>]
      BY <2>2
    <3>2. QED  BY <1>6, <3>1
  <2>4. ASSUME NEW i \in 0..n PROVE f[i] = F(f)[i]
    BY <2>2, <2>3
  <2>5. f = [i \in 0..n |-> f[i]] /\ F(f) = [i \in 0..n |-> F(f)[i]]
    OBVIOUS
  <2>6. f = F(f)
    BY <2>4, <2>5
  <2>7. QED  BY <2>6
<1>8. h = F(h)
  BY <1>7
<1> HIDE DEF h
<1>9. h[0] \in V /\ \A i \in 1..n : h[i] = P(h[i - 1], i)
  BY <1>5, <1>8
<1> HIDE DEF F
<1>10. h[n] \in V
  <2>1. \A i \in 1..n : h[i - 1] \in V => h[i] \in V
    BY <1>4, <1>9
  <2>2. h[0] \in V
    BY <1>9
  <2>3. QED  BY <2>1, <2>2, EndsInside
<1>11. QED  BY <1>2, <1>3, <1>10

\* A set of places that goes down to the first is an interval.
LEMMA DownClosed ==
  ASSUME NEW n \in Nat, NEW S \in SUBSET (1..n), \A i \in S, j \in 1..n : j <= i => j \in S
  PROVE  IsFiniteSet(S) /\ Cardinality(S) \in 0..n /\ S = 1..Cardinality(S)
<1>1. IsFiniteSet(1..n) /\ Cardinality(1..n) = n
  BY FS_Interval
<1>2. IsFiniteSet(S) /\ Cardinality(S) <= n /\ Cardinality(S) \in Nat
  BY <1>1, FS_Subset, FS_CardinalityType
<1>3. CASE S = {}
  BY <1>2, <1>3, FS_EmptySet
<1>4. CASE S # {}
  <2>1. S \in SUBSET Nat
    OBVIOUS
  <2>2. Max(S) \in S /\ \A x \in S : x <= Max(S)
    BY <1>2, <1>4, <2>1, GreatestOf
  <2>3. PICK m \in 1..n : m \in S /\ \A x \in S : x <= m
    BY <2>2
  <2>4. S = 1..m
    <3>1. \A j \in 1..m : j \in 1..n /\ j <= m
      BY <2>3
    <3>2. \A j \in 1..m : j \in S
      BY <2>3, <3>1
    <3>3. \A j \in S : j \in 1..m
      BY <2>3
    <3>4. QED  BY <3>2, <3>3
  <2>5. Cardinality(1..m) = m
    BY <2>3, FS_Interval
  <2>6. QED  BY <1>2, <2>3, <2>4, <2>5
<1>5. QED  BY <1>3, <1>4

Sorted(t) == \A i, j \in DOMAIN t : i <= j => t[i] <= t[j]

\* A value put between the first k of a sequence and the others.
PutAt(t, k, e) == SubSeq(t, 1, k) \o <<e>> \o SubSeq(t, k + 1, Len(t))
NotAbove(t, e) == Cardinality({i \in DOMAIN t : t[i] <= e})

LEMMA PutAtSorted ==
  ASSUME NEW t \in Seq(Int), NEW e \in Int, Sorted(t), NEW u, u = PutAt(t, NotAbove(t, e), e)
  PROVE  /\ u \in Seq(Int) /\ Len(u) = Len(t) + 1 /\ Sorted(u)
         /\ (\A i \in DOMAIN t : t[i] <= e) => u = Append(t, e)
<1>1. PICK n \in Nat : n = Len(t) /\ DOMAIN t = 1..n /\ \A i \in 1..n : t[i] \in Int
  OBVIOUS
<1> DEFINE S == {i \in DOMAIN t : t[i] <= e}
<1>2. PICK k \in 0..n : k = NotAbove(t, e) /\ S = 1..k
  <2>1. S \in SUBSET (1..n) /\ \A i \in S, j \in 1..n : j <= i => j \in S
    <3>1. ASSUME NEW i \in S, NEW j \in 1..n, j <= i PROVE j \in S
      <4>1. t[i] \in Int /\ t[j] \in Int /\ t[j] <= t[i] /\ t[i] <= e
        BY <1>1, <3>1 DEF Sorted
      <4>2. QED  BY <1>1, <4>1
    <3>2. QED  BY <1>1, <3>1
  <2>2. NotAbove(t, e) = Cardinality(S)
    BY DEF NotAbove
  <2> HIDE DEF S
  <2>3. QED  BY <2>1, <2>2, DownClosed
<1>3. \A i \in 1..n : i <= k <=> t[i] <= e
  BY <1>1, <1>2
<1>4. u = SubSeq(t, 1, k) \o <<e>> \o SubSeq(t, k + 1, n)
  BY <1>1, <1>2 DEF PutAt
<1>5. SubSeq(t, 1, k) \in Seq(Int) /\ Len(SubSeq(t, 1, k)) = k
      /\ \A i \in 1..k : SubSeq(t, 1, k)[i] = t[i]
  BY <1>1
<1>6. SubSeq(t, k + 1, n) \in Seq(Int) /\ Len(SubSeq(t, k + 1, n)) = n - k
      /\ \A i \in 1..(n - k) : SubSeq(t, k + 1, n)[i] = t[k + i]
  BY <1>1
<1>7. PICK a \in Seq(Int), b \in Seq(Int) : /\ a = SubSeq(t, 1, k) /\ b = SubSeq(t, k + 1, n)
                                            /\ Len(a) = k /\ Len(b) = n - k
  BY <1>5, <1>6
<1>8. /\ u \in Seq(Int) /\ Len(u) = n + 1
      /\ \A i \in 1..(n + 1) : u[i] = IF i <= k THEN a[i] ELSE IF i = k + 1 THEN e ELSE b[i - (k + 1)]
  <2>1. <<e>> \in Seq(Int) /\ Len(<<e>>) = 1 /\ <<e>>[1] = e
    OBVIOUS
  <2>2. PICK d \in Seq(Int) : d = a \o <<e>>
    BY <2>1, ConcatProperties
  <2>3. Len(d) = k + 1 /\ \A i \in 1..(k + 1) : d[i] = IF i <= k THEN a[i] ELSE e
    <3>1. Len(a \o <<e>>) = k + 1 /\ \A i \in 1..(k + 1) : (a \o <<e>>)[i] = IF i <= k THEN a[i] ELSE <<e>>[i - k]
      BY <1>7, <2>1, ConcatProperties
    <3>2. \A i \in 1..(k + 1) : ~(i <= k) => i - k = 1
      OBVIOUS
    <3>3. QED  BY <2>1, <2>2, <3>1, <3>2
  <2>4. u = d \o b
    BY <1>4, <1>7, <2>2
  <2>5. /\ u \in Seq(Int) /\ Len(u) = (k + 1) + (n - k)
        /\ \A i \in 1..((k + 1) + (n - k)) : u[i] = IF i <= k + 1 THEN d[i] ELSE b[i - (k + 1)]
    <3>1. /\ d \o b \in Seq(Int) /\ Len(d \o b) = Len(d) + Len(b)
          /\ \A i \in 1..(Len(d) + Len(b)) : (d \o b)[i] = IF i <= Len(d) THEN d[i] ELSE b[i - Len(d)]
      BY ConcatProperties
    <3>2. QED  BY <1>7, <2>3, <2>4, <3>1
  <2>6. (k + 1) + (n - k) = n + 1
    OBVIOUS
  <2>7. ASSUME NEW i \in 1..(n + 1)
        PROVE  u[i] = IF i <= k THEN a[i] ELSE IF i = k + 1 THEN e ELSE b[i - (k + 1)]
    BY <2>3, <2>5, <2>6
  <2>8. QED  BY <2>5, <2>6, <2>7
<1>9. \A i \in 1..(n + 1) : u[i] = IF i <= k THEN t[i] ELSE IF i = k + 1 THEN e ELSE t[i - 1]
  <2> SUFFICES ASSUME NEW i \in 1..(n + 1)
               PROVE  u[i] = IF i <= k THEN t[i] ELSE IF i = k + 1 THEN e ELSE t[i - 1]
    OBVIOUS
  <2>1. CASE i <= k
    BY <1>5, <1>7, <1>8, <2>1
  <2>2. CASE i = k + 1
    BY <1>8, <2>2
  <2>3. CASE i > k + 1
    <3>1. i - (k + 1) \in 1..(n - k) /\ k + (i - (k + 1)) = i - 1
      BY <2>3
    <3>2. b[i - (k + 1)] = t[i - 1]
      BY <1>6, <1>7, <3>1
    <3>3. u[i] = b[i - (k + 1)] /\ ~(i <= k) /\ i # k + 1
      BY <1>8, <2>3
    <3>4. QED  BY <3>2, <3>3
  <2>4. QED  BY <2>1, <2>2, <2>3
<1>10. Sorted(u)
  <2>1. ASSUME NEW i \in 1..(n + 1), NEW j \in 1..(n + 1), i <= j PROVE u[i] <= u[j]
    <3>1. \A p, q \in 1..n : p <= q => t[p] <= t[q]
      BY <1>1 DEF Sorted
    <3>2. CASE j <= k
      BY <1>9, <2>1, <3>1, <3>2
    <3>3. CASE i <= k /\ j = k + 1
      BY <1>3, <1>9, <2>1, <3>3
    <3>4. CASE i <= k /\ j > k + 1
      <4>1. j - 1 \in 1..n /\ i \in 1..n /\ i <= j - 1
        BY <2>1, <3>4
      <4>2. QED  BY <1>9, <2>1, <3>1, <3>4, <4>1
    <3>5. CASE i = k + 1 /\ j = k + 1
      BY <1>9, <3>5
    <3>6. CASE i = k + 1 /\ j > k + 1
      <4>1. j - 1 \in 1..n /\ ~(j - 1 <= k) /\ t[j - 1] \in Int
        BY <1>1, <2>1, <3>6
      <4>2. e <= t[j - 1]
        BY <1>3, <4>1
      <4>3. QED  BY <1>9, <2>1, <3>6, <4>2
    <3>7. CASE i > k + 1
      <4>1. i - 1 \in 1..n /\ j - 1 \in 1..n /\ i - 1 <= j - 1 /\ j > k + 1
        BY <2>1, <3>7
      <4>2. QED  BY <1>9, <2>1, <3>1, <3>7, <4>1
    <3>8. QED  BY <2>1, <3>2, <3>3, <3>4, <3>5, <3>6, <3>7
  <2>2. DOMAIN u = 1..(n + 1)
    BY <1>8
  <2>3. QED  BY <2>1, <2>2 DEF Sorted
<1>11. ASSUME \A i \in DOMAIN t : t[i] <= e PROVE u = Append(t, e)
  <2>1. k = n
    <3>1. CASE n = 0
      BY <3>1
    <3>2. CASE n # 0
      <4>1. n \in 1..n /\ n \in DOMAIN t
        BY <1>1, <3>2
      <4>2. n <= k
        BY <1>3, <1>11, <4>1
      <4>3. QED  BY <4>2
    <3>3. QED  BY <3>1, <3>2
  <2>2. \A i \in 1..(n + 1) : u[i] = Append(t, e)[i]
    BY <1>1, <1>9, <2>1
  <2>3. Append(t, e) \in Seq(Int) /\ Len(Append(t, e)) = n + 1
    BY <1>1
  <2>4. QED  BY <1>8, <2>2, <2>3
<1>12. QED  BY <1>1, <1>8, <1>10, <1>11

\* from_levels sorts, and what is sorted already stays as it is.
LEMMA AscendingSorts ==
  ASSUME NEW s \in Seq(Int)
  PROVE  /\ Ascending(s) \in Seq(Int) /\ Len(Ascending(s)) = Len(s) /\ Sorted(Ascending(s))
         /\ Sorted(s) => Ascending(s) = s
<1>1. PICK n \in Nat : n = Len(s) /\ DOMAIN s = 1..n /\ \A i \in 1..n : s[i] \in Int
  OBVIOUS
<1>2. PICK V : V = {t \in Seq(Int) : Sorted(t)}
  OBVIOUS
<1> DEFINE P(t, i) == PutAt(t, NotAbove(t, s[i]), s[i])
           G == [x \in V \X (1..n) |-> P(x[1], x[2])]
           F(k) == [m \in 0..n |-> IF m = 0 THEN <<>> ELSE P(k[m - 1], m)]
           h == CHOOSE k : k = F(k)
<1>3. Ascending(s) = h[n]
  BY <1>1 DEF Ascending, PutAt, NotAbove
<1>4. ASSUME NEW x \in V, NEW i \in 1..n
      PROVE  /\ P(x, i) \in V /\ Len(P(x, i)) = Len(x) + 1
             /\ (\A j \in DOMAIN x : x[j] <= s[i]) => P(x, i) = Append(x, s[i])
  <2>1. x \in Seq(Int) /\ Sorted(x) /\ s[i] \in Int
    BY <1>1, <1>2
  <2>2. QED  BY <1>2, <2>1, PutAtSorted
<1>5. <<>> \in V
  BY <1>2 DEF Sorted
<1> HIDE DEF P
<1>6. \A x \in V, i \in 1..n : G[<<x, i>>] = P(x, i)
  OBVIOUS
<1> HIDE DEF G
<1>7. \E f : f = F(f)
  <2>1. Stepwise(n, V, <<>>, G)
    <3>1. \A x \in V, i \in 1..n : G[<<x, i>>] \in V
      BY <1>4, <1>6
    <3>2. QED  BY <1>5, <3>1, StepwiseExists
  <2>2. PICK f \in [0..n -> V] : f[0] = <<>> /\ \A i \in 1..n : f[i] = G[<<f[i - 1], i>>]
    BY <2>1 DEF Stepwise
  <2>3. ASSUME NEW i \in 1..n PROVE f[i] = P(f[i - 1], i)
    <3>1. f[i - 1] \in V /\ f[i] = G[<<f[i - 1], i>>]
      BY <2>2
    <3>2. QED  BY <1>6, <3>1
  <2>4. ASSUME NEW i \in 0..n PROVE f[i] = IF i = 0 THEN <<>> ELSE P(f[i - 1], i)
    <3>1. CASE i = 0
      BY <2>2, <3>1
    <3>2. CASE i # 0
      <4>1. i \in 1..n
        BY <1>1, <3>2
      <4>2. QED  BY <2>3, <3>2, <4>1
    <3>3. QED  BY <3>1, <3>2
  <2>5. f = [i \in 0..n |-> f[i]]
    BY <2>2
  <2>6. f = F(f)
    BY <2>4, <2>5
  <2>7. QED  BY <2>6
<1>8. h = F(h)
  BY <1>7
<1> HIDE DEF h
<1>9. h[0] = <<>> /\ \A i \in 1..n : h[i] = P(h[i - 1], i)
  BY <1>8
<1> HIDE DEF F
<1>10. \A i \in 0..n : h[i] \in V /\ Len(h[i]) = i
  <2> DEFINE Good == {i \in 0..n : h[i] \in V /\ Len(h[i]) = i}
  <2>1. 0 \in Good /\ Good \in SUBSET Nat
    BY <1>5, <1>9
  <2>2. ASSUME NEW i \in 1..n, i - 1 \in Good PROVE i \in Good
    BY <1>4, <1>9, <2>2
  <2> HIDE DEF Good
  <2>3. \A i \in 0..n : i \in Good
    BY <2>1, <2>2, AlongIs
  <2>4. QED  BY <2>3 DEF Good
<1>11. ASSUME Sorted(s) PROVE h[n] = s
  <2> DEFINE pre(i) == SubSeq(s, 1, i)
             Good == {i \in 0..n : h[i] = pre(i)}
  <2>1. 0 \in Good /\ Good \in SUBSET Nat
    <3>1. SubSeq(s, 1, 0) = <<>>
      <4>1. 1 \in Int /\ 0 \in Int /\ 0 < 1
        OBVIOUS
      <4>2. QED  BY <4>1, SubSeqEmpty
    <3>2. h[0] = pre(0) /\ 0 \in 0..n
      BY <1>9, <3>1
    <3> HIDE DEF pre
    <3>3. QED  BY <3>2
  <2>2. ASSUME NEW i \in 1..n, i - 1 \in Good PROVE i \in Good
    <3>1. i - 1 \in 0..n /\ h[i - 1] = SubSeq(s, 1, i - 1) /\ h[i - 1] \in V
      BY <1>10, <2>2
    <3>2. SubSeq(s, 1, i - 1) \in Seq(Int) /\ Len(SubSeq(s, 1, i - 1)) = i - 1
          /\ \A j \in 1..(i - 1) : SubSeq(s, 1, i - 1)[j] = s[j]
      BY <1>1, <2>2
    <3>3. \A j \in DOMAIN h[i - 1] : h[i - 1][j] <= s[i]
      <4>1. PICK x \in Seq(Int) : x = h[i - 1] /\ Len(x) = i - 1 /\ \A j \in 1..(i - 1) : x[j] = s[j]
        BY <3>1, <3>2
      <4>2. DOMAIN x = 1..(i - 1)
        BY <4>1
      <4>3. \A j \in 1..(i - 1) : s[j] <= s[i]
        <5>1. \A j \in 1..(i - 1) : j \in DOMAIN s /\ i \in DOMAIN s /\ j <= i
          BY <1>1
        <5>2. QED  BY <1>11, <5>1 DEF Sorted
      <4>4. QED  BY <4>1, <4>2, <4>3
    <3>4. h[i] = Append(h[i - 1], s[i])
      BY <1>4, <1>9, <3>1, <3>3
    <3>5. Append(SubSeq(s, 1, i - 1), s[i]) = SubSeq(s, 1, i)
      <4>1. PICK a \in Seq(Int) : /\ a = SubSeq(s, 1, i - 1) /\ Len(a) = i - 1
                                  /\ \A j \in 1..(i - 1) : a[j] = s[j]
        BY <3>2
      <4>2. PICK b \in Seq(Int) : b = SubSeq(s, 1, i) /\ Len(b) = i /\ \A j \in 1..i : b[j] = s[j]
        <5>1. 1 \in Int /\ i \in Int /\ \A j \in 1..i : s[j] \in Int
          BY <1>1
        <5>2. SubSeq(s, 1, i) \in Seq(Int) /\ Len(SubSeq(s, 1, i)) = i - 1 + 1
              /\ \A j \in 1..(i - 1 + 1) : SubSeq(s, 1, i)[j] = s[1 + j - 1]
          BY <5>1, SubSeqProperties
        <5>3. i - 1 + 1 = i /\ \A j \in 1..i : 1 + j - 1 = j
          OBVIOUS
        <5>4. QED  BY <5>2, <5>3
      <4>3. PICK d \in Seq(Int) : /\ d = Append(a, s[i]) /\ Len(d) = i /\ d[i] = s[i]
                                  /\ \A j \in 1..(i - 1) : d[j] = a[j]
        <5>1. PICK e \in Int : e = s[i]
          BY <1>1
        <5>2. /\ Append(a, e) \in Seq(Int) /\ Len(Append(a, e)) = Len(a) + 1
              /\ Append(a, e)[Len(a) + 1] = e /\ \A j \in 1..Len(a) : Append(a, e)[j] = a[j]
          BY AppendProperties
        <5>3. Len(a) + 1 = i /\ 1..Len(a) = 1..(i - 1)
          BY <4>1
        <5>4. PICK x \in Seq(Int) : /\ x = Append(a, e) /\ Len(x) = i /\ x[i] = e
                                    /\ \A j \in 1..(i - 1) : x[j] = a[j]
          BY <5>2, <5>3
        <5>5. QED  BY <5>1, <5>4
      <4>4. \A j \in 1..i : d[j] = b[j]
        <5>1. \A j \in 1..i : j \in 1..(i - 1) \/ j = i
          OBVIOUS
        <5>2. QED  BY <4>1, <4>2, <4>3, <5>1
      <4>5. d = b
        <5>1. Len(d) = Len(b) /\ \A j \in 1..Len(d) : d[j] = b[j]
          BY <4>2, <4>3, <4>4
        <5>2. QED  BY <5>1, SeqEqual
      <4>6. QED  BY <4>1, <4>2, <4>3, <4>5
    <3>6. h[i] = pre(i) /\ i \in 0..n
      BY <3>1, <3>4, <3>5
    <3> HIDE DEF pre
    <3>7. QED  BY <3>6
  <2> HIDE DEF Good
  <2>3. n \in Good
    <3>1. n \in 0..n
      OBVIOUS
    <3>2. QED  BY <2>1, <2>2, <3>1, AlongIs
  <2>4. h[n] = SubSeq(s, 1, n)
    BY <2>3 DEF Good
  <2>5. QED  BY <1>1, <2>4
<1>12. QED
  <2>1. h[n] \in Seq(Int) /\ Sorted(h[n]) /\ Len(h[n]) = n
    BY <1>2, <1>10
  <2>2. QED  BY <1>1, <1>3, <1>11, <2>1

\* A grid that is well built: sorted levels, and one entry of everything else for each.
Counters == [lw : Nat, ll : Nat, sw : Nat, sl : Nat]
Grids == [levels : Seq(Int), sl_pct : Nat, max_candles : Nat, weights : Seq(Seq(Nat)),
          long_win_p : Seq(Nat), short_win_p : Seq(Nat), cnt : Seq(Counters)]

GridOk(g) ==
  /\ g \in Grids /\ Len(g.levels) > 0 /\ Sorted(g.levels)
  /\ Len(g.weights) = Len(g.levels) /\ Len(g.cnt) = Len(g.levels)
  /\ Len(g.long_win_p) = Len(g.levels) /\ Len(g.short_win_p) = Len(g.levels)
  /\ \A j \in DOMAIN g.weights : Len(g.weights[j]) = weight_cols(g)

PlanOk(p) == p \in Seq(Grids) /\ \A i \in DOMAIN p : GridOk(p[i])

\* A function from the first n numbers is a sequence.
LEMMA SeqFrom ==
  ASSUME NEW n \in Nat, NEW X, NEW f, f = [i \in 1..n |-> f[i]], \A i \in 1..n : f[i] \in X
  PROVE  f \in Seq(X) /\ Len(f) = n /\ DOMAIN f = 1..n
<1>1. f \in [1..n -> X]
  OBVIOUS
<1>2. QED  BY <1>1

LEMMA GridFields ==
  ASSUME NEW g \in Grids
  PROVE  /\ g = [levels |-> g.levels, sl_pct |-> g.sl_pct, max_candles |-> g.max_candles, weights |-> g.weights,
                 long_win_p |-> g.long_win_p, short_win_p |-> g.short_win_p, cnt |-> g.cnt]
         /\ g.levels \in Seq(Int) /\ g.sl_pct \in Nat /\ g.max_candles \in Nat /\ g.weights \in Seq(Seq(Nat))
         /\ g.long_win_p \in Seq(Nat) /\ g.short_win_p \in Seq(Nat) /\ g.cnt \in Seq(Counters)
         /\ weight_cols(g) \in Nat \ {0}
<1>1. g.max_candles \in Nat
  BY DEF Grids
<1>2. weight_cols(g) \in Nat \ {0}
  BY <1>1 DEF weight_cols
<1>3. QED  BY <1>2 DEF Grids

\* The rows of the weights, as many as levels and each as long as weight_cols.
LEMMA GridRows ==
  ASSUME NEW g, GridOk(g)
  PROVE  /\ Len(g.weights) \in Nat /\ DOMAIN g.weights = 1..Len(g.weights) /\ 1 \in DOMAIN g.weights
         /\ \A j \in 1..Len(g.weights) : g.weights[j] \in Seq(Nat) /\ Len(g.weights[j]) = weight_cols(g)
<1>1. g.weights \in Seq(Seq(Nat)) /\ g.levels \in Seq(Int)
  BY GridFields DEF GridOk
<1>2. PICK w \in Seq(Seq(Nat)) : w = g.weights
  BY <1>1
<1>3. Len(w) \in Nat /\ DOMAIN w = 1..Len(w) /\ \A j \in 1..Len(w) : w[j] \in Seq(Nat)
  OBVIOUS
<1>4. Len(g.weights) > 0 /\ \A j \in DOMAIN g.weights : Len(g.weights[j]) = weight_cols(g)
  <2>1. Len(g.levels) > 0 /\ Len(g.weights) = Len(g.levels)
    BY DEF GridOk
  <2>2. QED  BY <2>1 DEF GridOk
<1>5. Len(w) > 0 /\ \A j \in DOMAIN w : Len(w[j]) = weight_cols(g)
  BY <1>2, <1>4
<1>6. 1 \in DOMAIN w /\ \A j \in 1..Len(w) : Len(w[j]) = weight_cols(g)
  <2>1. PICK m \in Nat : m = Len(w) /\ m > 0 /\ DOMAIN w = 1..m
    BY <1>3, <1>5
  <2>2. 1 \in DOMAIN w
    BY <2>1
  <2>3. 1..Len(w) = DOMAIN w
    BY <2>1
  <2>4. QED  BY <1>5, <2>2, <2>3
<1>7. QED  BY <1>2, <1>3, <1>6

\* A grid as it is built first: its levels and its stop loss.
Bare(levels, pct) == [from_levels(levels) EXCEPT !.sl_pct = pct]

LEMMA FromLevelsOk ==
  ASSUME NEW levels \in Seq(Int), Len(levels) > 0, NEW pct \in Nat
  PROVE  /\ GridOk(Bare(levels, pct)) /\ Bare(levels, pct).levels = Ascending(levels)
         /\ Bare(levels, pct).sl_pct = pct /\ Bare(levels, pct).max_candles = 0
<1>0. PICK g : g = Bare(levels, pct)
  OBVIOUS
<1>1. PICK k \in Nat : k = Len(levels) /\ k > 0
  OBVIOUS
<1>2. PICK up \in Seq(Int) : up = Ascending(levels) /\ Len(up) = k /\ Sorted(up)
  BY <1>1, AscendingSorts
<1> DEFINE w == [j \in 1..k |-> <<100 \div k>>]
           half == [j \in 1..k |-> 50]
           none == [j \in 1..k |-> NoOutcome]
<1>3. /\ g.levels = up /\ g.sl_pct = pct /\ g.max_candles = 0 /\ g.weights = w
      /\ g.long_win_p = half /\ g.short_win_p = half /\ g.cnt = none
      /\ g = [levels |-> up, sl_pct |-> pct, max_candles |-> 0, weights |-> w,
              long_win_p |-> half, short_win_p |-> half, cnt |-> none]
  BY <1>0, <1>1, <1>2 DEF Bare, from_levels
<1>4. w \in Seq(Seq(Nat)) /\ Len(w) = k /\ \A j \in DOMAIN w : Len(w[j]) = 1
  <2>1. 100 \div k \in Nat
    BY <1>1
  <2>2. PICK e \in Nat : e = 100 \div k
    BY <2>1
  <2>3. <<e>> \in Seq(Nat) /\ Len(<<e>>) = 1
    OBVIOUS
  <2>4. PICK row \in Seq(Nat) : row = <<e>> /\ Len(row) = 1
    BY <2>3
  <2>5. w = [j \in 1..k |-> row]
    BY <2>2, <2>4
  <2>6. \A j \in 1..k : w[j] = row
    BY <2>5
  <2>7. w = [j \in 1..k |-> w[j]]
    OBVIOUS
  <2> HIDE DEF w
  <2>8. w \in Seq(Seq(Nat)) /\ Len(w) = k /\ DOMAIN w = 1..k
    <3>1. \A j \in 1..k : w[j] \in Seq(Nat)
      BY <2>4, <2>6
    <3>2. PICK W : W = Seq(Nat)
      OBVIOUS
    <3>3. \A j \in 1..k : w[j] \in W
      BY <3>1, <3>2
    <3>4. w \in Seq(W) /\ Len(w) = k /\ DOMAIN w = 1..k
      BY <2>7, <3>3, SeqFrom
    <3>5. QED  BY <3>2, <3>4
  <2>9. QED  BY <2>4, <2>6, <2>8
<1>5. half \in Seq(Nat) /\ Len(half) = k
  <2>1. half = [j \in 1..k |-> half[j]] /\ \A j \in 1..k : half[j] \in Nat
    OBVIOUS
  <2> HIDE DEF half
  <2>2. QED  BY <2>1, SeqFrom
<1>6. none \in Seq(Counters) /\ Len(none) = k
  <2>1. none = [j \in 1..k |-> none[j]] /\ \A j \in 1..k : none[j] \in Counters
    BY DEF Counters, NoOutcome
  <2> HIDE DEF none
  <2>2. QED  BY <2>1, SeqFrom
<1> HIDE DEF w, half, none
<1>7. g \in Grids
  <2>1. 0 \in Nat
    OBVIOUS
  <2>2. QED  BY <1>3, <1>4, <1>5, <1>6, <2>1, Zenon DEF Grids
<1>8. weight_cols(g) = 1
  BY <1>3 DEF weight_cols
<1>9. GridOk(g)
  BY <1>1, <1>2, <1>3, <1>4, <1>5, <1>6, <1>7, <1>8 DEF GridOk
<1>10. QED  BY <1>0, <1>2, <1>3, <1>9

LEMMA MaxCandlesOk ==
  ASSUME NEW g, GridOk(g), g.max_candles = 0, NEW m \in Nat, NEW h, h = with_max_candles(g, m)
  PROVE  GridOk(h) /\ h.levels = g.levels /\ h.sl_pct = g.sl_pct /\ h.max_candles = m
<1> DEFINE widen(row) == row \o [i \in 1..(m - Len(row)) |-> row[Len(row)]]
           wide == IF m > weight_cols(g) THEN [j \in DOMAIN g.weights |-> widen(g.weights[j])] ELSE g.weights
<1>1. g \in Grids /\ weight_cols(g) = 1
  BY DEF GridOk, weight_cols
<1>2. h = [g EXCEPT !.max_candles = m, !.weights = wide]
  BY DEF with_max_candles
<1>3. PICK n \in Nat : n = Len(g.weights) /\ DOMAIN g.weights = 1..n
                       /\ \A j \in 1..n : g.weights[j] \in Seq(Nat) /\ Len(g.weights[j]) = 1
  BY <1>1, GridRows
<1>4. /\ wide \in Seq(Seq(Nat)) /\ Len(wide) = n
      /\ \A j \in DOMAIN wide : Len(wide[j]) = IF m > 0 THEN m ELSE 1
  <2>1. CASE m > 1
    <3>1. ASSUME NEW j \in 1..n PROVE widen(g.weights[j]) \in Seq(Nat) /\ Len(widen(g.weights[j])) = m
      <4>1. PICK row \in Seq(Nat) : row = g.weights[j] /\ Len(row) = 1 /\ row[1] \in Nat
        BY <1>3
      <4>2. PICK more \in Seq(Nat) : more = [i \in 1..(m - Len(row)) |-> row[Len(row)]] /\ Len(more) = m - 1
        <5>1. m - 1 \in Nat
          BY <2>1
        <5>2. [i \in 1..(m - 1) |-> row[1]] \in Seq(Nat) /\ Len([i \in 1..(m - 1) |-> row[1]]) = m - 1
          BY <4>1, <5>1
        <5>3. QED  BY <4>1, <5>2
      <4>3. row \o more \in Seq(Nat) /\ Len(row \o more) = m
        <5>1. row \o more \in Seq(Nat) /\ Len(row \o more) = 1 + (m - 1)
          <6>1. row \o more \in Seq(Nat) /\ Len(row \o more) = Len(row) + Len(more)
            BY ConcatProperties
          <6>2. QED  BY <4>1, <4>2, <6>1
        <5>2. QED  BY <5>1
      <4>4. QED  BY <4>1, <4>2, <4>3
    <3>2. wide = [j \in 1..n |-> widen(g.weights[j])]
      BY <1>1, <1>3, <2>1
    <3> HIDE DEF widen, wide
    <3>3. QED  BY <2>1, <3>1, <3>2
  <2>2. CASE ~(m > 1)
    <3>1. wide = g.weights /\ (IF m > 0 THEN m ELSE 1) = 1
      BY <1>1, <2>2
    <3>2. g.weights \in Seq(Seq(Nat))
      BY <1>1 DEF Grids
    <3>3. QED  BY <1>3, <3>1, <3>2
  <2>3. QED  BY <2>1, <2>2
<1> HIDE DEF wide
<1>5. /\ h \in Grids /\ h.weights = wide /\ h.max_candles = m /\ h.levels = g.levels /\ h.sl_pct = g.sl_pct
      /\ h.long_win_p = g.long_win_p /\ h.short_win_p = g.short_win_p /\ h.cnt = g.cnt
  BY <1>1, <1>2, <1>4 DEF Grids
<1>6. weight_cols(h) = IF m > 0 THEN m ELSE 1
  BY <1>5 DEF weight_cols
<1>7. QED  BY <1>3, <1>4, <1>5, <1>6 DEF GridOk

LEMMA WeightsOk ==
  ASSUME NEW g, GridOk(g), NEW base \in Seq(Nat)
  PROVE  GridOk(with_weights(g, base))
<1> DEFINE w == [j \in DOMAIN g.weights |-> [t \in 1..weight_cols(g) |-> base[j]]]
           h == [g EXCEPT !.weights = w]
<1>1. CASE Len(base) # Len(g.weights)
  BY <1>1 DEF with_weights
<1>2. CASE Len(base) = Len(g.weights)
  <2>1. with_weights(g, base) = h
    BY <1>2 DEF with_weights
  <2>2. g \in Grids /\ weight_cols(g) \in Nat /\ Len(g.weights) \in Nat /\ DOMAIN g.weights = 1..Len(g.weights)
    BY GridFields, GridRows DEF GridOk
  <2>3. PICK n \in Nat, k \in Nat : n = Len(g.weights) /\ DOMAIN g.weights = 1..n /\ k = weight_cols(g)
                                   /\ \A j \in 1..n : base[j] \in Nat
    BY <1>2, <2>2
  <2>4. ASSUME NEW j \in 1..n PROVE w[j] \in Seq(Nat) /\ Len(w[j]) = k
    BY <2>3
  <2>5. w = [j \in 1..n |-> w[j]]
    BY <2>3
  <2> HIDE DEF w
  <2>6. w \in Seq(Seq(Nat)) /\ Len(w) = n /\ DOMAIN w = 1..n
    BY <2>4, <2>5
  <2>7. /\ h \in Grids /\ h.weights = w /\ h.max_candles = g.max_candles /\ h.levels = g.levels
        /\ h.long_win_p = g.long_win_p /\ h.short_win_p = g.short_win_p /\ h.cnt = g.cnt
    BY <2>2, <2>6 DEF Grids
  <2> HIDE DEF h
  <2>8. weight_cols(h) = k
    BY <2>3, <2>7 DEF weight_cols
  <2>9. GridOk(h)
    BY <2>3, <2>4, <2>6, <2>7, <2>8 DEF GridOk
  <2>10. QED  BY <2>1, <2>9
<1>3. QED  BY <1>1, <1>2

LEMMA WinProbabilitiesOk ==
  ASSUME NEW g, GridOk(g), NEW lw \in Seq(Nat), NEW sw \in Seq(Nat)
  PROVE  GridOk(with_win_probabilities(g, lw, sw))
<1> DEFINE h == [g EXCEPT !.long_win_p = lw, !.short_win_p = sw]
<1>1. CASE ~(Len(lw) = num_levels(g) /\ Len(sw) = num_levels(g))
  BY <1>1 DEF with_win_probabilities
<1>2. CASE Len(lw) = num_levels(g) /\ Len(sw) = num_levels(g)
  <2>1. with_win_probabilities(g, lw, sw) = h
    BY <1>2 DEF with_win_probabilities
  <2>2. /\ h \in Grids /\ h.weights = g.weights /\ h.max_candles = g.max_candles /\ h.levels = g.levels
        /\ h.long_win_p = lw /\ h.short_win_p = sw /\ h.cnt = g.cnt
    BY DEF GridOk, Grids
  <2> HIDE DEF h
  <2>3. weight_cols(h) = weight_cols(g)
    BY <2>2 DEF weight_cols
  <2>4. GridOk(h)
    BY <1>2, <2>2, <2>3 DEF GridOk, num_levels
  <2>5. QED  BY <2>1, <2>4
<1>3. QED  BY <1>1, <1>2

\* A grid with other counters for its levels.
LEMMA CountersOk ==
  ASSUME NEW g, GridOk(g), NEW cnt \in Seq(Counters), Len(cnt) = num_levels(g), NEW h, h = [g EXCEPT !.cnt = cnt]
  PROVE  GridOk(h)
<1>1. /\ h \in Grids /\ h.weights = g.weights /\ h.max_candles = g.max_candles /\ h.levels = g.levels
      /\ h.long_win_p = g.long_win_p /\ h.short_win_p = g.short_win_p /\ h.cnt = cnt
  BY DEF GridOk, Grids
<1>2. weight_cols(h) = weight_cols(g)
  BY <1>1 DEF weight_cols
<1>3. QED  BY <1>1, <1>2 DEF GridOk, num_levels

LEMMA OutcomeCountsOk ==
  ASSUME NEW g, GridOk(g), NEW cnt \in Seq(Counters)
  PROVE  GridOk(with_outcome_counts(g, cnt))
<1> DEFINE none == [j \in 1..num_levels(g) |-> NoOutcome]
<1>1. num_levels(g) \in Nat
  BY DEF GridOk, Grids, num_levels
<1>2. none \in Seq(Counters) /\ Len(none) = num_levels(g)
  <2>1. none = [j \in 1..num_levels(g) |-> none[j]] /\ \A j \in 1..num_levels(g) : none[j] \in Counters
    BY DEF Counters, NoOutcome
  <2> HIDE DEF none
  <2>2. QED  BY <1>1, <2>1, SeqFrom
<1> HIDE DEF none
<1>3. PICK c \in Seq(Counters) : Len(c) = num_levels(g) /\ c = IF Len(cnt) = num_levels(g) THEN cnt ELSE none
  BY <1>2
<1>4. with_outcome_counts(g, cnt) = [g EXCEPT !.cnt = c]
  BY <1>3 DEF with_outcome_counts, none
<1>5. QED  BY <1>3, <1>4, CountersOk

\* Booking trades changes counters only, and booking none changes nothing.
LEMMA RecordTradesOk ==
  ASSUME NEW g, GridOk(g), NEW trades, IsFiniteSet(trades)
  PROVE  GridOk(record_trade_outcome(g, trades)) /\ (trades = {} => record_trade_outcome(g, trades) = g)
<1> DEFINE count(j, long, won) == Cardinality({x \in trades : /\ x.order.level = j /\ x.order.long = long
                                                             /\ (x.pnl > 0) = won})
           c == [j \in DOMAIN g.cnt |-> [lw |-> g.cnt[j].lw + count(j, TRUE, TRUE),
                                         ll |-> g.cnt[j].ll + count(j, TRUE, FALSE),
                                         sw |-> g.cnt[j].sw + count(j, FALSE, TRUE),
                                         sl |-> g.cnt[j].sl + count(j, FALSE, FALSE)]]
<1>1. g \in Grids /\ g.cnt \in Seq(Counters) /\ Len(g.cnt) = num_levels(g)
  BY DEF GridOk, Grids, num_levels
<1>2. PICK n \in Nat : n = Len(g.cnt) /\ DOMAIN g.cnt = 1..n /\ \A j \in 1..n : g.cnt[j] \in Counters
  BY <1>1
<1>3. \A j, long, won : count(j, long, won) \in Nat /\ (trades = {} => count(j, long, won) = 0)
  <2> SUFFICES ASSUME NEW j, NEW long, NEW won
               PROVE  count(j, long, won) \in Nat /\ (trades = {} => count(j, long, won) = 0)
    OBVIOUS
  <2> DEFINE T == {x \in trades : /\ x.order.level = j /\ x.order.long = long /\ (x.pnl > 0) = won}
  <2>1. T \in SUBSET trades
    OBVIOUS
  <2> HIDE DEF T
  <2>2. Cardinality(T) \in Nat
    BY <2>1, FS_Subset, FS_CardinalityType
  <2>3. trades = {} => Cardinality(T) = 0
    BY <2>1, FS_EmptySet
  <2>4. QED  BY <2>2, <2>3 DEF T
<1>4. record_trade_outcome(g, trades) = [g EXCEPT !.cnt = c]
  BY DEF record_trade_outcome
<1> HIDE DEF count
<1>5. c \in Seq(Counters) /\ Len(c) = n
  <2>1. ASSUME NEW j \in 1..n PROVE c[j] \in Counters
    <3>1. PICK x \in Counters : x = g.cnt[j]
      BY <1>2
    <3>2. x.lw \in Nat /\ x.ll \in Nat /\ x.sw \in Nat /\ x.sl \in Nat
      BY DEF Counters
    <3>3. c[j] = [lw |-> x.lw + count(j, TRUE, TRUE), ll |-> x.ll + count(j, TRUE, FALSE),
                  sw |-> x.sw + count(j, FALSE, TRUE), sl |-> x.sl + count(j, FALSE, FALSE)]
      BY <1>2, <3>1
    <3>4. /\ count(j, TRUE, TRUE) \in Nat /\ count(j, TRUE, FALSE) \in Nat
          /\ count(j, FALSE, TRUE) \in Nat /\ count(j, FALSE, FALSE) \in Nat
      BY <1>3
    <3>5. /\ x.lw + count(j, TRUE, TRUE) \in Nat /\ x.ll + count(j, TRUE, FALSE) \in Nat
          /\ x.sw + count(j, FALSE, TRUE) \in Nat /\ x.sl + count(j, FALSE, FALSE) \in Nat
      <4>1. \A p, q \in Nat : p + q \in Nat
        OBVIOUS
      <4> HIDE DEF count
      <4>2. PICK a \in Nat, b \in Nat, d \in Nat, e \in Nat :
              /\ a = count(j, TRUE, TRUE) /\ b = count(j, TRUE, FALSE)
              /\ d = count(j, FALSE, TRUE) /\ e = count(j, FALSE, FALSE)
        BY <3>4
      <4>3. QED  BY <3>2, <4>1, <4>2
    <3> HIDE DEF c
    <3>6. \A p, q, v, y \in Nat : [lw |-> p, ll |-> q, sw |-> v, sl |-> y] \in Counters
      BY DEF Counters
    <3>7. QED  BY <3>3, <3>5, <3>6
  <2>2. c = [j \in 1..n |-> c[j]]
    BY <1>2
  <2> HIDE DEF c
  <2>3. QED  BY <2>1, <2>2, SeqFrom
<1>6. ASSUME trades = {} PROVE c = g.cnt
  <2>1. \A j \in 1..n : c[j] = g.cnt[j]
    <3> SUFFICES ASSUME NEW j \in 1..n PROVE c[j] = g.cnt[j]
      OBVIOUS
    <3>1. g.cnt[j] \in Counters /\ \A long, won : count(j, long, won) = 0
      BY <1>2, <1>3, <1>6
    <3>2. PICK x \in Counters : x = g.cnt[j]
      BY <3>1
    <3>3. c[j] = [lw |-> x.lw + 0, ll |-> x.ll + 0, sw |-> x.sw + 0, sl |-> x.sl + 0]
      BY <1>2, <3>1, <3>2
    <3>4. x = [lw |-> x.lw, ll |-> x.ll, sw |-> x.sw, sl |-> x.sl]
          /\ x.lw \in Nat /\ x.ll \in Nat /\ x.sw \in Nat /\ x.sl \in Nat
      BY DEF Counters
    <3>5. QED  BY <3>2, <3>3, <3>4
  <2>2. c = [j \in 1..n |-> c[j]] /\ g.cnt = [j \in 1..n |-> g.cnt[j]]
    BY <1>1, <1>2
  <2> HIDE DEF c
  <2>3. QED  BY <2>1, <2>2
<1> HIDE DEF c
<1>7. GridOk([g EXCEPT !.cnt = c])
  BY <1>1, <1>2, <1>5, CountersOk
<1>8. [g EXCEPT !.cnt = g.cnt] = g
  BY <1>1 DEF Grids
<1>9. QED  BY <1>4, <1>6, <1>7, <1>8

LEMMA ToGridOk ==
  ASSUME NEW cell \in Cells, Len(UsableLevels(cell)) > 0, NEW prev, PlanOk(prev)
  PROVE  GridOk(to_grid(cell, prev))
<1> DEFINE plain == [from_levels(UsableLevels(cell)) EXCEPT !.sl_pct = cell.sl_pct]
           held == with_max_candles(plain, cell.max_candles)
           g == with_win_probabilities(with_weights(held, cell.weights), cell.long_win, cell.short_win)
           best == BestMatch(g, prev)
<1>1. /\ cell.levels \in Seq(Int) /\ cell.sl_pct \in Nat /\ cell.max_candles \in Nat
      /\ cell.weights \in Seq(Nat) /\ cell.long_win \in Seq(Nat) /\ cell.short_win \in Seq(Nat)
  BY DEF Cells
<1>2. UsableLevels(cell) \in Seq(Int)
  <2>1. \A i \in DOMAIN cell.levels : cell.levels[i] \in Int
    BY <1>1
  <2>2. QED  BY <1>1, <2>1, OnlyType DEF UsableLevels
<1>3. GridOk(plain) /\ plain.max_candles = 0
  <2>1. PICK ls \in Seq(Int), pct \in Nat : ls = UsableLevels(cell) /\ Len(ls) > 0 /\ pct = cell.sl_pct
    BY <1>1, <1>2
  <2>2. plain = [from_levels(ls) EXCEPT !.sl_pct = pct]
    BY <2>1
  <2> HIDE DEF plain
  <2>3. plain = Bare(ls, pct)
    BY <2>2 DEF Bare
  <2>4. QED  BY <2>1, <2>3, FromLevelsOk
<1> HIDE DEF plain
<1>4. GridOk(held)
  BY <1>1, <1>3, MaxCandlesOk
<1> HIDE DEF held
<1>5. GridOk(with_weights(held, cell.weights))
  BY <1>1, <1>4, WeightsOk
<1>6. GridOk(g)
  BY <1>1, <1>5, WinProbabilitiesOk
<1> HIDE DEF g
<1>7. CASE best = {}
  BY <1>6, <1>7 DEF to_grid, g, held, plain
<1>8. CASE best # {}
  <2>1. (CHOOSE i \in best : TRUE) \in best
    BY <1>8
  <2>2. PICK i \in best : i = CHOOSE k \in best : TRUE
    BY <2>1
  <2>3. i \in DOMAIN prev /\ prev[i] \in Grids
    BY DEF BestMatch, PlanOk
  <2>4. prev[i].cnt \in Seq(Counters)
    BY <2>3 DEF Grids
  <2>5. to_grid(cell, prev) = with_outcome_counts(g, prev[i].cnt)
    BY <1>8, <2>2 DEF to_grid, g, held, plain
  <2>6. QED  BY <1>6, <2>4, <2>5, OutcomeCountsOk
<1>9. QED  BY <1>7, <1>8

\* The plan a strategy builds.
LEMMA ToGridsOk ==
  ASSUME NEW cells \in Plans, NEW prev, PlanOk(prev)
  PROVE  PlanOk(to_grids(cells, prev))
<1> DEFINE good == {i \in DOMAIN cells : Len(UsableLevels(cells[i])) >= 2}
           usable == Only(cells, good)
           Fit == {cell \in Cells : Len(UsableLevels(cell)) > 0}
<1>1. cells \in Seq(Cells)
  BY LiveParams
<1>2. usable \in Seq(Fit)
  <2>1. ASSUME NEW i \in DOMAIN cells, i \in good PROVE cells[i] \in Fit
    <3>1. cells[i] \in Cells
      BY <1>1
    <3>2. Len(UsableLevels(cells[i])) \in Nat
      <4>1. cells[i].levels \in Seq(Int) /\ \A j \in DOMAIN cells[i].levels : cells[i].levels[j] \in Int
        BY <3>1 DEF Cells
      <4>2. UsableLevels(cells[i]) \in Seq(Int)
        BY <4>1, OnlyType DEF UsableLevels
      <4>3. QED  BY <4>2
    <3>3. QED  BY <2>1, <3>1, <3>2
  <2> HIDE DEF good, Fit
  <2>2. QED  BY <1>1, <2>1, OnlyType
<1>3. to_grids(cells, prev) = [i \in DOMAIN usable |-> to_grid(usable[i], prev)]
  BY DEF to_grids
<1> HIDE DEF usable
<1>4. PICK n \in Nat : DOMAIN usable = 1..n /\ \A i \in 1..n : usable[i] \in Fit
  BY <1>2
<1>5. \A i \in 1..n : GridOk(to_grid(usable[i], prev))
  BY <1>4, ToGridOk
<1> DEFINE p == [i \in 1..n |-> to_grid(usable[i], prev)]
<1>6. \A i \in 1..n : p[i] \in Grids /\ GridOk(p[i])
  BY <1>5 DEF GridOk
<1>7. p = to_grids(cells, prev) /\ p = [i \in 1..n |-> p[i]]
  BY <1>3, <1>4
<1> HIDE DEF p
<1>8. p \in Seq(Grids) /\ DOMAIN p = 1..n
  BY <1>6, <1>7
<1>9. QED  BY <1>6, <1>7, <1>8 DEF PlanOk

\* A grid is written as it is.
LEMMA WrittenGrid ==
  ASSUME NEW g, GridOk(g)
  PROVE  PlanCell(g) = g
<1> DEFINE w == [j \in DOMAIN g.weights |-> [t \in 1..weight_cols(g) |-> weight(g, j, t - 1)]]
<1>1. g \in Grids /\ PlanCell(g) = [g EXCEPT !.weights = w]
  BY DEF PlanCell, GridOk
<1>2. PICK n \in Nat, k \in Nat : n = Len(g.weights) /\ DOMAIN g.weights = 1..n /\ k = weight_cols(g)
          /\ g.weights \in Seq(Seq(Nat)) /\ \A j \in 1..n : g.weights[j] \in Seq(Nat) /\ Len(g.weights[j]) = k
  BY GridFields, GridRows DEF GridOk
<1>3. ASSUME NEW j \in 1..n PROVE w[j] = g.weights[j]
  <2>1. PICK row \in Seq(Nat) : row = g.weights[j] /\ Len(row) = k
    BY <1>2
  <2>2. ASSUME NEW t \in 1..k PROVE weight(g, j, t - 1) = row[t]
    BY <1>2, <2>1 DEF weight
  <2>3. w[j] = [t \in 1..k |-> row[t]]
    BY <1>2, <2>2
  <2>4. row = [t \in 1..k |-> row[t]]
    BY <2>1
  <2>5. QED  BY <2>1, <2>3, <2>4
<1>4. w = [j \in 1..n |-> w[j]] /\ g.weights = [j \in 1..n |-> g.weights[j]]
  BY <1>2
<1> HIDE DEF w
<1>5. w = g.weights
  BY <1>3, <1>4
<1>6. QED  BY <1>1, <1>5 DEF Grids

\* A grid is read as it was written, but that one candle is no limit.
Unlimited(g) == [g EXCEPT !.max_candles = IF @ > 1 THEN @ ELSE 0]

LEMMA ReadGrid ==
  ASSUME NEW p, GridOk(p)
  PROVE  /\ ReadCell(p) = Unlimited(p) /\ GridOk(ReadCell(p))
         /\ [ReadCell(p) EXCEPT !.max_candles = weight_cols(ReadCell(p))] = [p EXCEPT !.max_candles = weight_cols(p)]
<1> DEFINE plain == [from_levels(p.levels) EXCEPT !.sl_pct = p.sl_pct]
           held == with_max_candles(plain, p.max_candles)
           g == with_weight_matrix(held, p.weights)
           m == IF p.max_candles > 1 THEN p.max_candles ELSE 0
<1>1. /\ p \in Grids /\ p.levels \in Seq(Int) /\ Len(p.levels) > 0 /\ Sorted(p.levels)
      /\ p.sl_pct \in Nat /\ p.max_candles \in Nat
  BY DEF GridOk, Grids
<1>2. GridOk(plain) /\ plain.levels = p.levels /\ plain.sl_pct = p.sl_pct /\ plain.max_candles = 0
  <2>1. PICK ls \in Seq(Int), pct \in Nat : ls = p.levels /\ Len(ls) > 0 /\ Sorted(ls) /\ pct = p.sl_pct
    BY <1>1
  <2>2. plain = [from_levels(ls) EXCEPT !.sl_pct = pct]
    BY <2>1
  <2> HIDE DEF plain
  <2>3. plain = Bare(ls, pct)
    BY <2>2 DEF Bare
  <2>4. Ascending(ls) = ls
    BY <2>1, AscendingSorts
  <2>5. QED  BY <2>1, <2>3, <2>4, FromLevelsOk
<1> HIDE DEF plain
<1>3. GridOk(held) /\ held.levels = p.levels /\ held.sl_pct = p.sl_pct
  BY <1>1, <1>2, MaxCandlesOk
<1> HIDE DEF held
<1>4. Len(p.weights) = Len(held.weights) /\ Len(p.weights[1]) = weight_cols(p)
  <2>1. Len(p.weights) = Len(p.levels) /\ Len(held.weights) = Len(held.levels)
    BY <1>3 DEF GridOk
  <2>2. QED  BY <1>3, <2>1, GridRows
<1>5. g = [held EXCEPT !.weights = p.weights, !.max_candles = m]
  <2>1. g = [held EXCEPT !.weights = p.weights,
                         !.max_candles = IF Len(p.weights[1]) > 1 THEN Len(p.weights[1]) ELSE 0]
    BY <1>4 DEF with_weight_matrix
  <2>2. (IF Len(p.weights[1]) > 1 THEN Len(p.weights[1]) ELSE 0) = m
    BY <1>1, <1>4 DEF weight_cols
  <2>3. QED  BY <2>1, <2>2
<1>6. ReadCell(p) = [g EXCEPT !.long_win_p = p.long_win_p, !.short_win_p = p.short_win_p, !.cnt = p.cnt]
  BY DEF ReadCell, held, plain
<1> HIDE DEF g
<1>7. m \in Nat
  BY <1>1
<1>8. PICK x : x = ReadCell(p)
  OBVIOUS
<1>9. held \in Grids
  BY <1>3 DEF GridOk
<1> HIDE DEF m
<1>10. /\ x \in Grids /\ x.levels = p.levels /\ x.sl_pct = p.sl_pct /\ x.max_candles = m /\ x.weights = p.weights
       /\ x.long_win_p = p.long_win_p /\ x.short_win_p = p.short_win_p /\ x.cnt = p.cnt
  BY <1>1, <1>3, <1>5, <1>6, <1>7, <1>8, <1>9 DEF Grids
<1>11. /\ Unlimited(p) \in Grids /\ Unlimited(p).levels = p.levels /\ Unlimited(p).sl_pct = p.sl_pct
       /\ Unlimited(p).max_candles = m /\ Unlimited(p).weights = p.weights
       /\ Unlimited(p).long_win_p = p.long_win_p /\ Unlimited(p).short_win_p = p.short_win_p
       /\ Unlimited(p).cnt = p.cnt
  BY <1>1, <1>7 DEF Grids, Unlimited, m
<1>12. x = Unlimited(p)
  <2>1. PICK y \in Grids : y = Unlimited(p)
    BY <1>11
  <2>2. /\ x = [levels |-> x.levels, sl_pct |-> x.sl_pct, max_candles |-> x.max_candles, weights |-> x.weights,
                long_win_p |-> x.long_win_p, short_win_p |-> x.short_win_p, cnt |-> x.cnt]
        /\ y = [levels |-> y.levels, sl_pct |-> y.sl_pct, max_candles |-> y.max_candles, weights |-> y.weights,
                long_win_p |-> y.long_win_p, short_win_p |-> y.short_win_p, cnt |-> y.cnt]
    BY <1>10, GridFields
  <2>3. /\ y.levels = p.levels /\ y.sl_pct = p.sl_pct /\ y.max_candles = m /\ y.weights = p.weights
        /\ y.long_win_p = p.long_win_p /\ y.short_win_p = p.short_win_p /\ y.cnt = p.cnt
    BY <1>11, <2>1
  <2>4. QED  BY <1>10, <2>1, <2>2, <2>3
<1>13. weight_cols(x) = weight_cols(p) /\ weight_cols(p) \in Nat
  BY <1>1, <1>10 DEF weight_cols, m
<1>14. GridOk(x)
  BY <1>1, <1>10, <1>13 DEF GridOk
<1>15. [x EXCEPT !.max_candles = weight_cols(x)] = [p EXCEPT !.max_candles = weight_cols(p)]
  <2>1. PICK c \in Nat : c = weight_cols(p)
    BY <1>13
  <2>2. x = [p EXCEPT !.max_candles = m]
    BY <1>12 DEF Unlimited, m
  <2>3. [[p EXCEPT !.max_candles = m] EXCEPT !.max_candles = c] = [p EXCEPT !.max_candles = c]
    BY <1>1 DEF Grids
  <2>4. QED  BY <1>13, <2>1, <2>2, <2>3
<1>16. QED  BY <1>8, <1>12, <1>14, <1>15

\* A plan read is the plan written, as far as it is used.
LEMMA ReadPlan ==
  ASSUME NEW p, PlanOk(p), NEW q, q = [i \in DOMAIN p |-> ReadCell(p[i])]
  PROVE  PlanOk(q) /\ Used(q) = Used(p) /\ DOMAIN q = DOMAIN p
<1>1. PICK n \in Nat : DOMAIN p = 1..n /\ \A i \in 1..n : GridOk(p[i])
  BY DEF PlanOk
<1>2. \A i \in 1..n : q[i] \in Grids /\ GridOk(q[i])
  BY <1>1, ReadGrid DEF GridOk
<1>3. q = [i \in 1..n |-> q[i]]
  BY <1>1
<1>4. q \in Seq(Grids) /\ DOMAIN q = 1..n
  BY <1>2, <1>3
<1>5. \A i \in 1..n : [q[i] EXCEPT !.max_candles = weight_cols(q[i])] = [p[i] EXCEPT !.max_candles = weight_cols(p[i])]
  BY <1>1, ReadGrid
<1>6. Used(q) = Used(p)
  BY <1>1, <1>4, <1>5 DEF Used
<1>7. QED  BY <1>1, <1>2, <1>4, <1>6 DEF PlanOk

LEMMA WrittenPlan ==
  ASSUME NEW plan, PlanOk(plan)
  PROVE  [i \in DOMAIN plan |-> PlanCell(plan[i])] = plan
<1>1. PICK n \in Nat : DOMAIN plan = 1..n /\ plan = [i \in 1..n |-> plan[i]] /\ \A i \in 1..n : GridOk(plan[i])
  BY DEF PlanOk
<1>2. \A i \in 1..n : PlanCell(plan[i]) = plan[i]
  BY <1>1, WrittenGrid
<1>3. [i \in 1..n |-> PlanCell(plan[i])] = [i \in 1..n |-> plan[i]]
  BY <1>2
<1>4. QED  BY <1>1, <1>3

LEMMA BookedPlanOk ==
  ASSUME NEW plan, PlanOk(plan), NEW closed, IsFiniteSet(closed)
  PROVE  PlanOk(BookOutcomes(plan, closed)) /\ (closed = {} => BookOutcomes(plan, closed) = plan)
<1> DEFINE at(i) == {x \in closed : x.order.grid = i}
           p == BookOutcomes(plan, closed)
<1>1. PICK n \in Nat : DOMAIN plan = 1..n /\ plan = [i \in 1..n |-> plan[i]] /\ \A i \in 1..n : GridOk(plan[i])
  BY DEF PlanOk
<1>2. \A i \in 1..n : IsFiniteSet(at(i)) /\ (closed = {} => at(i) = {})
  BY FS_Subset
<1>3. p = [i \in 1..n |-> record_trade_outcome(plan[i], at(i))]
  BY <1>1 DEF BookOutcomes
<1> HIDE DEF at
<1>4. \A i \in 1..n : /\ GridOk(record_trade_outcome(plan[i], at(i)))
                      /\ closed = {} => record_trade_outcome(plan[i], at(i)) = plan[i]
  BY <1>1, <1>2, RecordTradesOk
<1>5. \A i \in 1..n : p[i] \in Grids /\ GridOk(p[i])
  BY <1>3, <1>4 DEF GridOk
<1>6. p = [i \in 1..n |-> p[i]]
  BY <1>3
<1>7. closed = {} => p = plan
  BY <1>1, <1>3, <1>4
<1> HIDE DEF p
<1>8. p \in Seq(Grids) /\ DOMAIN p = 1..n
  BY <1>5, <1>6
<1>9. QED  BY <1>5, <1>7, <1>8 DEF PlanOk, p

\* Of some records with times one is the last.
LEMMA LastRecord ==
  ASSUME NEW S, S # {}, IsFiniteSet(S), \A x \in S : x.ts \in Nat
  PROVE  \E x \in S : \A y \in S : y.ts <= x.ts
<1> DEFINE f == [x \in S |-> x.ts]
           T == {f[x] : x \in S}
<1>1. IsFiniteSet(T) /\ T \in SUBSET Nat /\ T # {}
  <2>1. IsFiniteSet(T)
    BY ImageFinite
  <2>2. QED  BY <2>1
<1>2. PICK x \in S : f[x] = Max(T)
  BY <1>1, GreatestOf
<1>3. \A y \in S : f[y] <= Max(T)
  BY <1>1, GreatestOf
<1>4. QED  BY <1>2, <1>3

\* The plan that is restored: the last one that can be read.
LEMMA RestoredPlanOk ==
  ASSUME NEW seen, IsFiniteSet(seen), \A x \in PlanRecords(seen) : PlanOk(x.plan) /\ x.ts \in Nat
  PROVE  PlanOk(RestoredPlan(seen))
<1> DEFINE bad == {x \in PlanRecords(seen) : ~x.readable}
           good == {x \in PlanRecords(seen) : x.readable /\ \A y \in bad : y.ts < x.ts}
           pick == CHOOSE x \in good : \A y \in good : y.ts <= x.ts
<1>1. CASE good = {}
  <2>1. RestoredPlan(seen) = <<>>
    BY <1>1 DEF RestoredPlan
  <2>2. PlanOk(<<>>)
    BY DEF PlanOk
  <2>3. QED  BY <2>1, <2>2
<1>2. CASE \E x \in good : \A y \in good : y.ts <= x.ts
  <2>1. pick \in good
    BY <1>2
  <2>2. RestoredPlan(seen) = [i \in DOMAIN pick.plan |-> ReadCell(pick.plan[i])]
    BY <2>1 DEF RestoredPlan
  <2>3. PlanOk(pick.plan)
    BY <2>1
  <2> HIDE DEF pick
  <2>4. QED  BY <2>2, <2>3, ReadPlan
<1>3. ASSUME good # {} PROVE \E x \in good : \A y \in good : y.ts <= x.ts
  <2>1. good \in SUBSET seen /\ \A x \in good : x.ts \in Nat
    BY DEF PlanRecords
  <2> HIDE DEF good
  <2>2. IsFiniteSet(good)
    BY <2>1, FS_Subset
  <2>3. QED  BY <1>3, <2>1, <2>2, LastRecord
<1>4. QED  BY <1>1, <1>2, <1>3

-----------------------------------------------------------------------------
(***************************************************************************)
(* Live trading: the invariant.  What a call restores is what the records  *)
(* say, so the invariant is about the records: the cursors within one      *)
(* window of each other count the candles between them, an order unlocks   *)
(* Settlement behind the cursor of its call, and of two orders at one      *)
(* level that are not closed the window has forgotten the first.           *)
(***************************************************************************)
SameLevel(x, y) == x.order.grid = y.order.grid /\ x.order.level = y.order.level

\* The candles of T between two times.
Span(T, a, b) == Cardinality({c \in T : a < c.t /\ c.t <= b})

\* What the gate of open_orders lets through.
Pays(o) ==
  /\ o.long \in BOOLEAN /\ o.entry \in Int /\ o.tp \in Int
  /\ 100 * (IF o.long THEN o.tp - o.entry ELSE o.entry - o.tp) > round_trip_rate * o.entry

PlanRecord(x) == /\ x \in [kind : {"plan"}, ts : Nat, plan : {x.plan}, readable : BOOLEAN]
                 /\ PlanOk(x.plan)

RecordsInv ==
  /\ now \in Nat /\ IsFiniteSet(obs) /\ IsFiniteSet(traded)
  /\ \A x \in obs : x.ts \in Nat /\ x.ts <= now
  /\ \A x \in Orders(obs) : x.id \in Nat \X Nat
  /\ \A x \in Opened : x.id[1] = x.ts
  /\ \A x, y \in Opened : x.id = y.id => x = y
  /\ \A x \in Cursors(obs) : x.seq \in Nat /\ x.review \in Nat
  /\ \A x, y \in Cursors(obs) : x.ts = y.ts => x = y
  /\ \A c \in traded : c.t \in Nat /\ c.t <= now
  /\ \A c, d \in traded : c.t = d.t => c = d
  /\ \A x \in PlanRecords(obs) : PlanRecord(x)

OneAtLevel == \A x \in StillOpen, y \in Opened : SameLevel(x, y) /\ Later(y.id, x.id) => x.ts < y.ts - Window

ClosedKnown == \A y \in ClosedRecords : \E x \in Opened : x.id = y.id /\ x.order = y.order /\ x.ts <= y.ts

CountInv ==
  /\ \A c \in traded : \E u \in Cursors(obs) : u.ts = c.t
  /\ \A u, v \in Cursors(obs) : u.ts <= v.ts =>
        /\ v.seq <= u.seq + Span(traded, u.ts, v.ts)
        /\ v.ts <= u.ts + Window => v.seq >= u.seq + Span(traded, u.ts, v.ts)
  /\ \A x \in Opened : \E u \in Cursors(obs) : u.ts = x.ts /\ x.order.unlock = u.seq + Settlement
  /\ \A y \in ClosedRecords : \E v \in Cursors(obs) : v.ts = y.ts /\ y.order.unlock <= v.seq

ExitsInv == (\A x \in Opened : Pays(x.order)) /\ NoMissedExit /\ TakeProfitPays

LiveInv == RecordsInv /\ OneAtLevel /\ ClosedKnown /\ CountInv /\ ExitsInv

\* What a call at time t, on candle c, writes when it took the candle or not.
CallWrites(t, c, took, opened, closed, plans, u) ==
  /\ t = now + Step /\ now' = t /\ c.t = t
  /\ obs' = obs \cup opened \cup closed \cup plans \cup {u}
  /\ traded' = IF took THEN traded \cup {c} ELSE traded
  /\ u.kind = "step" /\ u.ts = t /\ u.review \in Nat /\ u.seq = RestoredSeq(Read(t)) + (IF took THEN 1 ELSE 0)
  /\ ~took => opened = {} /\ closed = {}
  /\ IsFiniteSet(opened) /\ IsFiniteSet(closed) /\ IsFiniteSet(plans)
  /\ \A x \in opened : /\ x.kind = "order" /\ x.status = "open" /\ x.ts = t
                       /\ x.id \in Nat \X Nat /\ x.id[1] = t
                       /\ x.order.unlock = u.seq + Settlement /\ Pays(x.order)
  /\ \A x, y \in opened : (x.id = y.id => x = y) /\ (SameLevel(x, y) => x = y)
  /\ \A x \in opened, r \in OpenRecords(Read(t)) : SameLevel(x, r) => \E y \in closed : y.id = r.id
  /\ \A y \in closed : /\ y.kind = "order" /\ y.status = "closed" /\ y.ts = t
                       /\ y.pnl > 0 \/ hit_sl(y.order, c)
                       /\ \E r \in OpenRecords(Read(t)) : r.id = y.id /\ r.order = y.order /\ r.order.unlock <= u.seq
  /\ took => \A r \in OpenRecords(Read(t)) :
               (r.order.unlock <= u.seq /\ (hit_sl(r.order, c) \/ hit_tp(r.order, c))) => \E y \in closed : y.id = r.id
  /\ \A x \in plans : x.ts = t /\ PlanRecord(x)

-----------------------------------------------------------------------------
(* Counting the candles. *)

LEMMA SpanOf ==
  ASSUME NEW T, IsFiniteSet(T), \A c \in T : c.t \in Nat
  PROVE  /\ \A a, b \in Nat : Span(T, a, b) \in Nat
         /\ \A a, b, d \in Nat : b <= d => Span(T, a, b) <= Span(T, a, d)
<1> DEFINE Between(a, b) == {c \in T : a < c.t /\ c.t <= b}
<1>1. \A a, b : IsFiniteSet(Between(a, b)) /\ Cardinality(Between(a, b)) \in Nat
  <2> SUFFICES ASSUME NEW a, NEW b PROVE IsFiniteSet(Between(a, b)) /\ Cardinality(Between(a, b)) \in Nat
    OBVIOUS
  <2>1. Between(a, b) \in SUBSET T
    OBVIOUS
  <2> HIDE DEF Between
  <2>2. QED  BY <2>1, FS_Subset, FS_CardinalityType
<1>2. ASSUME NEW a \in Nat, NEW b \in Nat, NEW d \in Nat, b <= d
      PROVE  Cardinality(Between(a, b)) <= Cardinality(Between(a, d))
  <2>1. Between(a, b) \in SUBSET Between(a, d)
    BY <1>2
  <2> HIDE DEF Between
  <2>2. QED  BY <1>1, <2>1, FS_Subset
<1>3. QED  BY <1>1, <1>2 DEF Span

\* The candle of a call is counted by every span that ends with it.
LEMMA SpanGrows ==
  ASSUME NEW T, IsFiniteSet(T), NEW n \in Nat, \A c \in T : c.t \in Nat /\ c.t <= n,
         NEW t \in Nat, n < t, NEW c, c.t = t
  PROVE  /\ \A a, b \in Nat : b <= n => Span(T \cup {c}, a, b) = Span(T, a, b)
         /\ \A a \in Nat : a < t => Span(T \cup {c}, a, t) = Span(T, a, n) + 1
<1>1. ASSUME NEW a \in Nat, NEW b \in Nat, b <= n PROVE Span(T \cup {c}, a, b) = Span(T, a, b)
  <2>1. {d \in T \cup {c} : a < d.t /\ d.t <= b} = {d \in T : a < d.t /\ d.t <= b}
    BY <1>1
  <2>2. QED  BY <2>1 DEF Span
<1>2. ASSUME NEW a \in Nat, a < t PROVE Span(T \cup {c}, a, t) = Span(T, a, n) + 1
  <2> DEFINE S == {d \in T : a < d.t /\ d.t <= n}
  <2>1. {d \in T \cup {c} : a < d.t /\ d.t <= t} = S \cup {c} /\ c \notin S
    BY <1>2
  <2>2. IsFiniteSet(S)
    <3>1. S \in SUBSET T
      OBVIOUS
    <3> HIDE DEF S
    <3>2. QED  BY <3>1, FS_Subset
  <2>3. Span(T, a, n) = Cardinality(S)
    BY DEF Span
  <2> HIDE DEF S
  <2>4. Cardinality(S \cup {c}) = Cardinality(S) + 1
    BY <2>1, <2>2, FS_AddElement
  <2>5. QED  BY <2>1, <2>3, <2>4 DEF Span
<1>3. QED  BY <1>1, <1>2

LEMMA SpanStays ==
  ASSUME NEW T, NEW n \in Nat, \A c \in T : c.t \in Nat /\ c.t <= n, NEW t \in Nat, n < t
  PROVE  \A a \in Nat : Span(T, a, t) = Span(T, a, n)
<1>1. ASSUME NEW a \in Nat PROVE Span(T, a, t) = Span(T, a, n)
  <2>1. {d \in T : a < d.t /\ d.t <= t} = {d \in T : a < d.t /\ d.t <= n}
    OBVIOUS
  <2>2. QED  BY <2>1 DEF Span
<1>2. QED  BY <1>1

\* Max of what some records hold, 0 when there are none.
LEMMA MaxOfRecords ==
  ASSUME NEW S, IsFiniteSet(S), NEW f, \A x \in S : f[x] \in Nat,
         NEW T, \A y : y \in T <=> y = 0 \/ \E x \in S : y = f[x]
  PROVE  /\ Max(T) \in Nat /\ \A x \in S : f[x] <= Max(T)
         /\ Max(T) = 0 \/ \E x \in S : f[x] = Max(T)
<1>1. IsFiniteSet({f[x] : x \in S})
  BY ImageFinite
<1>2. T = {f[x] : x \in S} \cup {0}
  OBVIOUS
<1>3. IsFiniteSet(T) /\ T \in SUBSET Nat /\ T # {}
  BY <1>1, <1>2, FS_AddElement
<1>4. Max(T) \in T /\ \A y \in T : y <= Max(T)
  BY <1>3, GreatestOf
<1>5. QED  BY <1>2, <1>3, <1>4

\* The sequence number a call restores: that of the last cursor in its window.
LEMMA RestoredCounts ==
  ASSUME RecordsInv, CountInv, NEW t, t = now + Step
  PROVE  LET S == RestoredSeq(Read(t))
         IN  /\ S \in Nat
             /\ \A w \in Cursors(obs) : /\ S <= w.seq + Span(traded, w.ts, now)
                                        /\ w.ts >= t - Window => S >= w.seq + Span(traded, w.ts, now)
<1> DEFINE C == Cursors(Read(t))
           f == [x \in C |-> x.seq]
           T == {cursor_seq(x) : x \in C} \cup {0}
           S == Max(T)
<1>1. /\ now \in Nat /\ Step \in Nat \ {0} /\ Window \in Nat /\ t \in Nat /\ now < t
      /\ \A x \in Cursors(obs) : x.ts \in Nat /\ x.ts <= now /\ x.seq \in Nat
  BY KernelParams, LiveParams DEF RecordsInv, Cursors
<1>2. C = {x \in Cursors(obs) : x.ts >= t - Window} /\ IsFiniteSet(C)
  <2>1. C = {x \in Cursors(obs) : x.ts >= t - Window} /\ C \in SUBSET obs
    BY <1>1 DEF Read, Cursors
  <2> HIDE DEF C
  <2>2. IsFiniteSet(obs)
    BY DEF RecordsInv
  <2>3. QED  BY <2>1, <2>2, FS_Subset
<1>3. RestoredSeq(Read(t)) = S
  BY DEF RestoredSeq, MaxOf
<1> HIDE DEF C
<1>4. S \in Nat /\ (\A x \in C : x.seq <= S) /\ (S = 0 \/ \E x \in C : x.seq = S)
  <2>1. \A x \in C : f[x] = x.seq /\ f[x] \in Nat
    BY <1>1, <1>2
  <2>2. \A y : y \in T <=> y = 0 \/ \E x \in C : y = f[x]
    BY DEF cursor_seq
  <2> HIDE DEF f, T
  <2>3. QED  BY <1>2, <2>1, <2>2, MaxOfRecords
<1> HIDE DEF S
<1>5. /\ \A a, b \in Nat : Span(traded, a, b) \in Nat
      /\ \A a, b, d \in Nat : b <= d => Span(traded, a, b) <= Span(traded, a, d)
  BY SpanOf DEF RecordsInv
<1>6. ASSUME NEW w \in Cursors(obs) PROVE S <= w.seq + Span(traded, w.ts, now)
  <2>1. w.ts \in Nat /\ w.ts <= now /\ w.seq \in Nat /\ Span(traded, w.ts, now) \in Nat
    BY <1>1, <1>5
  <2>2. CASE S = 0
    BY <2>1, <2>2
  <2>3. ASSUME NEW v \in C, v.seq = S PROVE S <= w.seq + Span(traded, w.ts, now)
    <3>1. v \in Cursors(obs) /\ v.ts >= t - Window /\ v.ts \in Nat /\ v.ts <= now /\ v.seq \in Nat
      BY <1>1, <1>2
    <3>2. CASE w.ts <= v.ts
      <4>1. v.seq <= w.seq + Span(traded, w.ts, v.ts)
        BY <3>1, <3>2 DEF CountInv
      <4>2. Span(traded, w.ts, v.ts) \in Nat /\ Span(traded, w.ts, v.ts) <= Span(traded, w.ts, now)
        BY <1>1, <1>5, <2>1, <3>1
      <4>3. QED  BY <2>1, <2>3, <3>1, <4>1, <4>2
    <3>3. CASE v.ts < w.ts
      <4>1. v.ts <= w.ts /\ w.ts <= v.ts + Window
        BY <1>1, <2>1, <3>1, <3>3
      <4>2. w.seq >= v.seq + Span(traded, v.ts, w.ts)
        BY <3>1, <4>1 DEF CountInv
      <4>3. Span(traded, v.ts, w.ts) \in Nat
        BY <1>5, <2>1, <3>1
      <4>4. QED  BY <2>1, <2>3, <3>1, <4>2, <4>3
    <3>4. QED  BY <2>1, <3>1, <3>2, <3>3
  <2>4. QED  BY <1>4, <2>2, <2>3
<1>7. ASSUME NEW w \in Cursors(obs), w.ts >= t - Window PROVE S >= w.seq + Span(traded, w.ts, now)
  <2> DEFINE L == {x \in C : x.ts >= w.ts}
             g == [x \in L |-> x.ts]
             Times == {g[x] : x \in L}
  <2>1. w \in L /\ \A x \in L : x.ts \in Nat
    BY <1>1, <1>2, <1>7
  <2>2. IsFiniteSet(Times) /\ Times \in SUBSET Nat /\ Times # {}
    <3>1. IsFiniteSet(L)
      BY <1>2, FS_Subset
    <3> HIDE DEF L
    <3>2. QED  BY <2>1, <3>1, ImageFinite
  <2>3. PICK m \in L : g[m] = Max(Times)
    BY <2>2, GreatestOf
  <2>4. \A x \in L : g[x] <= Max(Times)
    BY <2>2, GreatestOf
  <2>5. \A x \in L : x.ts <= m.ts
    BY <2>3, <2>4
  <2> HIDE DEF Times, g
  <2>6. m \in Cursors(obs) /\ m.ts \in Nat /\ m.ts <= now /\ m.ts >= w.ts /\ m.seq \in Nat /\ m \in C
    BY <1>1, <1>2
  <2>7. w.ts \in Nat /\ w.seq \in Nat /\ m.ts <= w.ts + Window
    BY <1>1, <1>7, <2>6
  <2>8. m.seq >= w.seq + Span(traded, w.ts, m.ts)
    BY <2>6, <2>7 DEF CountInv
  <2>9. {c \in traded : w.ts < c.t /\ c.t <= now} = {c \in traded : w.ts < c.t /\ c.t <= m.ts}
    <3> SUFFICES ASSUME NEW c \in traded, w.ts < c.t PROVE c.t <= m.ts
      BY <1>1, <2>6 DEF RecordsInv
    <3>1. PICK u \in Cursors(obs) : u.ts = c.t
      BY DEF CountInv
    <3>2. u \in L
      BY <1>1, <1>2, <1>7, <2>7, <3>1
    <3>3. QED  BY <2>5, <3>1, <3>2
  <2>10. Span(traded, w.ts, now) = Span(traded, w.ts, m.ts) /\ Span(traded, w.ts, now) \in Nat
    BY <1>1, <1>5, <2>7, <2>9 DEF Span
  <2>11. S >= m.seq
    BY <1>4, <2>6
  <2>12. QED  BY <1>4, <2>6, <2>7, <2>8, <2>10, <2>11
<1>8. QED  BY <1>3, <1>4, <1>6, <1>7

-----------------------------------------------------------------------------
(***************************************************************************)
(* What a call writes keeps the invariant.                                 *)
(***************************************************************************)
Called(t, c, took, opened, closed, plans, u) == LiveInv /\ CallWrites(t, c, took, opened, closed, plans, u)

\* An order that is not closed and that the window shows is one the call restores.
LEMMA SeenIsRestored ==
  ASSUME LiveInv, NEW t, t = now + Step, NEW x \in StillOpen, x.ts >= t - Window
  PROVE  x \in OpenRecords(Read(t))
<1>1. now \in Nat /\ Step \in Nat \ {0} /\ Window \in Nat /\ t \in Nat /\ now < t
  BY KernelParams, LiveParams DEF LiveInv, RecordsInv
<1>2. x \in obs /\ x \in Opened /\ x.kind = "order" /\ x.status = "open" /\ x.ts \in Nat /\ x.ts <= now
  BY DEF StillOpen, Opened, Orders, LiveInv, RecordsInv
<1>3. x \in Orders(Read(t))
  BY <1>1, <1>2 DEF Orders, Read
<1>4. x.id \notin closed_ids(Read(t))
  BY DEF StillOpen, closed_ids, Orders, ClosedRecords, Read
<1>5. ASSUME NEW y \in Orders(Read(t)), y.status = "open", SameLevel(x, y) PROVE ~Later(y.id, x.id)
  <2>1. y \in Opened /\ y.ts \in Nat /\ y.ts <= now
    BY <1>5 DEF Orders, Read, Opened, LiveInv, RecordsInv
  <2>2. ~(x.ts < y.ts - Window)
    BY <1>1, <1>2, <2>1
  <2>3. QED  BY <1>5, <2>1, <2>2 DEF LiveInv, OneAtLevel
<1>6. QED  BY <1>2, <1>3, <1>4, <1>5 DEF OpenRecords, SameLevel

\* A restored order is on record, and the only restored one of its level.
LEMMA RestoredOnRecord ==
  ASSUME LiveInv, NEW t, NEW r \in OpenRecords(Read(t))
  PROVE  /\ r \in Opened /\ r \in Read(t) /\ r.ts \in Nat /\ r.ts <= now
         /\ \A q \in OpenRecords(Read(t)) : SameLevel(q, r) => q = r
<1>1. \A q \in OpenRecords(Read(t)) :
        /\ q \in Opened /\ q \in Read(t) /\ q.ts \in Nat /\ q.ts <= now /\ q.id \in Nat \X Nat
        /\ q \in {y \in Orders(Read(t)) : y.status = "open"}
  BY DEF OpenRecords, Orders, Read, Opened, LiveInv, RecordsInv
<1>2. ASSUME NEW q \in OpenRecords(Read(t)), SameLevel(q, r) PROVE q = r
  <2>1. ~Later(q.id, r.id) /\ ~Later(r.id, q.id)
    BY <1>1, <1>2 DEF OpenRecords, SameLevel
  <2>2. q.id = r.id
    <3>1. q.id = <<q.id[1], q.id[2]>> /\ r.id = <<r.id[1], r.id[2]>>
      BY <1>1
    <3>2. q.id[1] \in Nat /\ q.id[2] \in Nat /\ r.id[1] \in Nat /\ r.id[2] \in Nat
      BY <1>1
    <3>3. q.id[1] = r.id[1] /\ q.id[2] = r.id[2]
      BY <2>1, <3>2 DEF Later
    <3>4. QED  BY <3>1, <3>3
  <2>3. QED  BY <1>1, <2>2 DEF LiveInv, RecordsInv
<1>3. QED  BY <1>1, <1>2

\* What there is after the call.
LEMMA AfterCall ==
  ASSUME NEW t, NEW c, NEW took, NEW opened, NEW closed, NEW plans, NEW u,
         Called(t, c, took, opened, closed, plans, u)
  PROVE  /\ now \in Nat /\ t \in Nat /\ now < t /\ Window \in Nat /\ Settlement \in Nat
         /\ Orders(obs') = Orders(obs) \cup opened \cup closed
         /\ Opened' = Opened \cup opened
         /\ ClosedRecords' = ClosedRecords \cup closed
         /\ Cursors(obs') = Cursors(obs) \cup {u}
         /\ PlanRecords(obs') = PlanRecords(obs) \cup plans
         /\ \A x \in StillOpen' : /\ \A y \in closed : y.id # x.id
                                  /\ x \in StillOpen \/ x \in opened
<1>1. now \in Nat /\ t \in Nat /\ now < t /\ Window \in Nat /\ Settlement \in Nat
  BY KernelParams, LiveParams DEF Called, CallWrites, LiveInv, RecordsInv
<1>2. obs' = obs \cup opened \cup closed \cup plans \cup {u}
  BY DEF Called, CallWrites
<1>3. /\ \A x \in opened : x.kind = "order" /\ x.status = "open"
      /\ \A x \in closed : x.kind = "order" /\ x.status = "closed"
      /\ u.kind = "step"
  BY DEF Called, CallWrites
<1>4. \A x \in plans : x.kind = "plan"
  BY DEF Called, CallWrites, PlanRecord
<1>5. Orders(obs') = Orders(obs) \cup opened \cup closed
  BY <1>2, <1>3, <1>4 DEF Orders
<1>6. Cursors(obs') = Cursors(obs) \cup {u}
  BY <1>2, <1>3, <1>4 DEF Cursors
<1>7. PlanRecords(obs') = PlanRecords(obs) \cup plans
  BY <1>2, <1>3, <1>4 DEF PlanRecords
<1>8. Opened' = Opened \cup opened /\ ClosedRecords' = ClosedRecords \cup closed
  BY <1>3, <1>5 DEF Opened, ClosedRecords
<1>9. \A x \in StillOpen' : /\ \A y \in closed : y.id # x.id
                            /\ x \in StillOpen \/ x \in opened
  BY <1>8 DEF StillOpen
<1>10. QED  BY <1>1, <1>5, <1>6, <1>7, <1>8, <1>9

LEMMA CallRecords ==
  ASSUME NEW t, NEW c, NEW took, NEW opened, NEW closed, NEW plans, NEW u,
         Called(t, c, took, opened, closed, plans, u)
  PROVE  RecordsInv'
<1> DEFINE W == CallWrites(t, c, took, opened, closed, plans, u)
<1>0. RecordsInv /\ LiveInv /\ W /\ CountInv
  BY DEF Called, LiveInv
<1>1. now \in Nat /\ t \in Nat /\ now < t /\ now' = t /\ c.t = t
  BY <1>0, AfterCall DEF CallWrites
<1>2. IsFiniteSet(obs') /\ IsFiniteSet(traded')
  <2>1. obs' = ((obs \cup opened) \cup (closed \cup plans)) \cup {u}
    BY <1>0 DEF CallWrites
  <2>2. IsFiniteSet(obs) /\ IsFiniteSet(traded) /\ IsFiniteSet(opened) /\ IsFiniteSet(closed) /\ IsFiniteSet(plans)
    BY <1>0 DEF RecordsInv, CallWrites
  <2>3. IsFiniteSet(obs \cup opened) /\ IsFiniteSet(closed \cup plans)
    BY <2>2, FS_Union
  <2>4. IsFiniteSet((obs \cup opened) \cup (closed \cup plans))
    BY <2>3, FS_Union
  <2>5. IsFiniteSet(obs')
    BY <2>1, <2>4, FS_AddElement
  <2>6. traded' = traded \/ traded' = traded \cup {c}
    BY <1>0 DEF CallWrites
  <2>7. QED  BY <2>2, <2>5, <2>6, FS_AddElement
<1>3. \A x \in obs' : x.ts \in Nat /\ x.ts <= t
  <2>1. \A x \in obs : x.ts \in Nat /\ x.ts <= now
    BY <1>0 DEF RecordsInv
  <2>2. \A x \in obs' : x \in obs \/ x.ts = t
    BY <1>0 DEF CallWrites
  <2>3. QED  BY <1>1, <2>1, <2>2
<1>4. \A x \in Orders(obs') : x.id \in Nat \X Nat
  <2>1. \A y \in closed : \E r \in OpenRecords(Read(t)) : r.id = y.id
    BY <1>0 DEF CallWrites
  <2>2. \A r \in OpenRecords(Read(t)) : r.id \in Nat \X Nat
    BY <1>0, RestoredOnRecord DEF RecordsInv, Opened
  <2>3. \A x \in opened : x.id \in Nat \X Nat
    BY <1>0 DEF CallWrites
  <2>4. QED  BY <1>0, <2>1, <2>2, <2>3, AfterCall DEF RecordsInv
<1>5. \A x \in opened : x.id[1] = t /\ x.ts = t
  BY <1>0 DEF CallWrites
<1>6. \A x \in Opened : x.id[1] = x.ts /\ x.ts \in Nat /\ x.ts <= now
  BY <1>0 DEF RecordsInv, Opened, Orders
<1>7. \A x \in Opened' : x.id[1] = x.ts
  BY <1>5, <1>6, AfterCall
<1>8. ASSUME NEW x \in Opened', NEW y \in Opened', x.id = y.id PROVE x = y
  <2>1. \/ x \in Opened /\ y \in Opened
        \/ x \in opened /\ y \in opened
    BY <1>1, <1>5, <1>6, <1>8, AfterCall
  <2>2. QED  BY <1>0, <1>8, <2>1 DEF RecordsInv, CallWrites
<1>9. RestoredSeq(Read(t)) \in Nat /\ u.seq \in Nat /\ u.review \in Nat /\ u.ts = t
  <2>1. RestoredSeq(Read(t)) \in Nat
    BY <1>0, RestoredCounts DEF CallWrites
  <2>2. QED  BY <1>0, <2>1 DEF CallWrites
<1>10. \A x \in Cursors(obs) : x.ts <= now /\ x.ts \in Nat /\ x.seq \in Nat /\ x.review \in Nat
  BY <1>0 DEF RecordsInv, Cursors
<1>11. \A x \in Cursors(obs') : x.seq \in Nat /\ x.review \in Nat
  BY <1>9, <1>10, AfterCall
<1>12. \A x, y \in Cursors(obs') : x.ts = y.ts => x = y
  <2>1. \A x, y \in Cursors(obs) : x.ts = y.ts => x = y
    BY <1>0 DEF RecordsInv
  <2>2. QED  BY <1>1, <1>9, <1>10, <2>1, AfterCall
<1>13. \A d \in traded : d.t \in Nat /\ d.t <= now
  BY <1>0 DEF RecordsInv
<1>14. \A d \in traded' : d \in traded \/ d = c
  BY <1>0 DEF CallWrites
<1>15. \A d \in traded' : d.t \in Nat /\ d.t <= t
  BY <1>1, <1>13, <1>14
<1>16. \A d, e \in traded' : d.t = e.t => d = e
  <2>1. \A d, e \in traded : d.t = e.t => d = e
    BY <1>0 DEF RecordsInv
  <2>2. QED  BY <1>1, <1>13, <1>14, <2>1
<1>17. \A x \in PlanRecords(obs') : PlanRecord(x)
  <2>1. \A x \in PlanRecords(obs) : PlanRecord(x)
    BY <1>0 DEF RecordsInv
  <2>2. \A x \in plans : PlanRecord(x)
    BY <1>0 DEF CallWrites
  <2>3. QED  BY <2>1, <2>2, AfterCall
<1>18. QED  BY <1>1, <1>2, <1>3, <1>4, <1>7, <1>8, <1>11, <1>12, <1>15, <1>16, <1>17 DEF RecordsInv

LEMMA CallLevels ==
  ASSUME NEW t, NEW c, NEW took, NEW opened, NEW closed, NEW plans, NEW u,
         Called(t, c, took, opened, closed, plans, u)
  PROVE  OneAtLevel' /\ ClosedKnown'
<1>0. RecordsInv /\ LiveInv /\ OneAtLevel /\ ClosedKnown /\ CallWrites(t, c, took, opened, closed, plans, u)
  BY DEF Called, LiveInv
<1>1. now \in Nat /\ t \in Nat /\ now < t /\ Window \in Nat /\ t = now + Step
  BY <1>0, AfterCall DEF CallWrites
<1>2. \A x \in opened : x.id[1] = t /\ x.ts = t
  BY <1>0 DEF CallWrites
<1>3. \A x \in Opened : x.id[1] = x.ts /\ x.ts \in Nat /\ x.ts <= now
  BY <1>0 DEF RecordsInv, Opened, Orders
<1>4. ASSUME NEW x \in StillOpen', NEW y \in Opened', SameLevel(x, y), Later(y.id, x.id)
      PROVE  x.ts < y.ts - Window
  <2>1. CASE y \in Opened
    <3>1. x \in StillOpen
      <4>1. CASE x \in opened
        <5>1. x.id[1] = t /\ y.id[1] <= now /\ y.id[1] \in Nat
          BY <1>2, <1>3, <2>1, <4>1
        <5>2. QED  BY <1>1, <1>4, <5>1 DEF Later
      <4>2. QED  BY <4>1, AfterCall
    <3>2. QED  BY <1>0, <1>4, <2>1, <3>1 DEF OneAtLevel
  <2>2. CASE y \in opened
    <3>1. CASE x \in opened
      <4>1. x = y
        BY <1>0, <1>4, <2>2, <3>1 DEF CallWrites
      <4>2. x.id \in Nat \X Nat
        BY <1>0, <3>1 DEF CallWrites
      <4>3. x.id[1] \in Nat /\ x.id[2] \in Nat
        BY <4>2
      <4>4. QED  BY <1>4, <4>1, <4>3 DEF Later
    <3>2. CASE x \in StillOpen
      <4>1. SUFFICES ASSUME x.ts >= t - Window PROVE FALSE
        <5>1. x.ts \in Nat /\ y.ts = t
          BY <1>2, <1>3, <2>2, <3>2 DEF StillOpen
        <5>2. QED  BY <1>1, <5>1
      <4>2. x \in OpenRecords(Read(t))
        BY <1>0, <1>1, <3>2, <4>1, SeenIsRestored
      <4>3. SameLevel(y, x)
        BY <1>4 DEF SameLevel
      <4>4. \E z \in closed : z.id = x.id
        BY <1>0, <2>2, <4>2, <4>3 DEF CallWrites
      <4>5. QED  BY <4>4, AfterCall
    <3>3. QED  BY <3>1, <3>2, AfterCall
  <2>3. QED  BY <2>1, <2>2, AfterCall
<1>5. ASSUME NEW y \in ClosedRecords' PROVE \E x \in Opened' : x.id = y.id /\ x.order = y.order /\ x.ts <= y.ts
  <2>1. CASE y \in ClosedRecords
    BY <1>0, <2>1, AfterCall DEF ClosedKnown
  <2>2. CASE y \in closed
    <3>1. y.ts = t /\ \E r \in OpenRecords(Read(t)) : r.id = y.id /\ r.order = y.order
      BY <1>0, <2>2 DEF CallWrites
    <3>2. \A r \in OpenRecords(Read(t)) : r \in Opened /\ r.ts \in Nat /\ r.ts <= now
      BY <1>0, RestoredOnRecord
    <3>3. \A r \in Opened : r \in Opened'
      BY AfterCall
    <3>4. QED  BY <1>1, <3>1, <3>2, <3>3
  <2>3. QED  BY <2>1, <2>2, AfterCall
<1>6. QED  BY <1>4, <1>5 DEF OneAtLevel, ClosedKnown

\* The cursor of the call goes on counting.
LEMMA CallCounts ==
  ASSUME NEW t, NEW c, NEW took, NEW opened, NEW closed, NEW plans, NEW u,
         Called(t, c, took, opened, closed, plans, u), took \in BOOLEAN
  PROVE  CountInv'
<1>0. RecordsInv /\ LiveInv /\ CountInv /\ CallWrites(t, c, took, opened, closed, plans, u)
  BY DEF Called, LiveInv
<1>1. now \in Nat /\ t \in Nat /\ now < t /\ Window \in Nat /\ t = now + Step /\ c.t = t
  BY <1>0, AfterCall DEF CallWrites
<1> DEFINE S == RestoredSeq(Read(t))
           one == IF took THEN 1 ELSE 0
<1>2. S \in Nat /\ \A w \in Cursors(obs) : /\ S <= w.seq + Span(traded, w.ts, now)
                                           /\ w.ts >= t - Window => S >= w.seq + Span(traded, w.ts, now)
  BY <1>0, <1>1, RestoredCounts
<1>3. u.ts = t /\ u.seq = S + one
  BY <1>0 DEF CallWrites
<1> HIDE DEF S
<1>4. \A w \in Cursors(obs) : w.ts \in Nat /\ w.ts <= now /\ w.seq \in Nat
  BY <1>0 DEF RecordsInv, Cursors
<1>5. IsFiniteSet(traded) /\ \A d \in traded : d.t \in Nat /\ d.t <= now
  BY <1>0 DEF RecordsInv
<1>6. traded' = IF took THEN traded \cup {c} ELSE traded
  BY <1>0 DEF CallWrites
<1>7. \A a, b \in Nat : b <= now => Span(traded', a, b) = Span(traded, a, b)
  <2>1. CASE took
    <3>1. traded' = traded \cup {c}
      BY <1>6, <2>1
    <3>2. \A a, b \in Nat : b <= now => Span(traded \cup {c}, a, b) = Span(traded, a, b)
      BY <1>1, <1>5, SpanGrows
    <3>3. QED  BY <3>1, <3>2
  <2>2. CASE ~took
    BY <1>6, <2>2
  <2>3. QED  BY <2>1, <2>2
<1>8. \A a \in Nat : a < t => Span(traded', a, t) = Span(traded, a, now) + one
  <2>1. \A a, b \in Nat : Span(traded, a, b) \in Nat
    BY <1>5, SpanOf
  <2>2. CASE took
    BY <1>1, <1>5, <1>6, <2>2, SpanGrows
  <2>3. CASE ~took
    <3>1. \A a \in Nat : Span(traded, a, t) = Span(traded, a, now)
      BY <1>1, <1>5, SpanStays
    <3>2. QED  BY <1>1, <1>6, <2>1, <2>3, <3>1
  <2>4. QED  BY <2>2, <2>3
<1>9. \A d \in traded' : \E w \in Cursors(obs') : w.ts = d.t
  <2>1. \A d \in traded : \E w \in Cursors(obs) : w.ts = d.t
    BY <1>0 DEF CountInv
  <2>2. \A d \in traded' : d \in traded \/ d = c
    BY <1>6
  <2>3. \A w \in Cursors(obs) : w \in Cursors(obs')
    BY AfterCall
  <2>4. u \in Cursors(obs')
    BY AfterCall
  <2>5. QED  BY <1>1, <1>3, <2>1, <2>2, <2>3, <2>4
<1>10. ASSUME NEW w \in Cursors(obs'), NEW v \in Cursors(obs'), w.ts <= v.ts
       PROVE  /\ v.seq <= w.seq + Span(traded', w.ts, v.ts)
              /\ v.ts <= w.ts + Window => v.seq >= w.seq + Span(traded', w.ts, v.ts)
  <2>1. CASE w \in Cursors(obs) /\ v \in Cursors(obs)
    <3>1. Span(traded', w.ts, v.ts) = Span(traded, w.ts, v.ts)
      BY <1>4, <1>7, <2>1
    <3>2. /\ v.seq <= w.seq + Span(traded, w.ts, v.ts)
          /\ v.ts <= w.ts + Window => v.seq >= w.seq + Span(traded, w.ts, v.ts)
      BY <1>0, <1>10, <2>1 DEF CountInv
    <3>3. QED  BY <3>1, <3>2
  <2>2. CASE w \in Cursors(obs) /\ v = u
    <3>1. w.ts \in Nat /\ w.ts < t /\ w.seq \in Nat
      BY <1>1, <1>4, <2>2
    <3>2. Span(traded', w.ts, t) = Span(traded, w.ts, now) + one
      BY <1>8, <3>1
    <3>3. Span(traded, w.ts, now) \in Nat
      BY <1>1, <1>5, <3>1, SpanOf
    <3>4. /\ S <= w.seq + Span(traded, w.ts, now)
          /\ w.ts >= t - Window => S >= w.seq + Span(traded, w.ts, now)
      BY <1>2, <2>2
    <3>5. v.ts = t /\ v.seq = S + one
      BY <1>3, <2>2
    <3>6. one \in Nat
      OBVIOUS
    <3> HIDE DEF one
    <3>7. QED  BY <1>1, <1>2, <3>1, <3>2, <3>3, <3>4, <3>5, <3>6
  <2>3. CASE w = u /\ v = u
    <3>1. Span(traded', t, t) = 0
      <4>1. {d \in traded' : t < d.t /\ d.t <= t} = {}
        <5>1. \A d \in traded' : d.t \in Nat
          BY <1>1, <1>5, <1>6
        <5>2. QED  BY <1>1, <5>1
      <4>2. QED  BY <4>1, FS_EmptySet DEF Span
    <3>2. u.seq \in Nat
      BY <1>2, <1>3
    <3>3. QED  BY <1>3, <2>3, <3>1, <3>2
  <2>4. CASE w = u /\ v \in Cursors(obs)
    BY <1>1, <1>3, <1>4, <1>10, <2>4
  <2>5. QED  BY <2>1, <2>2, <2>3, <2>4, AfterCall
<1>11. ASSUME NEW x \in Opened' PROVE \E w \in Cursors(obs') : w.ts = x.ts /\ x.order.unlock = w.seq + Settlement
  <2>1. CASE x \in Opened
    <3>1. PICK w \in Cursors(obs) : w.ts = x.ts /\ x.order.unlock = w.seq + Settlement
      BY <1>0, <2>1 DEF CountInv
    <3>2. w \in Cursors(obs')
      BY AfterCall
    <3>3. QED  BY <3>1, <3>2
  <2>2. CASE x \in opened
    <3>1. x.ts = t /\ x.order.unlock = u.seq + Settlement
      BY <1>0, <2>2 DEF CallWrites
    <3>2. u \in Cursors(obs')
      BY AfterCall
    <3>3. QED  BY <1>3, <3>1, <3>2
  <2>3. QED  BY <2>1, <2>2, AfterCall
<1>12. ASSUME NEW y \in ClosedRecords' PROVE \E w \in Cursors(obs') : w.ts = y.ts /\ y.order.unlock <= w.seq
  <2>1. CASE y \in ClosedRecords
    <3>1. PICK w \in Cursors(obs) : w.ts = y.ts /\ y.order.unlock <= w.seq
      BY <1>0, <2>1 DEF CountInv
    <3>2. w \in Cursors(obs')
      BY AfterCall
    <3>3. QED  BY <3>1, <3>2
  <2>2. CASE y \in closed
    <3>1. y.ts = t /\ y.order.unlock <= u.seq
      BY <1>0, <2>2 DEF CallWrites
    <3>2. u \in Cursors(obs')
      BY AfterCall
    <3>3. QED  BY <1>3, <3>1, <3>2
  <2>3. QED  BY <2>1, <2>2, AfterCall
<1>13. QED  BY <1>9, <1>10, <1>11, <1>12 DEF CountInv

\* The call closes what its candle reaches, and only for a gain at the take profit.
LEMMA CallExits ==
  ASSUME NEW t, NEW c, NEW took, NEW opened, NEW closed, NEW plans, NEW u,
         Called(t, c, took, opened, closed, plans, u), took \in BOOLEAN
  PROVE  ExitsInv'
<1>0. RecordsInv /\ LiveInv /\ CountInv /\ ExitsInv /\ CallWrites(t, c, took, opened, closed, plans, u)
  BY DEF Called, LiveInv
<1>1. now \in Nat /\ t \in Nat /\ now < t /\ Window \in Nat /\ Settlement \in Nat /\ t = now + Step /\ c.t = t
  BY <1>0, AfterCall DEF CallWrites
<1>2. /\ IsFiniteSet(traded) /\ \A d \in traded : d.t \in Nat /\ d.t <= now
      /\ traded' = IF took THEN traded \cup {c} ELSE traded
  BY <1>0 DEF RecordsInv, CallWrites
<1>3. \A d \in traded' : d \in traded \/ (took /\ d = c)
  BY <1>2
<1>4. \A x \in Opened' : Pays(x.order)
  <2>1. \A x \in Opened : Pays(x.order)
    BY <1>0 DEF ExitsInv
  <2>2. \A x \in opened : Pays(x.order)
    BY <1>0 DEF CallWrites
  <2>3. QED  BY <2>1, <2>2, AfterCall
<1>5. ASSUME NEW x \in StillOpen', NEW d \in traded', x.ts < d.t, x.ts >= d.t - Window,
             Span(traded', x.ts, d.t) >= Settlement
      PROVE  ~hit_sl(x.order, d) /\ ~hit_tp(x.order, d)
  <2>1. d.t \in Nat /\ d.t <= t
    BY <1>1, <1>2, <1>3
  <2>2. x \in StillOpen
    <3>1. \A y \in opened : y.ts = t
      BY <1>0 DEF CallWrites
    <3>2. x \notin opened
      BY <1>1, <1>5, <2>1, <3>1
    <3>3. QED  BY <3>2, AfterCall
  <2>3. x \in Opened /\ x.ts \in Nat /\ x.ts <= now
    BY <1>0, <2>2 DEF StillOpen, Opened, Orders, RecordsInv
  <2>4. CASE d \in traded
    <3>1. d.t \in Nat /\ d.t <= now
      BY <1>2, <2>4
    <3>2. Span(traded', x.ts, d.t) = Span(traded, x.ts, d.t)
      <4>1. CASE took
        <5>1. traded' = traded \cup {c}
          BY <1>2, <4>1
        <5>2. QED  BY <1>1, <1>2, <2>3, <3>1, <5>1, SpanGrows
      <4>2. CASE ~took
        BY <1>2, <4>2
      <4>3. QED  BY <4>1, <4>2
    <3>3. Cardinality({e \in traded : x.ts < e.t /\ e.t <= d.t}) >= Settlement
      BY <1>5, <3>2 DEF Span
    <3>4. NoMissedExit
      BY <1>0 DEF ExitsInv
    <3>5. QED  BY <1>5, <2>2, <2>4, <3>3, <3>4 DEF NoMissedExit
  <2>5. CASE took /\ d = c
    <3>1. x.ts >= t - Window /\ x.ts < t
      BY <1>1, <1>5, <2>5
    <3>2. x \in OpenRecords(Read(t))
      BY <1>0, <1>1, <2>2, <3>1, SeenIsRestored
    <3>3. PICK w \in Cursors(obs) : w.ts = x.ts /\ x.order.unlock = w.seq + Settlement
      BY <1>0, <2>3 DEF CountInv
    <3>4. w.seq \in Nat
      BY <1>0 DEF RecordsInv
    <3>5. RestoredSeq(Read(t)) \in Nat /\ RestoredSeq(Read(t)) >= w.seq + Span(traded, x.ts, now)
      BY <1>0, <1>1, <3>1, <3>3, RestoredCounts
    <3>6. Span(traded', x.ts, t) = Span(traded, x.ts, now) + 1
      BY <1>1, <1>2, <2>3, <2>5, <3>1, SpanGrows
    <3>7. Span(traded, x.ts, now) \in Nat
      BY <1>1, <1>2, <2>3, SpanOf
    <3>8. u.seq = RestoredSeq(Read(t)) + 1
      BY <1>0, <2>5 DEF CallWrites
    <3>9. Span(traded, x.ts, now) + 1 >= Settlement
      BY <1>1, <1>5, <2>5, <3>6
    <3>10. x.order.unlock <= u.seq
      BY <1>1, <3>3, <3>4, <3>5, <3>7, <3>8, <3>9
    <3>11. ~\E y \in closed : y.id = x.id
      BY AfterCall
    <3>12. QED  BY <1>0, <2>5, <3>2, <3>10, <3>11 DEF CallWrites
  <2>6. QED  BY <1>3, <2>4, <2>5
<1>6. ASSUME NEW y \in ClosedRecords', NEW d \in traded', d.t = y.ts, ~hit_sl(y.order, d)
      PROVE  y.pnl > 0
  <2>1. CASE y \in ClosedRecords
    <3>1. y.ts <= now /\ y.ts \in Nat
      BY <1>0, <2>1 DEF RecordsInv, ClosedRecords, Orders
    <3>2. d \in traded
      BY <1>1, <1>3, <1>6, <3>1
    <3>3. TakeProfitPays
      BY <1>0 DEF ExitsInv
    <3>4. QED  BY <1>6, <2>1, <3>2, <3>3 DEF TakeProfitPays
  <2>2. CASE y \in closed
    <3>1. y.ts = t /\ (y.pnl > 0 \/ hit_sl(y.order, c))
      BY <1>0, <2>2 DEF CallWrites
    <3>2. d = c
      BY <1>1, <1>2, <1>3, <1>6, <3>1
    <3>3. QED  BY <1>6, <3>1, <3>2
  <2>3. QED  BY <2>1, <2>2, AfterCall
<1>7. NoMissedExit'
  BY <1>5 DEF NoMissedExit, Span
<1>8. TakeProfitPays'
  BY <1>6 DEF TakeProfitPays
<1>9. QED  BY <1>4, <1>7, <1>8 DEF ExitsInv

LEMMA CallKeeps ==
  ASSUME NEW t, NEW c, NEW took \in BOOLEAN, NEW opened, NEW closed, NEW plans, NEW u,
         Called(t, c, took, opened, closed, plans, u)
  PROVE  LiveInv'
<1>1. RecordsInv'
  BY CallRecords
<1>2. OneAtLevel' /\ ClosedKnown'
  BY CallLevels
<1>3. CountInv'
  BY CallCounts
<1>4. ExitsInv'
  BY CallExits
<1>5. QED  BY <1>1, <1>2, <1>3, <1>4 DEF LiveInv

\* The invariant is more than what is promised.
LEMMA LiveSafe == LiveInv => OrdersKept
<1> SUFFICES ASSUME LiveInv PROVE OrdersKept
  OBVIOUS
<1>0. RecordsInv /\ OneAtLevel /\ ClosedKnown /\ CountInv /\ ExitsInv
  BY DEF LiveInv
<1>1. NoDoubleOrder
  <2>1. \A x \in StillOpen : x \in Opened
    BY DEF StillOpen
  <2>2. QED  BY <1>0, <2>1 DEF NoDoubleOrder, OneAtLevel, SameLevel
<1>2. ASSUME NEW x \in Opened, NEW y \in ClosedRecords, x.id = y.id
      PROVE  x.order = y.order /\ Span(traded, x.ts, y.ts) >= Settlement
  <2>1. PICK z \in Opened : z.id = y.id /\ z.order = y.order /\ z.ts <= y.ts
    BY <1>0 DEF ClosedKnown
  <2>2. z = x
    BY <1>0, <1>2, <2>1 DEF RecordsInv
  <2>3. PICK w \in Cursors(obs) : w.ts = x.ts /\ x.order.unlock = w.seq + Settlement
    BY <1>0 DEF CountInv
  <2>4. PICK v \in Cursors(obs) : v.ts = y.ts /\ y.order.unlock <= v.seq
    BY <1>0 DEF CountInv
  <2>5. v.seq <= w.seq + Span(traded, w.ts, v.ts)
    BY <1>0, <2>1, <2>2, <2>3, <2>4 DEF CountInv
  <2>6. w.seq \in Nat /\ v.seq \in Nat /\ w.ts \in Nat /\ v.ts \in Nat /\ Settlement \in Nat
    BY <1>0, KernelParams DEF RecordsInv, Cursors
  <2>7. Span(traded, w.ts, v.ts) \in Nat
    BY <1>0, <2>6, SpanOf DEF RecordsInv
  <2>8. QED  BY <2>1, <2>2, <2>3, <2>4, <2>5, <2>6, <2>7
<1>3. HeldForSettlement
  BY <1>2 DEF HeldForSettlement, Span
<1>4. QED  BY <1>0, <1>1, <1>3 DEF OrdersKept, ExitsInv

-----------------------------------------------------------------------------
(***************************************************************************)
(* The kernel: what one candle closes and opens.                           *)
(***************************************************************************)
LEMMA OneTakeProfit ==
  ASSUME NEW g, GridOk(g), NEW j \in 1..num_levels(g)
  PROVE  /\ g.levels[j] \in Int
         /\ \A tp \in take_profit(g, j) : tp \in Int
         /\ \A p, q \in take_profit(g, j) : p = q
<1>1. PICK n \in Nat : n = num_levels(g) /\ n = Len(g.levels) /\ \A k \in 1..n : g.levels[k] \in Int
  <2>1. g.levels \in Seq(Int)
    BY GridFields DEF GridOk
  <2>2. QED  BY <2>1 DEF num_levels
<1>2. ASSUME NEW long
      PROVE  /\ \A tp \in tp_for_rr(g, j, MinRR, long) : tp \in Int
             /\ \A p, q \in tp_for_rr(g, j, MinRR, long) : p = q
  <2> DEFINE enough == {k \in 1..num_levels(g) :
                          /\ IF long THEN k > j ELSE k < j
                          /\ 100 * (IF long THEN g.levels[k] - g.levels[j] ELSE g.levels[j] - g.levels[k])
                               >= MinRR * g.levels[j] * g.sl_pct}
             nearest == {i \in enough : \A m \in enough : IF long THEN i <= m ELSE i >= m}
  <2>1. tp_for_rr(g, j, MinRR, long) = IF g.sl_pct <= 0 THEN {} ELSE {g.levels[k] : k \in nearest}
    BY DEF tp_for_rr
  <2>2. enough \in SUBSET (1..n)
    BY <1>1
  <2> HIDE DEF enough
  <2>3. \A i, k \in nearest : i = k /\ i \in 1..n
    BY <2>2
  <2> HIDE DEF nearest
  <2>4. QED  BY <1>1, <2>1, <2>3
<1>3. j \in 1..n /\ tp_above(g, j) \in Int /\ tp_below(g, j) \in Int
  BY <1>1 DEF tp_above, tp_below
<1>4. \/ take_profit(g, j) = tp_for_rr(g, j, MinRR, is_long(g, j))
      \/ take_profit(g, j) = {tp_above(g, j)}
      \/ take_profit(g, j) = {tp_below(g, j)}
  <2>1. MinRR \in Nat
    BY KernelParams
  <2>2. CASE MinRR > 0
    BY <2>2 DEF take_profit
  <2>3. CASE MinRR = 0 /\ is_long(g, j)
    BY <2>3 DEF take_profit
  <2>4. CASE MinRR = 0 /\ ~is_long(g, j)
    BY <2>4 DEF take_profit
  <2>5. QED  BY <2>1, <2>2, <2>3, <2>4
<1>5. QED  BY <1>1, <1>2, <1>3, <1>4

LEMMA OrderPays ==
  ASSUME NEW i, NEW g, GridOk(g), NEW j \in 1..num_levels(g), NEW tp \in take_profit(g, j), NEW id, NEW unlock,
         NEW o \in NewOrders(i, g, j, tp, id, unlock)
  PROVE  /\ Pays(o) /\ o.grid = i /\ o.level = j /\ o.unlock = unlock
         /\ NewOrders(i, g, j, tp, id, unlock) = {o}
<1>1. /\ pays_fee(g, j, tp) /\ o.long = is_long(g, j) /\ o.entry = g.levels[j] /\ o.tp = tp
      /\ o.grid = i /\ o.level = j /\ o.unlock = unlock /\ NewOrders(i, g, j, tp, id, unlock) = {o}
  BY DEF NewOrders
<1>2. g.levels[j] \in Int /\ tp \in Int
  BY OneTakeProfit
<1>3. is_long(g, j) \in BOOLEAN
  BY DEF is_long
<1>4. Pays(o)
  BY <1>1, <1>2, <1>3 DEF Pays, pays_fee
<1>5. QED  BY <1>1, <1>4

\* What open_orders places: at most one order at a level, and only at a free one.
LEMMA PlacedFacts ==
  ASSUME NEW id, NEW c, NEW plan, PlanOk(plan), NEW orders, NEW unlock,
         NEW placed, placed = open_orders(id, c, plan, orders, unlock)
  PROVE  /\ IsFiniteSet(placed)
         /\ \A o \in placed : /\ Pays(o) /\ o.unlock = unlock /\ o.grid \in Nat /\ o.level \in Nat
                              /\ ~\E x \in orders : x.grid = o.grid /\ x.level = o.level
         /\ \A o, p \in placed : o.grid = p.grid /\ o.level = p.level => o = p
<1> DEFINE At(i, j) == UNION {NewOrders(i, plan[i], j, tp, id, unlock) : tp \in take_profit(plan[i], j)}
           Free(i) == free_levels(i, plan[i], c, orders)
           Grid(i) == UNION {At(i, j) : j \in Free(i)}
<1>1. placed = UNION {Grid(i) : i \in DOMAIN plan}
  BY DEF open_orders
<1>2. PICK n \in Nat : DOMAIN plan = 1..n /\ \A i \in 1..n : GridOk(plan[i])
  BY DEF PlanOk
<1>3. ASSUME NEW i \in 1..n
      PROVE  /\ num_levels(plan[i]) \in Nat /\ Free(i) \in SUBSET (1..num_levels(plan[i]))
             /\ \A j \in Free(i) : ~\E x \in orders : x.grid = i /\ x.level = j
  <2>1. plan[i].levels \in Seq(Int)
    BY <1>2, GridFields DEF GridOk
  <2>2. num_levels(plan[i]) \in Nat
    BY <2>1 DEF num_levels
  <2>3. QED  BY <2>2 DEF free_levels, touched_levels
<1>4. ASSUME NEW i \in 1..n, NEW j \in Free(i)
      PROVE  /\ \A o \in At(i, j) : Pays(o) /\ o.unlock = unlock /\ o.grid = i /\ o.level = j
             /\ \A o, p \in At(i, j) : o = p
             /\ IsFiniteSet(At(i, j))
  <2>1. GridOk(plan[i]) /\ j \in 1..num_levels(plan[i])
    BY <1>2, <1>3, <1>4
  <2>2. ASSUME NEW o \in At(i, j)
        PROVE  \E tp \in take_profit(plan[i], j) : o \in NewOrders(i, plan[i], j, tp, id, unlock)
    OBVIOUS
  <2> HIDE DEF At
  <2>3. ASSUME NEW o \in At(i, j) PROVE Pays(o) /\ o.unlock = unlock /\ o.grid = i /\ o.level = j
    BY <2>1, <2>2, <2>3, OrderPays
  <2>4. ASSUME NEW o \in At(i, j), NEW p \in At(i, j) PROVE o = p
    <3>1. PICK a \in take_profit(plan[i], j) : o \in NewOrders(i, plan[i], j, a, id, unlock)
      BY <2>2, <2>4
    <3>2. PICK b \in take_profit(plan[i], j) : p \in NewOrders(i, plan[i], j, b, id, unlock)
      BY <2>2, <2>4
    <3>3. a = b
      BY <2>1, OneTakeProfit
    <3>4. NewOrders(i, plan[i], j, a, id, unlock) = {o}
      BY <2>1, <3>1, OrderPays
    <3>5. QED  BY <3>2, <3>3, <3>4
  <2>5. IsFiniteSet(At(i, j))
    <3>1. CASE At(i, j) = {}
      BY <3>1, FS_EmptySet
    <3>2. ASSUME NEW o \in At(i, j) PROVE IsFiniteSet(At(i, j))
      <4>1. At(i, j) = {o}
        BY <2>4, <3>2
      <4>2. QED  BY <4>1, FS_Singleton
    <3>3. QED  BY <3>1, <3>2
  <2>6. QED  BY <2>3, <2>4, <2>5
<1>5. \A o \in placed : \E i \in 1..n : \E j \in Free(i) : o \in At(i, j)
  <2> HIDE DEF At, Free
  <2>1. QED  BY <1>1, <1>2
<1>6. IsFiniteSet(placed)
  <2> HIDE DEF At, Free
  <2>1. ASSUME NEW i \in 1..n PROVE IsFiniteSet(Grid(i))
    <3> DEFINE f == [j \in Free(i) |-> At(i, j)]
    <3>1. IsFiniteSet(Free(i))
      <4>1. IsFiniteSet(1..num_levels(plan[i]))
        BY <1>3, <2>1, FS_Interval
      <4>2. QED  BY <1>3, <2>1, <4>1, FS_Subset
    <3>2. IsFiniteSet({f[j] : j \in Free(i)})
      <4> HIDE DEF f
      <4>1. QED  BY <3>1, ImageFinite
    <3>3. \A T \in {f[j] : j \in Free(i)} : IsFiniteSet(T)
      BY <1>4
    <3>4. Grid(i) = UNION {f[j] : j \in Free(i)}
      OBVIOUS
    <3> HIDE DEF f
    <3>5. IsFiniteSet(UNION {f[j] : j \in Free(i)})
      BY <3>2, <3>3, FS_UNION
    <3>6. QED  BY <3>4, <3>5
  <2> HIDE DEF Grid
  <2> DEFINE f == [i \in 1..n |-> Grid(i)]
  <2>2. IsFiniteSet({f[i] : i \in 1..n})
    <3>1. IsFiniteSet(1..n)
      BY FS_Interval
    <3> HIDE DEF f
    <3>2. QED  BY <3>1, ImageFinite
  <2>3. \A T \in {f[i] : i \in 1..n} : IsFiniteSet(T)
    BY <2>1
  <2>4. placed = UNION {f[i] : i \in 1..n}
    BY <1>1, <1>2
  <2> HIDE DEF f
  <2>5. IsFiniteSet(UNION {f[i] : i \in 1..n})
    BY <2>2, <2>3, FS_UNION
  <2>6. QED  BY <2>4, <2>5
<1> HIDE DEF At, Free, Grid
<1>7. ASSUME NEW o \in placed
      PROVE  /\ Pays(o) /\ o.unlock = unlock /\ o.grid \in Nat /\ o.level \in Nat
             /\ ~\E x \in orders : x.grid = o.grid /\ x.level = o.level
  <2>1. PICK i \in 1..n : \E j \in Free(i) : o \in At(i, j)
    BY <1>5, <1>7
  <2>2. PICK j \in Free(i) : o \in At(i, j)
    BY <2>1
  <2>3. Pays(o) /\ o.unlock = unlock /\ o.grid = i /\ o.level = j
    BY <1>4, <2>2
  <2>4. j \in Nat /\ ~\E x \in orders : x.grid = i /\ x.level = j
    BY <1>3, <2>2
  <2>5. QED  BY <2>3, <2>4
<1>8. ASSUME NEW o \in placed, NEW p \in placed, o.grid = p.grid, o.level = p.level PROVE o = p
  <2>1. PICK i \in 1..n : \E j \in Free(i) : o \in At(i, j)
    BY <1>5, <1>8
  <2>2. PICK j \in Free(i) : o \in At(i, j)
    BY <2>1
  <2>3. PICK k \in 1..n : \E l \in Free(k) : p \in At(k, l)
    BY <1>5, <1>8
  <2>4. PICK l \in Free(k) : p \in At(k, l)
    BY <2>3
  <2>5. i = k /\ j = l
    BY <1>4, <1>8, <2>2, <2>4
  <2>6. QED  BY <1>4, <2>2, <2>4, <2>5
<1>9. QED  BY <1>6, <1>7, <1>8

\* The ids of a call are ids, and differ.
LEMMA PlacedIds ==
  ASSUME NEW t \in Nat, NEW first \in Nat, NEW placed, IsFiniteSet(placed),
         \A o \in placed : o.grid \in Nat /\ o.level \in Nat,
         \A o, p \in placed : o.grid = p.grid /\ o.level = p.level => o = p
  PROVE  /\ \A o \in placed : PlacedId(t, first, placed, o) \in Nat \X Nat /\ PlacedId(t, first, placed, o)[1] = t
         /\ \A o, p \in placed : PlacedId(t, first, placed, o) = PlacedId(t, first, placed, p) => o = p
<1> DEFINE Below(o) == {p \in placed : p.grid < o.grid \/ (p.grid = o.grid /\ p.level < o.level)}
<1>1. ASSUME NEW o \in placed
      PROVE  /\ IsFiniteSet(Below(o)) /\ Cardinality(Below(o)) \in Nat
             /\ PlacedId(t, first, placed, o) = <<t, first + Cardinality(Below(o))>>
  <2>1. Below(o) \in SUBSET placed /\ PlacedId(t, first, placed, o) = <<t, first + Cardinality(Below(o))>>
    BY DEF PlacedId
  <2> HIDE DEF Below
  <2>2. QED  BY <2>1, FS_Subset, FS_CardinalityType
<1>2. ASSUME NEW o \in placed, NEW p \in placed, o.grid < p.grid \/ (o.grid = p.grid /\ o.level < p.level)
      PROVE  Cardinality(Below(o)) # Cardinality(Below(p))
  <2>1. Below(o) \in SUBSET Below(p) /\ o \in Below(p) /\ o \notin Below(o)
    BY <1>2
  <2> HIDE DEF Below
  <2>2. Cardinality(Below(p)) = Cardinality(Below(o)) => Below(p) = Below(o)
    BY <1>1, <2>1, FS_Subset
  <2>3. QED  BY <2>1, <2>2
<1> HIDE DEF Below
<1>3. ASSUME NEW o \in placed, NEW p \in placed, PlacedId(t, first, placed, o) = PlacedId(t, first, placed, p)
      PROVE  o = p
  <2>1. Cardinality(Below(o)) = Cardinality(Below(p))
    BY <1>1, <1>3
  <2>2. ~(o.grid < p.grid \/ (o.grid = p.grid /\ o.level < p.level))
    BY <1>2, <2>1
  <2>3. ~(p.grid < o.grid \/ (p.grid = o.grid /\ p.level < o.level))
    BY <1>2, <2>1
  <2>4. QED  BY <2>2, <2>3
<1>4. QED  BY <1>1, <1>3

\* An exit that is not the stop loss is at the take profit or better.
LEMMA GainAtTakeProfit ==
  ASSUME NEW o, Pays(o), NEW c, c.o \in Int, ~hit_sl(o, c)
  PROVE  net_pnl(o, exit_price(o, c)) > 0
<1>1. o.long \in BOOLEAN /\ o.entry \in Int /\ o.tp \in Int /\ c.o \in Int
  BY DEF Pays
<1> DEFINE e == exit_price(o, c)
<1>2. e \in Int /\ (o.long => e >= o.tp) /\ (~o.long => e <= o.tp)
  <2>1. (hit_sl(o, c) = o.long) <=> ~o.long
    <3>1. hit_sl(o, c) = FALSE
      <4>1. CASE o.long
        <5>1. hit_sl(o, c) = (c.l <= o.sl)
          BY <4>1 DEF hit_sl
        <5>2. ~(c.l <= o.sl)
          BY <4>1 DEF hit_sl
        <5>3. QED  BY <5>1, <5>2
      <4>2. CASE ~o.long
        <5>1. hit_sl(o, c) = (c.h >= o.sl)
          BY <4>2 DEF hit_sl
        <5>2. ~(c.h >= o.sl)
          BY <4>2 DEF hit_sl
        <5>3. QED  BY <5>1, <5>2
      <4>3. QED  BY <4>1, <4>2
    <3>2. QED  BY <1>1, <3>1
  <2>2. e = IF (~o.long /\ c.o < o.tp) \/ (o.long /\ c.o > o.tp) THEN c.o ELSE o.tp
    BY <2>1 DEF exit_price
  <2>3. QED  BY <1>1, <2>2
<1> HIDE DEF e
<1>3. PICK fee \in Int : fee = round_trip_rate * o.entry
  BY <1>1, KernelParams DEF round_trip_rate
<1>4. 100 * (IF o.long THEN o.tp - o.entry ELSE o.entry - o.tp) > fee
  BY <1>3 DEF Pays
<1>5. 100 * (IF o.long THEN e - o.entry ELSE o.entry - e) - fee > 0
  BY <1>1, <1>2, <1>4
<1>6. QED  BY <1>3, <1>5 DEF net_pnl, e

-----------------------------------------------------------------------------
(***************************************************************************)
(* A call of the kernel.                                                   *)
(***************************************************************************)
SessionFields == {"orders", "history", "plan", "review_at", "candle_seq", "candle_id", "candle_ts", "next_ts"}
Session(s) == SessionFields \subseteq DOMAIN s

LEMMA RestoredIs ==
  ASSUME NEW seen, NEW t
  PROVE  LET s == Restored(seen, t)
         IN  /\ Session(s)
             /\ s.orders = {x.order : x \in OpenRecords(seen)}
             /\ s.candle_seq = RestoredSeq(seen)
             /\ s.candle_ts = MaxOf(cursor_ts, Cursors(seen))
             /\ s.plan = RestoredPlan(seen) /\ s.review_at = RestoredReview(seen) /\ s.next_ts = t
             /\ s.history = from_observations(seen).history
  BY DEF Restored, from_observations, NewSession, Session, SessionFields

LEMMA TradeIs ==
  ASSUME NEW s, Session(s), PlanOk(s.plan), IsFiniteSet(s.orders), NEW c, NEW rebuilt,
         NEW r, r = TradeCandle(s, c, rebuilt), NEW seq, seq = s.candle_seq + 1
  PROVE  /\ r.session.candle_seq = seq /\ r.session.candle_ts = c.t /\ PlanOk(r.session.plan)
         /\ \A o : o \in r.session.orders <=> (o \in s.orders /\ ~check_order_exit(o, c, seq)) \/ o \in r.placed
         /\ r.session.history = s.history \cup r.closed /\ r.session.review_at = s.review_at
         /\ r.rebuilt = rebuilt /\ (r.closed = {} => r.session.plan = s.plan)
         /\ \A x : x \in r.closed <=> \E o \in s.orders : check_order_exit(o, c, seq) /\ x = Closed(o, c)
         /\ \E plan, kept : /\ PlanOk(plan)
                            /\ \A o \in s.orders : ~check_order_exit(o, c, seq) => o \in kept
                            /\ r.placed = open_orders(s.candle_id, c, plan, kept, seq + Settlement)
<1> DEFINE closed == {Closed(o, c) : o \in {x \in s.orders : check_order_exit(x, c, seq)}}
           kept == {o \in s.orders : ~check_order_exit(o, c, seq)}
           plan == BookOutcomes(s.plan, closed)
           placed == open_orders(s.candle_id, c, plan, kept, seq + Settlement)
           after == [s EXCEPT !.candle_seq = seq, !.plan = plan, !.orders = kept \cup placed,
                              !.history = @ \cup closed, !.candle_id = @ + 1, !.candle_ts = c.t,
                              !.next_ts = calendar_next(c.t)]
<1>1. r.session = after /\ r.closed = closed /\ r.placed = placed /\ r.rebuilt = rebuilt
  BY DEF TradeCandle, Result
<1>2. /\ after.candle_seq = seq /\ after.candle_ts = c.t /\ after.plan = plan
      /\ after.orders = kept \cup placed /\ after.history = s.history \cup closed /\ after.review_at = s.review_at
  <2> HIDE DEF closed, kept, plan, placed
  <2>1. QED  BY DEF Session, SessionFields
<1>3. PlanOk(plan) /\ (closed = {} => plan = s.plan)
  <2> DEFINE f == [o \in s.orders |-> Closed(o, c)]
  <2>1. closed \in SUBSET {f[o] : o \in s.orders}
    OBVIOUS
  <2> HIDE DEF f, closed
  <2>2. IsFiniteSet({f[o] : o \in s.orders})
    BY ImageFinite
  <2>3. IsFiniteSet(closed)
    BY <2>1, <2>2, FS_Subset
  <2>4. QED  BY <2>3, BookedPlanOk
<1>4. \A x : x \in closed <=> \E o \in s.orders : check_order_exit(o, c, seq) /\ x = Closed(o, c)
  OBVIOUS
<1>5. \A o \in s.orders : ~check_order_exit(o, c, seq) => o \in kept
  OBVIOUS
<1>6. \A o : o \in kept \cup placed <=> (o \in s.orders /\ ~check_order_exit(o, c, seq)) \/ o \in placed
  OBVIOUS
<1> HIDE DEF after, plan, closed, kept
<1>7. QED  BY <1>1, <1>2, <1>3, <1>4, <1>5, <1>6

\* A call that took no candle, and one that did.
Reviewed(k, s, rebuilt) == /\ k.orders = s.orders /\ k.history = s.history /\ k.candle_seq = s.candle_seq
                           /\ k.review_at \in Nat /\ k.review_at >= s.review_at
                           /\ PlanOk(k.plan) /\ (~rebuilt => k.plan = s.plan)
Idled(r, s) == /\ r.closed = {} /\ r.placed = {} /\ Reviewed(r.session, s, r.rebuilt)
               /\ r.session.candle_ts = s.candle_ts
Took(r, s, c) == \E k, b : /\ Session(k) /\ Reviewed(k, s, b) /\ r = TradeCandle(k, c, b)

\* A call takes its candle, or leaves the session as far as records tell.
LEMMA ForwardIs ==
  ASSUME NEW s, Session(s), PlanOk(s.plan), NEW c, c.t \in Nat, s.candle_ts \in Nat, s.candle_ts < c.t,
         s.review_at \in Nat, s.next_ts \in Nat, NEW outcome \in Outcomes(s), NEW r, r = forward(s, {c}, outcome[1], outcome[2])
  PROVE  Idled(r, s) \/ Took(r, s, c)
<1> DEFINE k == IF rebuild_due(s) THEN Rebuild(s, outcome[2]) ELSE s
           b == rebuild_due(s)
           idle == Result([k EXCEPT !.next_ts = calendar_next(@)], b, {}, {}, FALSE)
<1>0. rebuild_due(s) => strategy_next(s.next_ts) \in Nat /\ strategy_next(s.next_ts) >= s.review_at
  BY KernelParams DEF rebuild_due, strategy_next
<1>1. CASE rebuild_due(s) /\ outcome[1]
  <2>1. r = FailedRebuild(s)
    BY <1>1 DEF forward
  <2>2. /\ r.closed = {} /\ r.placed = {} /\ r.session.plan = s.plan
        /\ r.session.candle_seq = s.candle_seq /\ r.session.candle_ts = s.candle_ts
        /\ r.session.orders = s.orders /\ r.session.history = s.history
        /\ r.session.review_at = strategy_next(s.next_ts)
    BY <2>1 DEF FailedRebuild, Result, Session, SessionFields
  <2>3. QED  BY <1>0, <1>1, <2>2 DEF Idled, Reviewed
<1>2. CASE ~(rebuild_due(s) /\ outcome[1])
  <2>1. Session(k) /\ Reviewed(k, s, b) /\ k.candle_ts = s.candle_ts
    <3>1. CASE rebuild_due(s)
      <4>1. outcome[2] \in Plans
        <5>1. outcome \in {<<TRUE, <<>>>>} \cup ({FALSE} \X Plans)
          BY <3>1 DEF Outcomes
        <5>2. outcome # <<TRUE, <<>>>>
          <6> SUFFICES ASSUME outcome = <<TRUE, <<>>>> PROVE FALSE
            OBVIOUS
          <6>1. outcome[1] = TRUE
            OBVIOUS
          <6>2. QED  BY <1>2, <3>1, <6>1
        <5>3. QED  BY <5>1, <5>2
      <4>2. PlanOk(to_grids(outcome[2], s.plan))
        BY <4>1, ToGridsOk
      <4>3. k = [s EXCEPT !.review_at = strategy_next(s.next_ts), !.plan = to_grids(outcome[2], s.plan),
                          !.candle_id = 0]
        BY <3>1 DEF Rebuild
      <4> HIDE DEF k
      <4>4. /\ DOMAIN k = DOMAIN s /\ k.plan = to_grids(outcome[2], s.plan) /\ k.orders = s.orders
            /\ k.candle_seq = s.candle_seq /\ k.candle_ts = s.candle_ts /\ k.history = s.history
            /\ k.review_at = strategy_next(s.next_ts)
        BY <4>3 DEF Session, SessionFields
      <4>5. QED  BY <1>0, <3>1, <4>2, <4>4 DEF Session, Reviewed
    <3>2. CASE ~rebuild_due(s)
      <4>1. k = s /\ s.review_at >= s.review_at
        BY <3>2
      <4>2. QED  BY <4>1 DEF Reviewed
    <3>3. QED  BY <3>1, <3>2
  <2>2. PICK lo, hi : r = Advance(k, {d \in {c} : lo <= d.t /\ d.t < hi}, b)
    BY <1>2 DEF forward
  <2> HIDE DEF k, b
  <2>3. \/ r = idle
        \/ r = TradeCandle(k, c, b)
    <3> DEFINE fresh == {d \in {d \in {c} : lo <= d.t /\ d.t < hi} : d.t > k.candle_ts}
    <3>1. CASE fresh = {}
      BY <2>2, <3>1 DEF Advance
    <3>2. CASE fresh = {c}
      <4>1. (CHOOSE d \in fresh : \A e \in fresh : d.t <= e.t) = c
        BY <3>2
      <4>2. r = TradeCandle(k, CHOOSE d \in fresh : \A e \in fresh : d.t <= e.t, b)
        BY <2>2, <3>2 DEF Advance
      <4> HIDE DEF fresh
      <4>3. QED  BY <4>1, <4>2
    <3>3. fresh = {} \/ fresh = {c}
      OBVIOUS
    <3>4. QED  BY <3>1, <3>2, <3>3
  <2>4. CASE r = idle
    <3>1. PICK moved : moved = [k EXCEPT !.next_ts = calendar_next(@)]
      OBVIOUS
    <3>2. idle.closed = {} /\ idle.placed = {} /\ idle.session = moved /\ idle.rebuilt = b
      BY <3>1 DEF Result
    <3>3. /\ moved.plan = k.plan /\ moved.candle_seq = k.candle_seq /\ moved.candle_ts = k.candle_ts
          /\ moved.orders = k.orders /\ moved.history = k.history /\ moved.review_at = k.review_at
      BY <2>1, <3>1 DEF Session, SessionFields
    <3>4. QED  BY <2>1, <2>4, <3>2, <3>3 DEF Idled, Reviewed
  <2>5. CASE r = TradeCandle(k, c, b)
    BY <2>1, <2>5 DEF Took
  <2>6. QED  BY <2>3, <2>4, <2>5
<1>3. QED  BY <1>1, <1>2

\* The last review and the last number that some cursors hold.
LEMMA LastReview ==
  ASSUME NEW C, IsFiniteSet(C), \A x \in C : x.review \in Nat
  PROVE  LET m == MaxOf(cursor_review, C)
         IN  m \in Nat /\ (\A x \in C : x.review <= m) /\ (m = 0 \/ \E x \in C : x.review = m)
<1> DEFINE f == [x \in C |-> x.review]
           T == {cursor_review(x) : x \in C} \cup {0}
<1>1. \A x \in C : f[x] = x.review /\ f[x] \in Nat
  OBVIOUS
<1>2. \A y : y \in T <=> y = 0 \/ \E x \in C : y = f[x]
  BY DEF cursor_review
<1>3. MaxOf(cursor_review, C) = Max(T)
  BY DEF MaxOf
<1> HIDE DEF f, T
<1>4. /\ Max(T) \in Nat /\ (\A x \in C : f[x] <= Max(T))
      /\ Max(T) = 0 \/ \E x \in C : f[x] = Max(T)
  BY <1>1, <1>2, MaxOfRecords
<1>5. QED  BY <1>1, <1>3, <1>4

LEMMA LastSeq ==
  ASSUME NEW C, IsFiniteSet(C), \A x \in C : x.seq \in Nat
  PROVE  LET m == MaxOf(cursor_seq, C)
         IN  m \in Nat /\ (\A x \in C : x.seq <= m) /\ (m = 0 \/ \E x \in C : x.seq = m)
<1> DEFINE f == [x \in C |-> x.seq]
           T == {cursor_seq(x) : x \in C} \cup {0}
<1>1. \A x \in C : f[x] = x.seq /\ f[x] \in Nat
  OBVIOUS
<1>2. \A y : y \in T <=> y = 0 \/ \E x \in C : y = f[x]
  BY DEF cursor_seq
<1>3. MaxOf(cursor_seq, C) = Max(T)
  BY DEF MaxOf
<1> HIDE DEF f, T
<1>4. /\ Max(T) \in Nat /\ (\A x \in C : f[x] <= Max(T))
      /\ Max(T) = 0 \/ \E x \in C : f[x] = Max(T)
  BY <1>1, <1>2, MaxOfRecords
<1>5. QED  BY <1>1, <1>3, <1>4

\* What restoring finds out about the time and the next number.
LEMMA RestoredBefore ==
  ASSUME LiveInv, NEW t, t = now + Step
  PROVE  LET seen == Read(t)
         IN  /\ t \in Nat /\ now < t /\ IsFiniteSet(seen)
             /\ MaxOf(cursor_ts, Cursors(seen)) \in Nat /\ MaxOf(cursor_ts, Cursors(seen)) < t
             /\ next_id(seen) \in Nat
             /\ PlanOk(RestoredPlan(seen))
             /\ RestoredSeq(seen) \in Nat /\ RestoredReview(seen) \in Nat
<1> DEFINE seen == Read(t)
<1>0. RecordsInv /\ CountInv
  BY DEF LiveInv
<1>1. now \in Nat /\ Step \in Nat \ {0} /\ t \in Nat /\ now < t
  BY <1>0, KernelParams DEF RecordsInv
<1>2. seen \in SUBSET obs /\ IsFiniteSet(seen)
  <2>1. seen \in SUBSET obs
    BY DEF Read
  <2> HIDE DEF seen
  <2>2. QED  BY <1>0, <2>1, FS_Subset DEF RecordsInv
<1>3. MaxOf(cursor_ts, Cursors(seen)) \in Nat /\ MaxOf(cursor_ts, Cursors(seen)) < t
  <2> DEFINE C == Cursors(seen)
             f == [x \in C |-> x.ts]
             T == {cursor_ts(x) : x \in C} \cup {0}
  <2>1. C \in SUBSET seen
    BY DEF Cursors
  <2>2. IsFiniteSet(C)
    <3> HIDE DEF C, seen
    <3>1. QED  BY <1>2, <2>1, FS_Subset
  <2>3. \A x \in C : f[x] = x.ts /\ f[x] \in Nat /\ f[x] <= now
    BY <1>0, <1>2, <2>1 DEF RecordsInv
  <2>4. \A y : y \in T <=> y = 0 \/ \E x \in C : y = f[x]
    BY DEF cursor_ts
  <2>5. MaxOf(cursor_ts, Cursors(seen)) = Max(T)
    BY DEF MaxOf
  <2> HIDE DEF C, f, T
  <2>6. Max(T) \in Nat /\ (Max(T) = 0 \/ \E x \in C : f[x] = Max(T))
    BY <2>2, <2>3, <2>4, MaxOfRecords
  <2>7. QED  BY <1>1, <2>3, <2>5, <2>6
<1>4. next_id(seen) \in Nat
  <2> DEFINE O == Orders(seen)
             f == [x \in O |-> x.id[2] + 1]
             T == {f[x] : x \in O} \cup {1}
  <2>1. O \in SUBSET seen /\ O \in SUBSET Orders(obs)
    BY <1>2 DEF Orders
  <2>2. IsFiniteSet(O)
    <3> HIDE DEF O, seen
    <3>1. QED  BY <1>2, <2>1, FS_Subset
  <2>3. \A x \in O : f[x] \in Nat
    <3>1. \A x \in O : x.id \in Nat \X Nat
      BY <1>0, <2>1 DEF RecordsInv
    <3>2. \A x \in O : x.id[2] \in Nat
      BY <3>1
    <3>3. QED  BY <3>2
  <2>4. T = {x.id[2] + 1 : x \in Orders(seen)} \cup {1}
    OBVIOUS
  <2>5. next_id(seen) = Max(T)
    BY <2>4 DEF next_id
  <2> HIDE DEF O, f
  <2>6. IsFiniteSet({f[x] : x \in O})
    BY <2>2, ImageFinite
  <2>7. IsFiniteSet(T) /\ T \in SUBSET Nat /\ T # {}
    BY <2>3, <2>6, FS_AddElement
  <2> HIDE DEF T
  <2>8. Max(T) \in T
    BY <2>7, GreatestOf
  <2>9. QED  BY <2>5, <2>7, <2>8
<1>5. PlanOk(RestoredPlan(seen))
  <2>1. \A x \in PlanRecords(seen) : PlanOk(x.plan) /\ x.ts \in Nat
    BY <1>0, <1>2 DEF RecordsInv, PlanRecords, PlanRecord
  <2> HIDE DEF seen
  <2>2. QED  BY <1>2, <2>1, RestoredPlanOk
<1>6. RestoredSeq(seen) \in Nat
  BY <1>0, RestoredCounts
<1>7. RestoredReview(seen) \in Nat
  <2>1. IsFiniteSet(Cursors(seen)) /\ \A x \in Cursors(seen) : x.review \in Nat
    <3>1. Cursors(seen) \in SUBSET seen /\ Cursors(seen) \in SUBSET Cursors(obs)
      BY <1>2 DEF Cursors
    <3> HIDE DEF seen
    <3>2. QED  BY <1>0, <1>2, <3>1, FS_Subset DEF RecordsInv
  <2> HIDE DEF seen
  <2>2. MaxOf(cursor_review, Cursors(seen)) \in Nat
    BY <2>1, LastReview
  <2>3. QED  BY <2>2 DEF RestoredReview
<1>8. QED  BY <1>1, <1>2, <1>3, <1>4, <1>5, <1>6, <1>7

-----------------------------------------------------------------------------
(***************************************************************************)
(* The steps.                                                              *)
(***************************************************************************)
PlacedRecords(t, seen, r) == {open_observation(t, PlacedId(t, next_id(seen), r.placed, o), o) : o \in r.placed}
ExitRecords(seen, r) == {closed_observation(ClosedId(seen, next_id(seen), x), x) : x \in r.closed}

\* The restored orders that stay open, and the trades that closed records stand for.
StillHeld(seen, closed) == {q.order : q \in {p \in OpenRecords(seen) : \A y \in closed : y.id # p.id}}
Trades(closed) == {[order |-> y.order, exit |-> y.exit, pnl |-> y.pnl, t |-> y.ts] : y \in closed}

\* The records of a candle that was taken.
LEMMA TradeWrites ==
  ASSUME LiveInv, NEW t, t = now + Step, NEW c, c.t = t, c.o \in Int,
         NEW k, Session(k), PlanOk(k.plan), k.orders = {x.order : x \in OpenRecords(Read(t))},
         k.candle_seq = RestoredSeq(Read(t)), NEW b, NEW r, r = TradeCandle(k, c, b)
  PROVE  LET seen == Read(t)
             seq == RestoredSeq(seen) + 1
             opened == PlacedRecords(t, seen, r)
             closed == ExitRecords(seen, r)
         IN  /\ r.session.candle_seq = seq /\ r.session.candle_ts = t /\ PlanOk(r.session.plan)
             /\ r.session.orders = StillHeld(seen, closed) \cup {x.order : x \in opened}
             /\ r.session.history = k.history \cup Trades(closed)
             /\ r.session.review_at = k.review_at /\ r.rebuilt = b /\ (r.closed = {} => r.session.plan = k.plan)
             /\ IsFiniteSet(opened) /\ IsFiniteSet(closed)
             /\ \A x \in opened : /\ x.kind = "order" /\ x.status = "open" /\ x.ts = t
                                  /\ x.id \in Nat \X Nat /\ x.id[1] = t
                                  /\ x.order.unlock = seq + Settlement /\ Pays(x.order)
             /\ \A x, y \in opened : (x.id = y.id => x = y) /\ (SameLevel(x, y) => x = y)
             /\ \A x \in opened, q \in OpenRecords(seen) : SameLevel(x, q) => \E y \in closed : y.id = q.id
             /\ \A y \in closed : /\ y.kind = "order" /\ y.status = "closed" /\ y.ts = t
                                  /\ y.pnl > 0 \/ hit_sl(y.order, c)
                                  /\ \E q \in OpenRecords(seen) : q.id = y.id /\ q.order = y.order
                                                                   /\ q.order.unlock <= seq
             /\ \A q \in OpenRecords(seen) :
                  (q.order.unlock <= seq /\ (hit_sl(q.order, c) \/ hit_tp(q.order, c)))
                     => \E y \in closed : y.id = q.id
<1> DEFINE seen == Read(t)
           seq == RestoredSeq(seen) + 1
           opened == PlacedRecords(t, seen, r)
           closed == ExitRecords(seen, r)
           first == next_id(seen)
           Id(o) == PlacedId(t, first, r.placed, o)
<1>1. /\ t \in Nat /\ first \in Nat /\ IsFiniteSet(seen) /\ RestoredSeq(seen) \in Nat
      /\ \A q \in OpenRecords(seen) : /\ q \in Opened
                                      /\ \A p \in OpenRecords(seen) : SameLevel(p, q) => p = q
  BY RestoredBefore, RestoredOnRecord
<1>2. /\ r.session.candle_seq = seq /\ r.session.candle_ts = t /\ PlanOk(r.session.plan)
      /\ \A o : o \in r.session.orders <=> (o \in k.orders /\ ~check_order_exit(o, c, seq)) \/ o \in r.placed
      /\ r.session.history = k.history \cup r.closed /\ r.session.review_at = k.review_at
      /\ r.rebuilt = b /\ (r.closed = {} => r.session.plan = k.plan)
      /\ \A x : x \in r.closed <=> \E o \in k.orders : check_order_exit(o, c, seq) /\ x = Closed(o, c)
      /\ \E plan, kept : /\ PlanOk(plan)
                         /\ \A o \in k.orders : ~check_order_exit(o, c, seq) => o \in kept
                         /\ r.placed = open_orders(k.candle_id, c, plan, kept, seq + Settlement)
  <2>1. seq = k.candle_seq + 1
    OBVIOUS
  <2> HIDE DEF seq
  <2>2. IsFiniteSet(k.orders)
    <3> DEFINE f == [q \in OpenRecords(seen) |-> q.order]
    <3>1. OpenRecords(seen) \in SUBSET seen /\ k.orders = {f[q] : q \in OpenRecords(seen)}
      BY DEF OpenRecords, Orders
    <3> HIDE DEF f, seen
    <3>2. IsFiniteSet(OpenRecords(seen))
      BY <1>1, <3>1, FS_Subset
    <3>3. IsFiniteSet({f[q] : q \in OpenRecords(seen)})
      BY <3>2, ImageFinite
    <3>4. QED  BY <3>1, <3>3
  <2>0. Session(k) /\ PlanOk(k.plan) /\ r = TradeCandle(k, c, b)
    OBVIOUS
  <2>3. /\ r.session.candle_seq = seq /\ r.session.candle_ts = c.t /\ PlanOk(r.session.plan)
        /\ \A o : o \in r.session.orders <=> (o \in k.orders /\ ~check_order_exit(o, c, seq)) \/ o \in r.placed
        /\ r.session.history = k.history \cup r.closed /\ r.session.review_at = k.review_at
        /\ r.rebuilt = b /\ (r.closed = {} => r.session.plan = k.plan)
    BY ONLY <2>0, <2>1, <2>2, TradeIs
  <2>4. /\ \A x : x \in r.closed <=> \E o \in k.orders : check_order_exit(o, c, seq) /\ x = Closed(o, c)
        /\ \E plan, kept : /\ PlanOk(plan)
                           /\ \A o \in k.orders : ~check_order_exit(o, c, seq) => o \in kept
                           /\ r.placed = open_orders(k.candle_id, c, plan, kept, seq + Settlement)
    BY ONLY <2>0, <2>1, <2>2, TradeIs
  <2>5. QED  BY <2>3, <2>4
<1> HIDE DEF seen
<1>3. /\ IsFiniteSet(r.placed)
      /\ \A o \in r.placed : /\ Pays(o) /\ o.unlock = seq + Settlement /\ o.grid \in Nat /\ o.level \in Nat
                             /\ \A x \in k.orders : /\ ~check_order_exit(x, c, seq)
                                                    => ~(x.grid = o.grid /\ x.level = o.level)
      /\ \A o, p \in r.placed : o.grid = p.grid /\ o.level = p.level => o = p
  <2> HIDE DEF seq
  <2>1. PICK plan, kept : /\ PlanOk(plan)
                          /\ \A o \in k.orders : ~check_order_exit(o, c, seq) => o \in kept
                          /\ r.placed = open_orders(k.candle_id, c, plan, kept, seq + Settlement)
    BY <1>2
  <2>2. /\ IsFiniteSet(r.placed)
        /\ \A o \in r.placed : /\ Pays(o) /\ o.unlock = seq + Settlement /\ o.grid \in Nat /\ o.level \in Nat
                               /\ ~\E x \in kept : x.grid = o.grid /\ x.level = o.level
        /\ \A o, p \in r.placed : o.grid = p.grid /\ o.level = p.level => o = p
    BY <2>1, PlacedFacts
  <2>3. QED  BY <2>1, <2>2
<1>4. /\ \A o \in r.placed : Id(o) \in Nat \X Nat /\ Id(o)[1] = t
      /\ \A o, p \in r.placed : Id(o) = Id(p) => o = p
  <2>1. PICK placed : placed = r.placed
    OBVIOUS
  <2>2. /\ IsFiniteSet(placed) /\ \A o \in placed : o.grid \in Nat /\ o.level \in Nat
        /\ \A o, p \in placed : o.grid = p.grid /\ o.level = p.level => o = p
    BY <1>3, <2>1
  <2>3. t \in Nat /\ first \in Nat
    BY <1>1
  <2> HIDE DEF first
  <2>4. /\ \A o \in placed : PlacedId(t, first, placed, o) \in Nat \X Nat /\ PlacedId(t, first, placed, o)[1] = t
        /\ \A o, p \in placed : PlacedId(t, first, placed, o) = PlacedId(t, first, placed, p) => o = p
    BY ONLY <2>2, <2>3, PlacedIds
  <2>5. QED  BY <2>1, <2>4
<1>5. \A x \in opened : \E o \in r.placed : x = open_observation(t, Id(o), o)
  BY DEF PlacedRecords
\* Each closed order is a restored one, under whose id it is written.
<1>6. ASSUME NEW q \in OpenRecords(seen)
      PROVE  ClosedId(seen, first, Closed(q.order, c)) = q.id
  <2> DEFINE mine == {p \in OpenRecords(seen) : p.order.grid = q.order.grid /\ p.order.level = q.order.level}
  <2>1. mine = {q}
    BY <1>1, <1>6 DEF SameLevel
  <2>2. ClosedId(seen, first, Closed(q.order, c))
          = IF mine = {} THEN <<Closed(q.order, c).t, first>> ELSE (CHOOSE p \in mine : TRUE).id
    BY DEF ClosedId, Closed
  <2>3. (CHOOSE p \in mine : TRUE) = q
    BY <2>1
  <2> HIDE DEF mine
  <2>4. QED  BY <2>1, <2>2, <2>3
<1>7. k.orders = {x.order : x \in OpenRecords(seen)}
  BY DEF seen
<1>8. \A y \in closed : \E q \in OpenRecords(seen) :
         check_order_exit(q.order, c, seq) /\ y = closed_observation(q.id, Closed(q.order, c))
  <2> HIDE DEF seq, first
  <2>1. \A y \in closed : \E x \in r.closed : y = closed_observation(ClosedId(seen, next_id(seen), x), x)
    BY DEF ExitRecords
  <2>2. ASSUME NEW x \in r.closed
        PROVE  \E q \in OpenRecords(seen) : check_order_exit(q.order, c, seq) /\ x = Closed(q.order, c)
    <3>1. PICK o \in k.orders : check_order_exit(o, c, seq) /\ x = Closed(o, c)
      BY <1>2
    <3>2. PICK q \in OpenRecords(seen) : q.order = o
      BY <1>7
    <3>3. QED  BY <3>1, <3>2
  <2> HIDE DEF closed
  <2>3. QED  BY <1>6, <2>1, <2>2 DEF first
<1>9. ASSUME NEW q \in OpenRecords(seen), check_order_exit(q.order, c, seq)
      PROVE  \E y \in closed : y.id = q.id
  <2> HIDE DEF seq
  <2>1. Closed(q.order, c) \in r.closed
    BY <1>2, <1>7, <1>9
  <2>2. closed_observation(q.id, Closed(q.order, c)) \in closed
    BY <1>6, <2>1 DEF ExitRecords
  <2>3. closed_observation(q.id, Closed(q.order, c)).id = q.id
    BY DEF closed_observation
  <2> HIDE DEF closed
  <2>4. QED  BY <2>2, <2>3
<1>10. IsFiniteSet(opened)
  <2> DEFINE f == [o \in r.placed |-> open_observation(t, Id(o), o)]
  <2>1. opened = {f[o] : o \in r.placed}
    BY DEF PlacedRecords
  <2> HIDE DEF f
  <2>2. QED  BY <1>3, <2>1, ImageFinite
<1>11. IsFiniteSet(closed)
  <2> DEFINE f == [q \in OpenRecords(seen) |-> closed_observation(q.id, Closed(q.order, c))]
  <2>1. IsFiniteSet(OpenRecords(seen))
    <3>1. OpenRecords(seen) \in SUBSET seen
      BY DEF OpenRecords, Orders
    <3>2. QED  BY <1>1, <3>1, FS_Subset
  <2>2. closed \in SUBSET {f[q] : q \in OpenRecords(seen)}
    <3> HIDE DEF closed
    <3>1. QED  BY <1>8
  <2> HIDE DEF f, closed
  <2>3. IsFiniteSet({f[q] : q \in OpenRecords(seen)})
    BY <2>1, ImageFinite
  <2>4. QED  BY <2>2, <2>3, FS_Subset
<1> HIDE DEF opened, closed, Id
<1>12. ASSUME NEW x \in opened
       PROVE  \E o \in r.placed : /\ x.kind = "order" /\ x.status = "open" /\ x.ts = t
                                  /\ x.id = Id(o) /\ x.order = o /\ x = open_observation(t, Id(o), o)
  BY <1>5, <1>12 DEF open_observation
<1>13. ASSUME NEW x \in opened
       PROVE  /\ x.kind = "order" /\ x.status = "open" /\ x.ts = t
              /\ x.id \in Nat \X Nat /\ x.id[1] = t
              /\ x.order.unlock = seq + Settlement /\ Pays(x.order)
  <2>1. PICK o \in r.placed : /\ x.kind = "order" /\ x.status = "open" /\ x.ts = t
                              /\ x.id = Id(o) /\ x.order = o
    BY <1>12, <1>13
  <2> HIDE DEF seq
  <2>2. QED  BY <1>3, <1>4, <2>1
<1>14. ASSUME NEW x \in opened, NEW y \in opened PROVE (x.id = y.id => x = y) /\ (SameLevel(x, y) => x = y)
  <2>1. PICK o \in r.placed : x.id = Id(o) /\ x.order = o /\ x = open_observation(t, Id(o), o)
    BY <1>12, <1>14
  <2>2. PICK p \in r.placed : y.id = Id(p) /\ y.order = p /\ y = open_observation(t, Id(p), p)
    BY <1>12, <1>14
  <2>3. x.id = y.id => o = p
    BY <1>4, <2>1, <2>2
  <2>4. SameLevel(x, y) => o = p
    BY <1>3, <2>1, <2>2 DEF SameLevel
  <2>5. QED  BY <2>1, <2>2, <2>3, <2>4
<1>15. ASSUME NEW x \in opened, NEW q \in OpenRecords(seen), SameLevel(x, q) PROVE \E y \in closed : y.id = q.id
  <2>1. x.order \in r.placed
    BY <1>12, <1>15
  <2>2. q.order \in k.orders
    BY <1>7, <1>15
  <2>3. x.order.grid = q.order.grid /\ x.order.level = q.order.level
    BY <1>15 DEF SameLevel
  <2> HIDE DEF seq
  <2>4. check_order_exit(q.order, c, seq)
    BY <1>3, <2>1, <2>2, <2>3
  <2>5. QED  BY <1>9, <1>15, <2>4
<1>16. ASSUME NEW y \in closed
       PROVE  /\ y.kind = "order" /\ y.status = "closed" /\ y.ts = t
              /\ y.pnl > 0 \/ hit_sl(y.order, c)
              /\ \E q \in OpenRecords(seen) : q.id = y.id /\ q.order = y.order /\ q.order.unlock <= seq
  <2>1. PICK q \in OpenRecords(seen) :
          check_order_exit(q.order, c, seq) /\ y = closed_observation(q.id, Closed(q.order, c))
    BY <1>8, <1>16
  <2>2. /\ y.kind = "order" /\ y.status = "closed" /\ y.ts = t /\ y.id = q.id /\ y.order = q.order
        /\ y.pnl = net_pnl(q.order, exit_price(q.order, c))
    BY <2>1 DEF closed_observation, Closed
  <2>3. Pays(q.order)
    BY <1>1 DEF LiveInv, ExitsInv
  <2>4. ~hit_sl(q.order, c) => y.pnl > 0
    BY <2>2, <2>3, GainAtTakeProfit
  <2>5. q.order.unlock <= seq
    <3>1. seq >= q.order.unlock
      BY <2>1 DEF check_order_exit
    <3>2. PICK w \in Cursors(obs) : q.order.unlock = w.seq + Settlement
      BY <1>1 DEF LiveInv, CountInv
    <3>3. q.order.unlock \in Nat /\ seq \in Nat
      BY <1>1, <3>2, KernelParams DEF LiveInv, RecordsInv
    <3>4. QED  BY <3>1, <3>3
  <2>6. QED  BY <2>2, <2>4, <2>5
<1>17. ASSUME NEW q \in OpenRecords(seen), q.order.unlock <= seq, hit_sl(q.order, c) \/ hit_tp(q.order, c)
       PROVE  \E y \in closed : y.id = q.id
  <2>1. seq >= q.order.unlock
    <3>1. PICK w \in Cursors(obs) : q.order.unlock = w.seq + Settlement
      BY <1>1 DEF LiveInv, CountInv
    <3>2. q.order.unlock \in Nat /\ seq \in Nat
      BY <1>1, <3>1, KernelParams DEF LiveInv, RecordsInv
    <3>3. QED  BY <1>17, <3>2
  <2>2. check_order_exit(q.order, c, seq)
    BY <1>17, <2>1 DEF check_order_exit
  <2>3. QED  BY <1>9, <1>17, <2>2
<1>18. r.session.orders = StillHeld(seen, closed) \cup {x.order : x \in opened}
  <2>1. r.placed = {x.order : x \in opened}
    <3>1. \A o \in r.placed : open_observation(t, Id(o), o) \in opened /\ open_observation(t, Id(o), o).order = o
      BY DEF opened, Id, PlacedRecords, open_observation
    <3>2. \A x \in opened : x.order \in r.placed
      BY <1>12
    <3>3. QED  BY <3>1, <3>2
  <2>2. ASSUME NEW q \in OpenRecords(seen)
        PROVE  check_order_exit(q.order, c, seq) <=> \E y \in closed : y.id = q.id
    <3> HIDE DEF seq
    <3>1. ASSUME NEW y \in closed, y.id = q.id PROVE check_order_exit(q.order, c, seq)
      <4>1. PICK p \in OpenRecords(seen) :
              check_order_exit(p.order, c, seq) /\ y = closed_observation(p.id, Closed(p.order, c))
        BY <1>8
      <4>2. p.id = q.id
        BY <3>1, <4>1 DEF closed_observation
      <4>3. p = q
        BY <1>1, <4>2 DEF LiveInv, RecordsInv
      <4>4. QED  BY <4>1, <4>3
    <3>2. QED  BY <1>9, <3>1
  <2> HIDE DEF seq
  <2>3. \A o : o \in StillHeld(seen, closed) <=> o \in k.orders /\ ~check_order_exit(o, c, seq)
    <3>1. \A o : o \in StillHeld(seen, closed)
                   <=> \E q \in OpenRecords(seen) : o = q.order /\ ~\E y \in closed : y.id = q.id
      BY DEF StillHeld
    <3>2. \A o : o \in k.orders <=> \E q \in OpenRecords(seen) : o = q.order
      BY <1>7
    <3>3. QED  BY <2>2, <3>1, <3>2
  <2>4. \A o : o \in r.session.orders <=> o \in StillHeld(seen, closed) \/ o \in {x.order : x \in opened}
    BY <1>2, <2>1, <2>3
  <2>5. QED  BY <2>4
<1>19. r.closed = Trades(closed)
  <2> DEFINE trade(y) == [order |-> y.order, exit |-> y.exit, pnl |-> y.pnl, t |-> y.ts]
  <2> HIDE DEF seq
  <2>1. ASSUME NEW q \in OpenRecords(seen) PROVE trade(closed_observation(q.id, Closed(q.order, c))) = Closed(q.order, c)
    BY DEF closed_observation, Closed
  <2>2. ASSUME NEW y \in closed PROVE trade(y) \in r.closed
    <3>1. PICK q \in OpenRecords(seen) :
            check_order_exit(q.order, c, seq) /\ y = closed_observation(q.id, Closed(q.order, c))
      BY <1>8, <2>2
    <3>2. Closed(q.order, c) \in r.closed
      BY <1>2, <1>7, <3>1
    <3> HIDE DEF trade
    <3>3. QED  BY <2>1, <3>1, <3>2
  <2>3. ASSUME NEW x \in r.closed PROVE \E y \in closed : x = trade(y)
    <3>1. PICK o \in k.orders : check_order_exit(o, c, seq) /\ x = Closed(o, c)
      BY <1>2, <2>3
    <3>2. PICK q \in OpenRecords(seen) : q.order = o
      BY <1>7
    <3>3. ClosedId(seen, first, Closed(q.order, c)) = q.id
      BY <1>6
    <3>4. closed_observation(q.id, Closed(q.order, c)) \in closed
      BY <2>3, <3>1, <3>2, <3>3 DEF closed, ExitRecords, first
    <3> HIDE DEF trade
    <3>5. QED  BY <2>1, <3>1, <3>2, <3>4
  <2>4. Trades(closed) = {trade(y) : y \in closed}
    BY DEF Trades
  <2> HIDE DEF trade
  <2>5. QED  BY <2>2, <2>3, <2>4
<1>20. PlanOk(r.session.plan) /\ r.session.history = k.history \cup Trades(closed)
  BY <1>2, <1>19
<1> HIDE DEF first
<1>21. QED
  BY <1>2, <1>10, <1>11, <1>13, <1>14, <1>15, <1>16, <1>17, <1>18, <1>20 DEF opened, closed, seen

\* What is written about the plan can be read again.
LEMMA PlansWritten ==
  ASSUME NEW r, NEW t \in Nat, NEW plan, plan = r.session.plan, PlanOk(plan)
  PROVE  /\ IsFiniteSet(PlanToWrite(r, t)) /\ \A x \in PlanToWrite(r, t) : x.ts = t /\ PlanRecord(x)
         /\ (r.rebuilt \/ r.closed # {}) /\ plan # <<>> => PlanToWrite(r, t) = {plan_observation(t, plan)}
         /\ ~((r.rebuilt \/ r.closed # {}) /\ plan # <<>>) => PlanToWrite(r, t) = {}
<1>1. [i \in DOMAIN r.session.plan |-> PlanCell(r.session.plan[i])] = plan
  BY WrittenPlan
<1>2. PlanToWrite(r, t) = IF (r.rebuilt \/ r.closed # {}) /\ plan # <<>> THEN {plan_observation(t, plan)} ELSE {}
  BY <1>1 DEF PlanToWrite
<1>3. plan_observation(t, plan).ts = t /\ PlanRecord(plan_observation(t, plan))
  BY DEF plan_observation, PlanRecord
<1>4. QED  BY <1>2, <1>3, FS_EmptySet, FS_Singleton

\* What a call makes of the session, and what it writes of it.
SessionWrites(t, opened, closed, plans, u) ==
  /\ faults' = faults
  /\ last'.orders = StillHeld(Read(t), closed) \cup {x.order : x \in opened}
  /\ last'.history = from_observations(Read(t)).history \cup Trades(closed)
  /\ last'.candle_seq = u.seq /\ last'.review_at = u.review /\ u.review >= RestoredReview(Read(t))
  /\ PlanOk(last'.plan)
  /\ \/ last'.plan # <<>> /\ plans = {plan_observation(t, last'.plan)}
     \/ plans = {} /\ (last'.plan = <<>> \/ last'.plan = RestoredPlan(Read(t)))

LEMMA FeedIs ==
  ASSUME LiveInv, NEW shape \in Shapes, Feed(shape)
  PROVE  \E t, c, took, opened, closed, plans, u :
           /\ took \in BOOLEAN /\ CallWrites(t, c, took, opened, closed, plans, u)
           /\ SessionWrites(t, opened, closed, plans, u)
<1> DEFINE t == now + Step
           c == [t |-> t, o |-> shape.o, h |-> shape.h, l |-> shape.l]
           seen == Read(t)
           s == Restored(seen, t)
<1>1. PICK outcome \in Outcomes(s) :
        LET r == portfolio_feed(seen, s, c, outcome)
        IN  /\ obs' = obs \cup r.records
            /\ last' = r.session
            /\ traded' = IF r.session.candle_ts = t THEN traded \cup {c} ELSE traded
  BY DEF Feed
<1>2. now' = t /\ faults' = faults
  BY DEF Feed, Tick
<1>3. PICK r : r = forward(s, {c}, outcome[1], outcome[2])
  OBVIOUS
<1> DEFINE opened == PlacedRecords(t, seen, r)
           closed == ExitRecords(seen, r)
           plans == PlanToWrite(r, t)
           u == step_cursor(t, r.session.candle_seq, r.session.review_at, r.session.candle_id)
           took == r.session.candle_ts = t
<1>4. c.t = t /\ c.o \in Int
  BY LiveParams
<1>5. obs' = obs \cup opened \cup closed \cup plans \cup {u}
  <2>1. obs' = obs \cup Written(seen, r, c.t)
    BY <1>1, <1>3 DEF portfolio_feed
  <2>2. Written(seen, r, t) = opened \cup closed \cup plans \cup {u}
    BY DEF Written, PlacedRecords, ExitRecords
  <2>3. QED  BY <1>4, <2>1, <2>2
<1>6. traded' = (IF took THEN traded \cup {c} ELSE traded) /\ last' = r.session
  BY <1>1, <1>3 DEF portfolio_feed
<1>7. u.kind = "step" /\ u.ts = t /\ u.seq = r.session.candle_seq /\ u.review = r.session.review_at
  BY DEF step_cursor
<1>8. /\ Session(s) /\ s.orders = {x.order : x \in OpenRecords(seen)}
      /\ s.candle_seq = RestoredSeq(seen) /\ s.candle_ts = MaxOf(cursor_ts, Cursors(seen))
      /\ s.plan = RestoredPlan(seen) /\ s.review_at = RestoredReview(seen) /\ s.next_ts = t
      /\ s.history = from_observations(seen).history
  BY RestoredIs
<1>9. /\ t \in Nat /\ s.candle_ts \in Nat /\ s.candle_ts < t /\ PlanOk(s.plan)
      /\ RestoredSeq(seen) \in Nat /\ s.review_at \in Nat
  BY <1>8, RestoredBefore
<1> HIDE DEF c, s
<1>10. CASE Idled(r, s)
  <2>1. took = FALSE /\ u.seq = RestoredSeq(seen) /\ u.review \in Nat
    BY <1>7, <1>8, <1>9, <1>10 DEF Idled, Reviewed
  <2>2. opened = {} /\ closed = {}
    BY <1>10 DEF Idled, PlacedRecords, ExitRecords
  <2>3. IsFiniteSet(plans) /\ \A x \in plans : x.ts = t /\ PlanRecord(x)
    BY <1>9, <1>10, PlansWritten DEF Idled, Reviewed
  <2>4. SessionWrites(t, opened, closed, plans, u)
    <3>1. StillHeld(seen, closed) = s.orders /\ Trades(closed) = {} /\ {x.order : x \in opened} = {}
      BY <1>8, <2>2 DEF StillHeld, Trades
    <3>2. PlanOk(last'.plan) /\ IF r.rebuilt /\ last'.plan # <<>>
                                 THEN plans = {plan_observation(t, last'.plan)} ELSE plans = {}
      <4>1. PICK plan : plan = r.session.plan /\ PlanOk(plan) /\ last'.plan = plan /\ r.closed = {}
        BY <1>6, <1>10 DEF Idled, Reviewed
      <4>2. t \in Nat
        BY <1>9
      <4> HIDE DEF t
      <4>3. QED  BY <4>1, <4>2, PlansWritten
    <3>3. ~r.rebuilt => last'.plan = RestoredPlan(seen)
      BY <1>6, <1>8, <1>10 DEF Idled, Reviewed
    <3>4. /\ last'.orders = s.orders /\ last'.history = s.history /\ last'.candle_seq = u.seq
          /\ last'.review_at = u.review /\ u.review >= RestoredReview(seen) /\ PlanOk(last'.plan)
      BY <1>6, <1>7, <1>8, <1>10 DEF Idled, Reviewed
    <3> HIDE DEF opened, closed, plans, u, took, t
    <3>5. QED  BY <1>2, <1>8, <3>1, <3>2, <3>3, <3>4 DEF SessionWrites
  <2> HIDE DEF t, seen, opened, closed, plans, u, took
  <2>5. CallWrites(t, c, FALSE, opened, closed, plans, u)
    <3>1. traded' = traded
      BY <1>6, <2>1
    <3>2. u.seq = RestoredSeq(seen) + 0
      BY <1>9, <2>1
    <3>3. QED  BY <1>2, <1>4, <1>5, <1>7, <2>1, <2>2, <2>3, <3>1, <3>2, FS_EmptySet DEF CallWrites, t, seen
  <2>6. QED  BY <2>4, <2>5
<1>11. ASSUME NEW k, NEW b, Session(k), Reviewed(k, s, b), r = TradeCandle(k, c, b)
       PROVE  /\ CallWrites(t, c, TRUE, opened, closed, plans, u)
              /\ SessionWrites(t, opened, closed, plans, u)
  <2> DEFINE seq == RestoredSeq(seen) + 1
  <2>1. /\ r.session.candle_seq = seq /\ r.session.candle_ts = t /\ PlanOk(r.session.plan)
        /\ r.session.orders = StillHeld(seen, closed) \cup {x.order : x \in opened}
        /\ r.session.history = k.history \cup Trades(closed)
        /\ r.session.review_at = k.review_at /\ r.rebuilt = b /\ (r.closed = {} => r.session.plan = k.plan)
        /\ IsFiniteSet(opened) /\ IsFiniteSet(closed)
        /\ \A x \in opened : /\ x.kind = "order" /\ x.status = "open" /\ x.ts = t
                             /\ x.id \in Nat \X Nat /\ x.id[1] = t
                             /\ x.order.unlock = seq + Settlement /\ Pays(x.order)
        /\ \A x, y \in opened : (x.id = y.id => x = y) /\ (SameLevel(x, y) => x = y)
        /\ \A x \in opened, q \in OpenRecords(seen) : SameLevel(x, q) => \E y \in closed : y.id = q.id
        /\ \A y \in closed : /\ y.kind = "order" /\ y.status = "closed" /\ y.ts = t
                             /\ y.pnl > 0 \/ hit_sl(y.order, c)
                             /\ \E q \in OpenRecords(seen) : q.id = y.id /\ q.order = y.order
                                                              /\ q.order.unlock <= seq
        /\ \A q \in OpenRecords(seen) :
             (q.order.unlock <= seq /\ (hit_sl(q.order, c) \/ hit_tp(q.order, c))) => \E y \in closed : y.id = q.id
    <3>1. k.orders = {x.order : x \in OpenRecords(seen)} /\ k.candle_seq = RestoredSeq(seen) /\ PlanOk(k.plan)
      BY <1>8, <1>11 DEF Reviewed
    <3>2. QED  BY <1>4, <1>11, <3>1, TradeWrites
  <2>2. IsFiniteSet(plans) /\ \A x \in plans : x.ts = t /\ PlanRecord(x)
    BY <1>9, <2>1, PlansWritten
  <2>3. took = TRUE /\ u.seq = seq /\ u.review = k.review_at /\ u.review \in Nat
    BY <1>7, <1>11, <2>1 DEF Reviewed
  <2>0. SessionWrites(t, opened, closed, plans, u)
    <3>1. PlanOk(last'.plan) /\ IF (r.rebuilt \/ r.closed # {}) /\ last'.plan # <<>>
                                 THEN plans = {plan_observation(t, last'.plan)} ELSE plans = {}
      <4>1. PICK plan : plan = r.session.plan /\ PlanOk(plan) /\ last'.plan = plan
        BY <1>6, <2>1
      <4>2. t \in Nat
        BY <1>9
      <4> HIDE DEF t
      <4>3. QED  BY <4>1, <4>2, PlansWritten
    <3>2. ~(r.rebuilt \/ r.closed # {}) => last'.plan = RestoredPlan(seen)
      BY <1>6, <1>8, <1>11, <2>1 DEF Reviewed
    <3>3. u.review >= RestoredReview(seen) /\ k.history = s.history
      BY <1>8, <1>11, <2>3 DEF Reviewed
    <3>4. last'.review_at = u.review /\ last'.candle_seq = u.seq
      BY <1>6, <1>7
    <3> HIDE DEF opened, closed, plans, u, took, t, seq
    <3>5. QED  BY <1>2, <1>6, <1>8, <2>1, <3>1, <3>2, <3>3, <3>4 DEF SessionWrites
  <2> HIDE DEF t, seen, opened, closed, plans, u, took, seq
  <2>4. traded' = traded \cup {c}
    BY <1>6, <2>3
  <2>5. CallWrites(t, c, TRUE, opened, closed, plans, u)
    BY <1>2, <1>4, <1>5, <1>7, <2>1, <2>2, <2>3, <2>4 DEF CallWrites, t, seen, seq
  <2>6. QED  BY <2>0, <2>5
<1>12. QED
  <2> HIDE DEF t, seen, opened, closed, plans, u, took
  <2>1. Idled(r, s) \/ Took(r, s, c)
    BY <1>3, <1>4, <1>8, <1>9, ForwardIs
  <2>2. ASSUME NEW b \in BOOLEAN, CallWrites(t, c, b, opened, closed, plans, u),
               SessionWrites(t, opened, closed, plans, u)
        PROVE  \E t_, c_, took_, opened_, closed_, plans_, u_ :
                 /\ took_ \in BOOLEAN /\ CallWrites(t_, c_, took_, opened_, closed_, plans_, u_)
                 /\ SessionWrites(t_, opened_, closed_, plans_, u_)
    BY <2>2
  <2>3. QED  BY <1>10, <1>11, <2>1, <2>2 DEF Took

LEMMA FeedShortIs ==
  ASSUME LiveInv, FeedShort
  PROVE  \E t, c, u : CallWrites(t, c, FALSE, {}, {}, {}, u) /\ SessionWrites(t, {}, {}, {}, u)
<1> DEFINE t == now + Step
           s == from_observations(Read(t))
           u == step_cursor(t, s.candle_seq, s.review_at, s.candle_id)
           c == [t |-> t]
<1>1. now' = t /\ obs' = obs \cup {u} /\ traded' = traded /\ last' = s /\ faults' = faults
  BY DEF FeedShort, Tick
<1>2. /\ s.candle_seq = RestoredSeq(Read(t)) /\ RestoredSeq(Read(t)) \in Nat
      /\ s.review_at = RestoredReview(Read(t)) /\ RestoredReview(Read(t)) \in Nat
      /\ s.plan = RestoredPlan(Read(t)) /\ PlanOk(RestoredPlan(Read(t)))
      /\ s.orders = {x.order : x \in OpenRecords(Read(t))}
  BY RestoredBefore DEF from_observations, NewSession
<1>3. u.kind = "step" /\ u.ts = t /\ u.seq = RestoredSeq(Read(t)) + 0 /\ u.review = s.review_at /\ u.seq = s.candle_seq
  BY <1>2 DEF step_cursor
<1>4. c.t = t
  OBVIOUS
<1>5. s.history = from_observations(Read(t)).history
  OBVIOUS
<1>6. StillHeld(Read(t), {}) = s.orders /\ Trades({}) = {}
  BY <1>2 DEF StillHeld, Trades
<1> HIDE DEF s, u, c
<1>7. CallWrites(t, c, FALSE, {}, {}, {}, u)
  BY <1>1, <1>2, <1>3, <1>4, FS_EmptySet DEF CallWrites
<1> HIDE DEF t
<1>8. SessionWrites(t, {}, {}, {}, u)
  BY <1>1, <1>2, <1>3, <1>5, <1>6 DEF SessionWrites
<1>9. QED  BY <1>7, <1>8

\* Nothing but the time moves on.
LEMMA SkipKeeps ==
  ASSUME LiveInv, UNCHANGED <<obs, traded>>, now' \in Nat, now' >= now
  PROVE  LiveInv'
<1>0. RecordsInv /\ OneAtLevel /\ ClosedKnown /\ CountInv /\ ExitsInv
  BY DEF LiveInv
<1>1. Opened' = Opened /\ ClosedRecords' = ClosedRecords
  BY DEF Opened, ClosedRecords
<1>2. StillOpen' = StillOpen
  BY <1>1 DEF StillOpen
<1>3. RecordsInv'
  <2>1. \A n \in Nat : n <= now => n <= now'
    BY <1>0 DEF RecordsInv
  <2>2. QED  BY <1>0, <1>1, <2>1 DEF RecordsInv
<1>4. OneAtLevel' /\ ClosedKnown'
  BY <1>0, <1>1, <1>2 DEF OneAtLevel, ClosedKnown
<1>5. CountInv'
  BY <1>0, <1>1 DEF CountInv
<1>6. ExitsInv'
  BY <1>0, <1>1, <1>2 DEF ExitsInv, NoMissedExit, TakeProfitPays
<1>7. QED  BY <1>3, <1>4, <1>5, <1>6 DEF LiveInv

LEMMA CorruptKeeps ==
  ASSUME LiveInv, CorruptPlan
  PROVE  LiveInv'
<1>0. RecordsInv /\ OneAtLevel /\ ClosedKnown /\ CountInv /\ ExitsInv
  BY DEF LiveInv
<1>1. PICK x \in PlanRecords(obs) : obs' = (obs \ {x}) \cup {[x EXCEPT !.readable = FALSE]}
  BY DEF CorruptPlan
<1> DEFINE y == [x EXCEPT !.readable = FALSE]
<1>2. x \in obs /\ x.kind = "plan" /\ PlanRecord(x)
  BY <1>0 DEF PlanRecords, RecordsInv
<1>3. PlanRecord(y) /\ y.kind = "plan" /\ y.ts = x.ts
  <2>1. y \in [kind : {"plan"}, ts : Nat, plan : {x.plan}, readable : BOOLEAN]
    BY <1>2 DEF PlanRecord
  <2>2. y.plan = x.plan /\ y.kind = "plan"
    BY <2>1
  <2>3. y.ts = x.ts
    BY <1>2 DEF PlanRecord
  <2> HIDE DEF y
  <2>4. QED  BY <1>2, <2>1, <2>2, <2>3 DEF PlanRecord
<1> HIDE DEF y
<1>5. obs' = (obs \ {x}) \cup {y} /\ now' = now /\ traded' = traded
  BY <1>1 DEF CorruptPlan, y
<1>6. Orders(obs') = Orders(obs) /\ Cursors(obs') = Cursors(obs)
  BY <1>2, <1>3, <1>5 DEF Orders, Cursors
<1>7. \A z \in PlanRecords(obs') : PlanRecord(z)
  BY <1>0, <1>3, <1>5 DEF RecordsInv, PlanRecords
<1>8. IsFiniteSet(obs')
  <2>1. IsFiniteSet(obs \ {x})
    BY <1>0, FS_RemoveElement DEF RecordsInv
  <2>2. QED  BY <1>5, <2>1, FS_AddElement
<1>9. \A z \in obs' : z.ts \in Nat /\ z.ts <= now'
  BY <1>0, <1>2, <1>3, <1>5 DEF RecordsInv
<1>10. Opened' = Opened /\ ClosedRecords' = ClosedRecords
  BY <1>6 DEF Opened, ClosedRecords
<1>11. StillOpen' = StillOpen
  BY <1>10 DEF StillOpen
<1>12. RecordsInv'
  BY <1>0, <1>5, <1>6, <1>7, <1>8, <1>9, <1>10 DEF RecordsInv
<1>13. OneAtLevel' /\ ClosedKnown'
  BY <1>0, <1>10, <1>11 DEF OneAtLevel, ClosedKnown
<1>14. CountInv'
  BY <1>0, <1>5, <1>6, <1>10 DEF CountInv
<1>15. ExitsInv'
  BY <1>0, <1>5, <1>10, <1>11 DEF ExitsInv, NoMissedExit, TakeProfitPays
<1>16. QED  BY <1>12, <1>13, <1>14, <1>15 DEF LiveInv

LEMMA LiveStart == Init => LiveInv
<1> SUFFICES ASSUME Init PROVE LiveInv
  OBVIOUS
<1>1. now = 0 /\ obs = {} /\ traded = {}
  BY DEF Init
<1>2. Opened = {} /\ StillOpen = {} /\ ClosedRecords = {} /\ Cursors(obs) = {} /\ Orders(obs) = {}
      /\ PlanRecords(obs) = {}
  BY <1>1 DEF Opened, StillOpen, ClosedRecords, Cursors, Orders, PlanRecords
<1>3. RecordsInv
  BY <1>1, <1>2, FS_EmptySet DEF RecordsInv
<1>4. QED  BY <1>1, <1>2, <1>3 DEF LiveInv, OneAtLevel, ClosedKnown, CountInv, ExitsInv, NoMissedExit, TakeProfitPays

LEMMA LiveStep == LiveInv /\ [Next]_vars => LiveInv'
<1> SUFFICES ASSUME LiveInv, [Next]_vars PROVE LiveInv'
  OBVIOUS
<1>0. now \in Nat /\ Step \in Nat
  BY KernelParams DEF LiveInv, RecordsInv
<1>1. CASE Skip
  <2>1. UNCHANGED <<obs, traded>> /\ now' \in Nat /\ now' >= now
    BY <1>0, <1>1 DEF Skip, Tick
  <2>2. QED  BY <2>1, SkipKeeps
<1>2. CASE FeedShort
  BY <1>2, FeedShortIs, CallKeeps DEF Called
<1>3. ASSUME NEW shape \in Shapes, Feed(shape) PROVE LiveInv'
  BY <1>3, FeedIs, CallKeeps DEF Called
<1>4. CASE CorruptPlan
  BY <1>4, CorruptKeeps
<1>5. CASE UNCHANGED vars
  <2>1. UNCHANGED <<obs, traded>> /\ now' \in Nat /\ now' >= now
    BY <1>0, <1>5 DEF vars
  <2>2. QED  BY <2>1, SkipKeeps
<1>6. QED  BY <1>1, <1>2, <1>3, <1>4, <1>5 DEF Next

\* The live node, whatever candles close, calls are missed, records are forgotten by the window
\* and plans are damaged: of two orders at one level the first was forgotten when the second was
\* placed, an order is held for the settlement, the first candle that reaches its exit after that
\* closes it, and a take profit pays (orders.rs from_observations and feed, portfolio.rs forward).
THEOREM OrdersAlwaysKept == Spec => []OrdersKept
<1>1. Init => LiveInv
  BY LiveStart
<1>2. LiveInv /\ [Next]_vars => LiveInv'
  BY LiveStep
<1>3. LiveInv => OrdersKept
  BY LiveSafe
<1>4. QED  BY <1>1, <1>2, <1>3, PTL DEF Spec

-----------------------------------------------------------------------------
(***************************************************************************)
(* Live trading: the session.  Every call takes its session from the       *)
(* records, so what has to be kept is that the records of a call say what  *)
(* its session became: no order that is still open is hidden by another    *)
(* one at its level, the numbers of the cursors only grow, and the plan    *)
(* that counts is the last one written, which reads as it was.             *)
(***************************************************************************)
SessionInv ==
  /\ faults \in Nat /\ (faults = 0 => \A x \in PlanRecords(obs) : x.readable)
  /\ \A x \in PlanRecords(obs) : x.plan # <<>>
  /\ last.plan # <<>> => PlanRecords(obs) # {}
  /\ SessionSurvives

ClosedOf(seen) == {x \in Orders(seen) : x.status = "closed"}

LEMMA ObservedIs ==
  ASSUME NEW seen
  PROVE  LET s == from_observations(seen)
         IN  /\ s.orders = {x.order : x \in OpenRecords(seen)} /\ s.history = Trades(ClosedOf(seen))
             /\ s.candle_seq = RestoredSeq(seen) /\ s.review_at = RestoredReview(seen) /\ s.plan = RestoredPlan(seen)
<1> DEFINE h == {[order |-> x.order, exit |-> x.exit, pnl |-> x.pnl, t |-> x.ts] :
                   x \in {y \in Orders(seen) : y.status = "closed"}}
<1>1. h = Trades(ClosedOf(seen))
  BY DEF Trades, ClosedOf
<1>2. from_observations(seen).history = h
  BY DEF from_observations, NewSession
<1> HIDE DEF h
<1>3. QED  BY <1>1, <1>2 DEF from_observations, NewSession

\* When the newest order of a level is the only one of it that is not closed, those are restored.
LEMMA RestoredOrders ==
  ASSUME NEW seen,
         \A x, y \in Orders(seen) :
           (x.status = "open" /\ x.id \notin closed_ids(seen) /\ y.status = "open" /\ SameLevel(x, y))
             => ~Later(y.id, x.id)
  PROVE  OpenRecords(seen) = {x \in Orders(seen) : x.status = "open" /\ x.id \notin closed_ids(seen)}
BY DEF OpenRecords, SameLevel

\* The last cursor is that with the greatest number, and with the latest review.
LEMMA NextSeq ==
  ASSUME NEW C, IsFiniteSet(C), \A x \in C : x.seq \in Nat, NEW u, u.seq \in Nat, MaxOf(cursor_seq, C) <= u.seq
  PROVE  MaxOf(cursor_seq, C \cup {u}) = u.seq
<1>1. MaxOf(cursor_seq, C) \in Nat /\ \A x \in C : x.seq <= MaxOf(cursor_seq, C)
  BY LastSeq
<1>2. \A x \in C \cup {u} : x.seq \in Nat /\ x.seq <= u.seq
  BY <1>1
<1>3. PICK D : D = C \cup {u} /\ IsFiniteSet(D)
  BY FS_AddElement
<1>4. /\ MaxOf(cursor_seq, D) \in Nat /\ \A x \in D : x.seq <= MaxOf(cursor_seq, D)
      /\ MaxOf(cursor_seq, D) = 0 \/ \E x \in D : x.seq = MaxOf(cursor_seq, D)
  BY <1>2, <1>3, LastSeq
<1>5. u.seq <= MaxOf(cursor_seq, D) /\ MaxOf(cursor_seq, D) <= u.seq
  BY <1>2, <1>3, <1>4
<1>6. QED  BY <1>3, <1>4, <1>5

LEMMA NextReview ==
  ASSUME NEW C, IsFiniteSet(C), \A x \in C : x.review \in Nat, NEW u, u.review \in Nat,
         MaxOf(cursor_review, C) <= u.review
  PROVE  MaxOf(cursor_review, C \cup {u}) = u.review
<1>1. MaxOf(cursor_review, C) \in Nat /\ \A x \in C : x.review <= MaxOf(cursor_review, C)
  BY LastReview
<1>2. \A x \in C \cup {u} : x.review \in Nat /\ x.review <= u.review
  BY <1>1
<1>3. PICK D : D = C \cup {u} /\ IsFiniteSet(D)
  BY FS_AddElement
<1>4. /\ MaxOf(cursor_review, D) \in Nat /\ \A x \in D : x.review <= MaxOf(cursor_review, D)
      /\ MaxOf(cursor_review, D) = 0 \/ \E x \in D : x.review = MaxOf(cursor_review, D)
  BY <1>2, <1>3, LastReview
<1>5. u.review <= MaxOf(cursor_review, D) /\ MaxOf(cursor_review, D) <= u.review
  BY <1>2, <1>3, <1>4
<1>6. QED  BY <1>3, <1>4, <1>5

\* Without a damaged plan the last one written is restored.
LEMMA LastPlanIs ==
  ASSUME NEW seen, \A x \in PlanRecords(seen) : x.readable, NEW p \in PlanRecords(seen),
         \A x \in PlanRecords(seen) : x.ts \in Nat /\ x.ts <= p.ts
  PROVE  \E x \in PlanRecords(seen) :
           /\ x.ts >= p.ts /\ RestoredPlan(seen) = [i \in DOMAIN x.plan |-> ReadCell(x.plan[i])]
<1> DEFINE R == PlanRecords(seen)
           bad == {x \in R : ~x.readable}
           good == {x \in R : x.readable /\ \A y \in bad : y.ts < x.ts}
           pick == CHOOSE x \in good : \A y \in good : y.ts <= x.ts
<1>1. good = R
  <2> HIDE DEF R
  <2>1. bad = {}
    BY DEF R
  <2> HIDE DEF bad
  <2>2. QED  BY <2>1 DEF R
<1>2. RestoredPlan(seen) = IF good = {} THEN <<>> ELSE [i \in DOMAIN pick.plan |-> ReadCell(pick.plan[i])]
  BY DEF RestoredPlan
<1>3. \E x \in good : \A y \in good : y.ts <= x.ts
  BY <1>1
<1>4. pick \in good /\ \A y \in good : y.ts <= pick.ts
  BY <1>3
<1> HIDE DEF good, pick
<1>5. p \in good /\ p.ts <= pick.ts /\ pick \in R /\ p.ts \in Nat /\ pick.ts \in Nat
  BY <1>1, <1>4
<1>6. QED  BY <1>2, <1>5

LEMMA NoPlanRestored ==
  ASSUME NEW seen, PlanRecords(seen) = {}
  PROVE  RestoredPlan(seen) = <<>>
<1>1. {x \in PlanRecords(seen) : x.readable /\ \A y \in {z \in PlanRecords(seen) : ~z.readable} : y.ts < x.ts} = {}
  OBVIOUS
<1>2. QED  BY <1>1 DEF RestoredPlan

\* A call whose records the script can all read next time.
LEMMA CallRestored ==
  ASSUME NEW t, NEW c, NEW took \in BOOLEAN, NEW opened, NEW closed, NEW plans, NEW u,
         Called(t, c, took, opened, closed, plans, u), SessionWrites(t, opened, closed, plans, u),
         \A x \in obs' : x.ts >= t - Window
  PROVE  /\ Read(t) = obs
         /\ OpenRecords(obs') = {x \in OpenRecords(obs) : \A y \in closed : y.id # x.id} \cup opened
<1>0. RecordsInv /\ OneAtLevel /\ ClosedKnown /\ CallWrites(t, c, took, opened, closed, plans, u) /\ LiveInv
  BY DEF Called, LiveInv
<1>1. /\ now \in Nat /\ t \in Nat /\ now < t /\ Window \in Nat /\ now' = t
      /\ Opened' = Opened \cup opened /\ ClosedRecords' = ClosedRecords \cup closed
      /\ \A x \in StillOpen' : (\A y \in closed : y.id # x.id) /\ (x \in StillOpen \/ x \in opened)
  BY <1>0, AfterCall DEF CallWrites
<1>2. \A x \in obs : x \in obs' /\ x.ts \in Nat /\ x.ts <= now
  BY <1>0 DEF CallWrites, RecordsInv
<1>3. Read(t) = obs
  BY <1>1, <1>2 DEF Read
<1>4. OpenRecords(obs) = StillOpen
  <2>1. ASSUME NEW x \in Orders(obs), NEW y \in Orders(obs), x.status = "open", x.id \notin closed_ids(obs),
               y.status = "open", SameLevel(x, y)
        PROVE  ~Later(y.id, x.id)
    <3>1. x \in StillOpen /\ y \in Opened /\ x \in obs /\ y \in obs
      BY <2>1 DEF StillOpen, Opened, ClosedRecords, closed_ids, Orders
    <3>2. x.ts \in Nat /\ y.ts \in Nat /\ y.ts <= now /\ x.ts >= t - Window
      BY <1>2, <3>1
    <3>3. ~(x.ts < y.ts - Window)
      BY <1>1, <3>2
    <3>4. QED  BY <1>0, <2>1, <3>1, <3>3 DEF OneAtLevel
  <2>2. OpenRecords(obs) = {x \in Orders(obs) : x.status = "open" /\ x.id \notin closed_ids(obs)}
    BY <2>1, RestoredOrders
  <2>3. QED  BY <2>2 DEF StillOpen, Opened, ClosedRecords, closed_ids
<1>5. OpenRecords(obs') = StillOpen'
  <2>1. OneAtLevel' /\ RecordsInv'
    BY CallKeeps DEF LiveInv
  <2>2. ASSUME NEW x \in Orders(obs'), NEW y \in Orders(obs'), x.status = "open", x.id \notin closed_ids(obs'),
               y.status = "open", SameLevel(x, y)
        PROVE  ~Later(y.id, x.id)
    <3>1. x \in StillOpen' /\ y \in Opened' /\ x \in obs' /\ y \in obs'
      BY <2>2 DEF StillOpen, Opened, ClosedRecords, closed_ids, Orders
    <3>2. x.ts \in Nat /\ y.ts \in Nat /\ y.ts <= t /\ x.ts >= t - Window
      BY <1>1, <2>1, <3>1 DEF RecordsInv
    <3>3. ~(x.ts < y.ts - Window)
      BY <1>1, <3>2
    <3>4. QED  BY <2>1, <2>2, <3>1, <3>3 DEF OneAtLevel
  <2>3. OpenRecords(obs') = {x \in Orders(obs') : x.status = "open" /\ x.id \notin closed_ids(obs')}
    BY <2>2, RestoredOrders
  <2>4. QED  BY <2>3 DEF StillOpen, Opened, ClosedRecords, closed_ids
<1>6. \A x \in Opened : x.id[1] = x.ts /\ x.ts <= now /\ x.ts \in Nat
  BY <1>0 DEF RecordsInv, Opened, Orders
<1>7. ASSUME NEW x \in opened, NEW y \in ClosedRecords' PROVE y.id # x.id
  <2>1. x.id[1] = t
    BY <1>0 DEF CallWrites
  <2>2. \E z \in Opened : z.id = y.id
    <3>1. CASE y \in ClosedRecords
      BY <1>0, <3>1 DEF ClosedKnown
    <3>2. CASE y \in closed
      <4>1. PICK q \in OpenRecords(Read(t)) : q.id = y.id
        BY <1>0, <3>2 DEF CallWrites
      <4>2. q \in Opened
        BY <1>0, RestoredOnRecord
      <4>3. QED  BY <4>1, <4>2
    <3>3. QED  BY <1>1, <3>1, <3>2
  <2>3. QED  BY <1>1, <1>6, <2>1, <2>2
<1>8. \A x : x \in StillOpen' <=> (x \in StillOpen /\ \A y \in closed : y.id # x.id) \/ x \in opened
  <2>1. \A x \in StillOpen : (\A y \in closed : y.id # x.id) => x \in StillOpen'
    BY <1>1 DEF StillOpen
  <2>2. \A x \in opened : x \in StillOpen'
    BY <1>1, <1>7 DEF StillOpen
  <2>3. QED  BY <1>1, <2>1, <2>2
<1>9. QED  BY <1>3, <1>4, <1>5, <1>8

\* The next call restores what this one ended with.
LEMMA CallSurvives ==
  ASSUME NEW t, NEW c, NEW took \in BOOLEAN, NEW opened, NEW closed, NEW plans, NEW u,
         Called(t, c, took, opened, closed, plans, u), SessionWrites(t, opened, closed, plans, u), SessionInv,
         Read(now)' = obs', faults' = 0
  PROVE  LET s == from_observations(obs')
         IN  /\ s.orders = last'.orders /\ s.history = last'.history
             /\ s.candle_seq = last'.candle_seq /\ s.review_at = last'.review_at
             /\ last'.plan # <<>> => Used(s.plan) = Used(last'.plan)
<1>0. /\ LiveInv /\ RecordsInv /\ CountInv /\ CallWrites(t, c, took, opened, closed, plans, u)
      /\ faults = 0 /\ \A x \in PlanRecords(obs) : x.readable
  BY DEF Called, LiveInv, SessionInv, SessionWrites
<1>1. /\ now \in Nat /\ t \in Nat /\ now < t /\ Window \in Nat /\ now' = t /\ t = now + Step
      /\ Orders(obs') = Orders(obs) \cup opened \cup closed
      /\ Cursors(obs') = Cursors(obs) \cup {u} /\ PlanRecords(obs') = PlanRecords(obs) \cup plans
  <2>1. t = now + Step /\ now' = t
    BY <1>0 DEF CallWrites
  <2>2. /\ now \in Nat /\ t \in Nat /\ now < t /\ Window \in Nat
        /\ Orders(obs') = Orders(obs) \cup opened \cup closed
        /\ Cursors(obs') = Cursors(obs) \cup {u} /\ PlanRecords(obs') = PlanRecords(obs) \cup plans
    BY AfterCall
  <2>3. QED  BY <2>1, <2>2
<1>2. \A x \in obs' : x.ts >= t - Window
  <2>1. \A x \in Read(now)' : t - Window <= x.ts /\ x.ts \in Int
    <3>1. RecordsInv'
      BY CallRecords
    <3>2. QED  BY <1>1, <3>1 DEF Read, RecordsInv
  <2>2. QED  BY <1>1, <2>1
<1>3. /\ Read(t) = obs
      /\ OpenRecords(obs') = {x \in OpenRecords(obs) : \A y \in closed : y.id # x.id} \cup opened
  <2>1. /\ Called(t, c, took, opened, closed, plans, u)
        /\ SessionWrites(t, opened, closed, plans, u) /\ took \in BOOLEAN
    OBVIOUS
  <2>2. \A x \in obs' : x.ts >= t - Window
    BY <1>2
  <2>3. Read(t) = obs
    BY ONLY <2>1, <2>2, CallRestored
  <2>4. OpenRecords(obs') = {x \in OpenRecords(obs) : \A y \in closed : y.id # x.id} \cup opened
    BY ONLY <2>1, <2>2, CallRestored
  <2>5. QED  BY <2>3, <2>4
<1>4. /\ last'.orders = StillHeld(obs, closed) \cup {x.order : x \in opened}
      /\ last'.history = from_observations(obs).history \cup Trades(closed)
      /\ last'.candle_seq = u.seq /\ last'.review_at = u.review /\ u.review >= RestoredReview(obs)
      /\ PlanOk(last'.plan)
      /\ \/ last'.plan # <<>> /\ plans = {plan_observation(t, last'.plan)}
         \/ plans = {} /\ (last'.plan = <<>> \/ last'.plan = RestoredPlan(obs))
  BY <1>3 DEF SessionWrites
<1>5. {x.order : x \in OpenRecords(obs')} = last'.orders
  <2>1. {x.order : x \in OpenRecords(obs')} = StillHeld(obs, closed) \cup {x.order : x \in opened}
    BY <1>3 DEF StillHeld
  <2>2. QED  BY <1>4, <2>1
<1>6. Trades(ClosedOf(obs')) = last'.history
  <2>1. (\A x \in opened : x.status = "open") /\ \A x \in closed : x.status = "closed"
    BY <1>0 DEF CallWrites
  <2>2. ClosedOf(obs') = ClosedOf(obs) \cup closed
    BY <1>1, <2>1 DEF ClosedOf
  <2>3. Trades(ClosedOf(obs')) = Trades(ClosedOf(obs)) \cup Trades(closed)
    BY <2>2 DEF Trades
  <2>4. from_observations(obs).history = Trades(ClosedOf(obs))
    BY ObservedIs
  <2>5. QED  BY <1>4, <2>3, <2>4
<1>7. IsFiniteSet(Cursors(obs)) /\ \A x \in Cursors(obs) : x.seq \in Nat /\ x.review \in Nat
  <2>1. Cursors(obs) \in SUBSET obs
    BY DEF Cursors
  <2>2. QED  BY <1>0, <2>1, FS_Subset DEF RecordsInv
<1>8. RestoredSeq(obs') = last'.candle_seq
  <2>1. RestoredSeq(obs) \in Nat
    BY <1>0, <1>1, <1>3, RestoredBefore
  <2>2. u.seq = RestoredSeq(obs) + (IF took THEN 1 ELSE 0)
    BY <1>0, <1>3 DEF CallWrites
  <2>3. u.seq \in Nat /\ MaxOf(cursor_seq, Cursors(obs)) <= u.seq
    BY <2>1, <2>2 DEF RestoredSeq
  <2>4. MaxOf(cursor_seq, Cursors(obs) \cup {u}) = u.seq
    BY <1>7, <2>3, NextSeq
  <2>5. QED  BY <1>1, <1>4, <2>4 DEF RestoredSeq
<1>9. \A x \in PlanRecords(obs') : x.readable
  BY <1>0, <1>1, <1>4 DEF plan_observation
<1>10. RestoredReview(obs') = last'.review_at
  <2>1. RestoredReview(obs) = MaxOf(cursor_review, Cursors(obs))
    BY <1>0 DEF RestoredReview
  <2>2. RestoredReview(obs') = MaxOf(cursor_review, Cursors(obs'))
    BY <1>9 DEF RestoredReview
  <2>3. u.review \in Nat /\ MaxOf(cursor_review, Cursors(obs)) \in Nat
    BY <1>0, <1>7, LastReview DEF CallWrites
  <2>4. MaxOf(cursor_review, Cursors(obs)) <= u.review
    BY <1>4, <2>1, <2>3
  <2>5. MaxOf(cursor_review, Cursors(obs) \cup {u}) = u.review
    BY <1>7, <2>3, <2>4, NextReview
  <2>6. QED  BY <1>1, <1>4, <2>2, <2>5
<1>11. ASSUME last'.plan # <<>> PROVE Used(RestoredPlan(obs')) = Used(last'.plan)
  <2>1. CASE plans = {plan_observation(t, last'.plan)}
    <3>1. PICK p : p = plan_observation(t, last'.plan) /\ p.ts = t /\ p.plan = last'.plan
      <4>1. PICK plan : plan = last'.plan
        OBVIOUS
      <4>2. /\ plan_observation(t, plan).ts = t
            /\ plan_observation(t, plan).plan = plan
        BY DEF plan_observation
      <4>3. QED  BY <4>1, <4>2
    <3>2. \A x \in PlanRecords(obs) : x.ts \in Nat /\ x.ts < t
      BY <1>0, <1>1 DEF RecordsInv, PlanRecords
    <3>3. PlanRecords(obs') = PlanRecords(obs) \cup {p}
      BY <1>1, <2>1, <3>1
    <3>4. p \in PlanRecords(obs') /\ \A x \in PlanRecords(obs') : x.ts \in Nat /\ x.ts <= p.ts
      BY <1>1, <3>1, <3>2, <3>3
    <3>5. PICK x \in PlanRecords(obs') :
            x.ts >= p.ts /\ RestoredPlan(obs') = [i \in DOMAIN x.plan |-> ReadCell(x.plan[i])]
      BY <1>9, <3>4, LastPlanIs
    <3>6. x = p
      BY <1>1, <3>1, <3>2, <3>3, <3>5
    <3>7. PICK q, plan : plan = last'.plan /\ PlanOk(plan) /\ q = [i \in DOMAIN plan |-> ReadCell(plan[i])]
      BY <1>4
    <3>8. RestoredPlan(obs') = q
      BY <3>1, <3>5, <3>6, <3>7
    <3>9. QED  BY <3>7, <3>8, ReadPlan
  <2>2. CASE plans = {} /\ last'.plan = RestoredPlan(obs)
    <3>1. PlanRecords(obs') = PlanRecords(obs)
      BY <1>1, <2>2
    <3>2. RestoredPlan(obs') = RestoredPlan(obs)
      BY <3>1 DEF RestoredPlan
    <3>3. QED  BY <2>2, <3>2
  <2>3. QED  BY <1>4, <1>11, <2>1, <2>2
<1>12. QED  BY <1>5, <1>6, <1>8, <1>10, <1>11, ObservedIs

LEMMA CallKeepsSession ==
  ASSUME NEW t, NEW c, NEW took \in BOOLEAN, NEW opened, NEW closed, NEW plans, NEW u,
         Called(t, c, took, opened, closed, plans, u), SessionWrites(t, opened, closed, plans, u), SessionInv
  PROVE  SessionInv'
<1>1. /\ PlanRecords(obs') = PlanRecords(obs) \cup plans /\ faults' = faults
      /\ \/ last'.plan # <<>> /\ plans = {plan_observation(t, last'.plan)}
         \/ plans = {} /\ (last'.plan = <<>> \/ last'.plan = RestoredPlan(Read(t)))
  BY AfterCall DEF SessionWrites
<1>2. \A x \in plans : x.readable /\ x.plan # <<>>
  BY <1>1 DEF plan_observation
<1>3. faults' \in Nat /\ (faults' = 0 => \A x \in PlanRecords(obs') : x.readable)
  BY <1>1, <1>2 DEF SessionInv
<1>4. \A x \in PlanRecords(obs') : x.plan # <<>>
  BY <1>1, <1>2 DEF SessionInv
<1>5. ASSUME last'.plan # <<>> PROVE PlanRecords(obs') # {}
  <2>1. CASE last'.plan = RestoredPlan(Read(t))
    <3>1. PlanRecords(Read(t)) # {}
      BY <1>5, <2>1, NoPlanRestored
    <3>2. PlanRecords(Read(t)) \in SUBSET PlanRecords(obs)
      BY DEF PlanRecords, Read
    <3>3. QED  BY <1>1, <3>1, <3>2
  <2>2. QED  BY <1>1, <1>5, <2>1
<1>6. SessionSurvives'
  <2>1. SUFFICES ASSUME Read(now)' = obs', faults' = 0
                 PROVE  LET s == from_observations(obs')
                        IN  /\ s.orders = last'.orders /\ s.history = last'.history
                            /\ s.candle_seq = last'.candle_seq /\ s.review_at = last'.review_at
                            /\ last'.plan # <<>> => Used(s.plan) = Used(last'.plan)
    BY DEF SessionSurvives
  <2>2. QED  BY <2>1, CallSurvives
<1>7. QED  BY <1>3, <1>4, <1>5, <1>6 DEF SessionInv

\* Without a call what is restored stays the same, or less is read of it.
LEMMA SkipKeepsSession ==
  ASSUME LiveInv, SessionInv, UNCHANGED <<obs, faults, last>>, now' \in Nat, now' >= now
  PROVE  SessionInv'
<1>1. SessionSurvives'
  <2>1. SUFFICES ASSUME Read(now)' = obs, faults = 0
                 PROVE  LET s == from_observations(obs)
                        IN  /\ s.orders = last.orders /\ s.history = last.history
                            /\ s.candle_seq = last.candle_seq /\ s.review_at = last.review_at
                            /\ last.plan # <<>> => Used(s.plan) = Used(last.plan)
    BY DEF SessionSurvives
  <2>2. now \in Nat /\ Window \in Nat /\ \A x \in obs : x.ts \in Nat /\ x.ts <= now
    BY LiveParams DEF LiveInv, RecordsInv
  <2>3. \A x \in obs : now' - Window <= x.ts
    BY <2>1 DEF Read
  <2>4. \A x \in obs : now - Window <= x.ts
    BY <2>2, <2>3
  <2>5. Read(now) = obs
    BY <2>2, <2>4 DEF Read
  <2>6. QED  BY <2>1, <2>5 DEF SessionInv, SessionSurvives
<1>2. QED  BY <1>1 DEF SessionInv

LEMMA CorruptKeepsSession ==
  ASSUME LiveInv, SessionInv, CorruptPlan
  PROVE  SessionInv'
<1>1. PICK x \in PlanRecords(obs) : obs' = (obs \ {x}) \cup {[x EXCEPT !.readable = FALSE]}
  BY DEF CorruptPlan
<1> DEFINE y == [x EXCEPT !.readable = FALSE]
<1>2. x.kind = "plan" /\ x.plan # <<>> /\ PlanRecord(x)
  BY DEF PlanRecords, SessionInv, LiveInv, RecordsInv
<1>3. y.kind = "plan" /\ y.plan = x.plan
  BY <1>2 DEF PlanRecord
<1> HIDE DEF y
<1>4. PlanRecords(obs') = (PlanRecords(obs) \ {x}) \cup {y}
  BY <1>1, <1>3 DEF PlanRecords, y
<1>5. faults \in Nat /\ faults' = faults + 1 /\ last' = last
  BY DEF CorruptPlan, SessionInv
<1>6. faults' \in Nat /\ faults' # 0
  BY <1>5
<1>7. \A z \in PlanRecords(obs') : z.plan # <<>>
  BY <1>2, <1>3, <1>4 DEF SessionInv
<1>8. PlanRecords(obs') # {}
  BY <1>4
<1>9. SessionSurvives'
  BY <1>6 DEF SessionSurvives
<1>10. QED  BY <1>6, <1>7, <1>8, <1>9 DEF SessionInv

LEMMA SessionStart == Init => SessionInv
<1> SUFFICES ASSUME Init PROVE SessionInv
  OBVIOUS
<1>1. now = 0 /\ obs = {} /\ faults = 0 /\ last = NewSession
  BY DEF Init
<1>2. last.plan = <<>> /\ last.orders = {} /\ last.history = {} /\ last.candle_seq = 0 /\ last.review_at = 0
  BY <1>1 DEF NewSession
<1>3. Orders(obs) = {} /\ Cursors(obs) = {} /\ PlanRecords(obs) = {}
  BY <1>1 DEF Orders, Cursors, PlanRecords
<1>4. OpenRecords(obs) = {} /\ ClosedOf(obs) = {}
  BY <1>3 DEF OpenRecords, ClosedOf
<1>5. {x.order : x \in OpenRecords(obs)} = {} /\ Trades(ClosedOf(obs)) = {}
  BY <1>4 DEF Trades
<1>6. RestoredSeq(obs) = 0
  <2>1. MaxOf(cursor_seq, {}) = 0
    BY LastSeq, FS_EmptySet
  <2>2. QED  BY <1>3, <2>1 DEF RestoredSeq
<1>7. RestoredReview(obs) = 0
  <2>1. MaxOf(cursor_review, {}) = 0
    BY LastReview, FS_EmptySet
  <2>2. QED  BY <1>3, <2>1 DEF RestoredReview
<1>8. Read(now) = obs
  BY <1>1 DEF Read
<1>9. SessionSurvives
  BY <1>2, <1>5, <1>6, <1>7, <1>8, ObservedIs DEF SessionSurvives
<1>10. QED  BY <1>1, <1>2, <1>3, <1>9 DEF SessionInv

LEMMA SessionStep == LiveInv /\ SessionInv /\ [Next]_vars => SessionInv'
<1> SUFFICES ASSUME LiveInv, SessionInv, [Next]_vars PROVE SessionInv'
  OBVIOUS
<1>0. now \in Nat /\ Step \in Nat
  BY KernelParams DEF LiveInv, RecordsInv
<1>1. CASE Skip
  <2>1. UNCHANGED <<obs, faults, last>> /\ now' \in Nat /\ now' >= now
    BY <1>0, <1>1 DEF Skip, Tick
  <2>2. QED  BY <2>1, SkipKeepsSession
<1>2. CASE FeedShort
  BY <1>2, FeedShortIs, CallKeepsSession DEF Called
<1>3. ASSUME NEW shape \in Shapes, Feed(shape) PROVE SessionInv'
  BY <1>3, FeedIs, CallKeepsSession DEF Called
<1>4. CASE CorruptPlan
  BY <1>4, CorruptKeepsSession
<1>5. CASE UNCHANGED vars
  <2>1. UNCHANGED <<obs, faults, last>> /\ now' \in Nat /\ now' >= now
    BY <1>0, <1>5 DEF vars
  <2>2. QED  BY <2>1, SkipKeepsSession
<1>6. QED  BY <1>1, <1>2, <1>3, <1>4, <1>5 DEF Next

LEMMA SessionSafe == LiveInv /\ SessionInv => SessionKept
<1> SUFFICES ASSUME LiveInv, SessionInv PROVE SessionKept
  OBVIOUS
<1>1. ASSUME last.plan # <<>>, NEW s, s = from_observations(obs) PROVE s.plan # <<>> \/ s.review_at <= now
  <2>0. now \in Nat /\ s.plan = RestoredPlan(obs) /\ s.review_at = RestoredReview(obs)
    BY <1>1, ObservedIs DEF LiveInv, RecordsInv
  <2>1. CASE \E x \in PlanRecords(obs) : ~x.readable
    <3>1. RestoredReview(obs) = 0
      BY <2>1 DEF RestoredReview
    <3>2. QED  BY <2>0, <3>1
  <2>2. CASE \A x \in PlanRecords(obs) : x.readable
    <3>1. PlanRecords(obs) # {} /\ \A x \in PlanRecords(obs) : x.ts \in Nat /\ x.plan # <<>> /\ PlanOk(x.plan)
      BY <1>1 DEF SessionInv, LiveInv, RecordsInv, PlanRecords, PlanRecord
    <3>2. IsFiniteSet(PlanRecords(obs))
      <4>1. PlanRecords(obs) \in SUBSET obs /\ IsFiniteSet(obs)
        BY DEF PlanRecords, LiveInv, RecordsInv
      <4>2. QED  BY <4>1, FS_Subset
    <3>3. PICK p \in PlanRecords(obs) : \A x \in PlanRecords(obs) : x.ts <= p.ts
      BY <3>1, <3>2, LastRecord
    <3>4. PICK x \in PlanRecords(obs) : RestoredPlan(obs) = [i \in DOMAIN x.plan |-> ReadCell(x.plan[i])]
      BY <2>2, <3>1, <3>3, LastPlanIs
    <3>5. x.plan # <<>> /\ x.plan \in Seq(Grids)
      BY <3>1 DEF PlanOk
    <3>6. DOMAIN x.plan # {}
      <4>1. PICK q : q = x.plan
        OBVIOUS
      <4>2. q # <<>> /\ q \in Seq(Grids)
        BY <3>5, <4>1
      <4>3. DOMAIN q # {}
        <5>1. Len(q) \in Nat \ {0} /\ DOMAIN q = 1..Len(q)
          BY <4>2, EmptySeq, LenProperties
        <5>2. QED  BY <5>1
      <4>4. QED  BY <4>1, <4>3
    <3>7. DOMAIN RestoredPlan(obs) = DOMAIN x.plan
      BY <3>4
    <3>8. RestoredPlan(obs) # <<>>
      BY <3>6, <3>7
    <3>9. QED  BY <2>0, <3>8
  <2>3. QED  BY <2>1, <2>2
<1>2. CorruptNeverStrands
  BY <1>1 DEF CorruptNeverStrands
<1>3. QED  BY <1>2 DEF SessionKept, SessionInv

\* The live node keeps its session in its own records: whatever candles close, calls are missed
\* and strategies build, a call that reads all the records starts where the last one ended, with
\* the orders, the history, the count of candles, the review and the plan as it is used; and a
\* damaged plan never leaves the node without one until the next review (orders.rs
\* from_observations and feed, portfolio.rs forward).
THEOREM SessionAlwaysKept == Spec => []SessionKept
<1>1. Init => LiveInv /\ SessionInv
  BY LiveStart, SessionStart
<1>2. (LiveInv /\ SessionInv) /\ [Next]_vars => (LiveInv /\ SessionInv)'
  BY LiveStep, SessionStep
<1>3. LiveInv /\ SessionInv => SessionKept
  BY SessionSafe
<1>4. QED  BY <1>1, <1>2, <1>3, PTL DEF Spec
=============================================================================
