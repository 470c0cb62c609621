----------------------------- MODULE TradingGrid -----------------------------
(***************************************************************************)
(* A cell of the trading plan (opsense-qlib grid.rs) and the way a plan    *)
(* built by a strategy becomes grids (plan.rs).  Prices are naturals,      *)
(* fractions (stop loss, weights, win probabilities) are whole per cents,  *)
(* level and grid indices start at 1.                                      *)
(***************************************************************************)
EXTENDS Integers, Sequences, FiniteSets, FiniteSetsExt, SequencesExt

(* The four win/lost counters of a level. *)
NoOutcome == [lw |-> 0, ll |-> 0, sw |-> 0, sl |-> 0]

num_levels(g) == Len(g.levels)
grid_min(g) == g.levels[1]
grid_max(g) == g.levels[num_levels(g)]

weight_cols(g) == IF g.max_candles > 0 THEN g.max_candles ELSE 1

(* The weight column of candle number t (from 0): the last one when t is past the matrix. *)
weight(g, j, t) == g.weights[j][IF t + 1 < Len(g.weights[j]) THEN t + 1 ELSE Len(g.weights[j])]

sl_long(g, j) == (g.levels[j] * (100 - g.sl_pct)) \div 100
sl_short(g, j) == (g.levels[j] * (100 + g.sl_pct)) \div 100

tp_above(g, j) == IF j < num_levels(g) THEN g.levels[j + 1] ELSE g.levels[j]
tp_below(g, j) == IF j > 1 THEN g.levels[j - 1] ELSE g.levels[j]

(* The levels whose reward is at least rr times the risk; the nearest one is taken. *)
tp_for_rr(g, j, rr, long) ==
    LET enough == {k \in 1..num_levels(g) :
                     /\ IF long THEN k > j ELSE k < j
                     /\ 100 * (IF long THEN g.levels[k] - g.levels[j] ELSE g.levels[j] - g.levels[k])
                          >= rr * g.levels[j] * g.sl_pct}
    IN  IF g.sl_pct <= 0 THEN {}
        ELSE {g.levels[k] : k \in {i \in enough : \A m \in enough : IF long THEN i <= m ELSE i >= m}}

(* The members of a sequence at the places of `good`, in order. *)
Only(s, good) ==
    LET kept[n \in 0..Len(s)] ==
            IF n = 0 THEN <<>> ELSE IF n \in good THEN Append(kept[n - 1], s[n]) ELSE kept[n - 1]
    IN  kept[Len(s)]

(* In ascending order: each goes behind those that are not above it. *)
Ascending(s) ==
    LET placed[n \in 0..Len(s)] ==
            IF n = 0 THEN <<>>
            ELSE LET t == placed[n - 1]
                     k == Cardinality({i \in DOMAIN t : t[i] <= s[n]})
                 IN  SubSeq(t, 1, k) \o <<s[n]>> \o SubSeq(t, k + 1, Len(t))
    IN  placed[Len(s)]

(* from_levels: at least two levels, sorted, with the defaults of fill_defaults. *)
from_levels(levels) ==
    LET k == Len(levels)
    IN  [levels |-> Ascending(levels), sl_pct |-> 5, max_candles |-> 0,
         weights |-> [j \in 1..k |-> <<100 \div k>>],
         long_win_p |-> [j \in 1..k |-> 50], short_win_p |-> [j \in 1..k |-> 50],
         cnt |-> [j \in 1..k |-> NoOutcome]]

with_max_candles(g, m) ==
    LET widen(row) == row \o [i \in 1..(m - Len(row)) |-> row[Len(row)]]
    IN  [g EXCEPT !.max_candles = m,
                  !.weights = IF m > weight_cols(g) THEN [j \in DOMAIN @ |-> widen(@[j])] ELSE @]

with_weights(g, base) ==
    IF Len(base) = Len(g.weights)
      THEN [g EXCEPT !.weights = [j \in DOMAIN @ |-> [t \in 1..weight_cols(g) |-> base[j]]]]
      ELSE g

with_weight_matrix(g, matrix) ==
    IF Len(matrix) = Len(g.weights)
      THEN [g EXCEPT !.weights = matrix, !.max_candles = IF Len(matrix[1]) > 1 THEN Len(matrix[1]) ELSE 0]
      ELSE g

with_win_probabilities(g, lw, sw) ==
    IF Len(lw) = num_levels(g) /\ Len(sw) = num_levels(g)
      THEN [g EXCEPT !.long_win_p = lw, !.short_win_p = sw]
      ELSE g

(* Counters of a grid with another number of levels are dropped. *)
with_outcome_counts(g, cnt) ==
    [g EXCEPT !.cnt = IF Len(cnt) = num_levels(g) THEN cnt ELSE [j \in 1..num_levels(g) |-> NoOutcome]]

(* Closed trades, each at its level; a level the grid does not have is ignored. *)
record_trade_outcome(g, trades) ==
    LET count(j, long, won) == Cardinality({x \in trades : /\ x.order.level = j /\ x.order.long = long
                                                           /\ (x.pnl > 0) = won})
    IN  [g EXCEPT !.cnt = [j \in DOMAIN @ |-> [lw |-> @[j].lw + count(j, TRUE, TRUE),
                                               ll |-> @[j].ll + count(j, TRUE, FALSE),
                                               sw |-> @[j].sw + count(j, FALSE, TRUE),
                                               sl |-> @[j].sl + count(j, FALSE, FALSE)]]]

-----------------------------------------------------------------------------
(* plan.rs: a cell as the strategy returns it is [levels, sl_pct, max_candles, *)
(* weights, long_win, short_win].                                              *)

UsableLevels(cell) == Only(cell.levels, {i \in DOMAIN cell.levels : cell.levels[i] > 0})

(* How far two price spans overlap, and how far apart (doubled) their middles are. *)
Overlap(g, old) ==
    (IF grid_max(g) < grid_max(old) THEN grid_max(g) ELSE grid_max(old))
      - (IF grid_min(g) > grid_min(old) THEN grid_min(g) ELSE grid_min(old))
MidDistance(g, old) ==
    LET d == grid_min(g) + grid_max(g) - grid_min(old) - grid_max(old)
    IN  IF d < 0 THEN -d ELSE d

(* The old grids that overlap g most, nearest in the middle among equals; the first of them wins. *)
BestMatch(g, prev) ==
    LET cand == {i \in 1..Len(prev) : Overlap(g, prev[i]) > 0}
        better(i, k) == \/ Overlap(g, prev[i]) > Overlap(g, prev[k])
                        \/ /\ Overlap(g, prev[i]) = Overlap(g, prev[k])
                           /\ \/ MidDistance(g, prev[i]) < MidDistance(g, prev[k])
                              \/ MidDistance(g, prev[i]) = MidDistance(g, prev[k]) /\ i < k
    IN  {i \in cand : \A k \in cand \ {i} : better(i, k)}

to_grid(cell, prev) ==
    LET plain == [from_levels(UsableLevels(cell)) EXCEPT !.sl_pct = cell.sl_pct]
        g == with_win_probabilities(with_weights(with_max_candles(plain, cell.max_candles), cell.weights),
                                    cell.long_win, cell.short_win)
        best == BestMatch(g, prev)
    IN  IF best = {} THEN g ELSE with_outcome_counts(g, prev[CHOOSE i \in best : TRUE].cnt)

to_grids(cells, prev) ==
    LET usable == Only(cells, {i \in DOMAIN cells : Len(UsableLevels(cells[i])) >= 2})
    IN  [i \in DOMAIN usable |-> to_grid(usable[i], prev)]

=============================================================================
