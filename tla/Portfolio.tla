------------------------------- MODULE Portfolio -------------------------------
(***************************************************************************)
(* The trading kernel (opsense-qlib portfolio.rs): one call of forward     *)
(* takes one candle through rebuild, exits and entries on a session.  It   *)
(* is a function of the session, the candles it can fetch and the outcome  *)
(* of the strategy; the back test and the live node call the same kernel.  *)
(* A candle is [t, o, h, l]; the open orders are a set, because a restored *)
(* session lists them in no order.                                         *)
(***************************************************************************)
EXTENDS TradingGrid

CONSTANTS Settlement,      \* T+N: candles an order is held at least
          MinRR,           \* reward to risk asked of a take profit, 0 = next level
          FeeRate,         \* one-way fee, per cent
          KellyFraction, BaseCapital,
          ReviewInterval,  \* Strategy::next adds it
          Step             \* to_timestamp_secs of the trading resolution

ASSUME KernelParams == /\ {Settlement, MinRR, FeeRate, KellyFraction, BaseCapital, ReviewInterval} \subseteq Nat
                       /\ Step \in Nat \ {0}

round_trip_rate == 2 * FeeRate

(* Session::new *)
NewSession == [orders |-> {}, history |-> {}, plan |-> <<>>, review_at |-> 0,
               candle_seq |-> 0, candle_id |-> 0, candle_ts |-> 0, next_ts |-> 0]

(* Strategy::next and Calendar::next (crypto: every step of the day). *)
strategy_next(t) == t + ReviewInterval
calendar_next(t) == t + Step

-----------------------------------------------------------------------------
(* Exits. *)

hit_sl(o, c) == IF o.long THEN c.l <= o.sl ELSE c.h >= o.sl
hit_tp(o, c) == IF o.long THEN c.h >= o.tp ELSE c.l <= o.tp

check_order_exit(o, c, seq) == seq >= o.unlock /\ (hit_sl(o, c) \/ hit_tp(o, c))

(* The stop loss goes first; a candle that opens beyond the price fills at its open. *)
exit_price(o, c) ==
    LET p == IF hit_sl(o, c) THEN o.sl ELSE o.tp
        down == hit_sl(o, c) = o.long
    IN  IF (down /\ c.o < p) \/ (~down /\ c.o > p) THEN c.o ELSE p

(* Fee::net_pnl_pct, as per cent times the entry price. *)
net_pnl(o, exit) == 100 * (IF o.long THEN exit - o.entry ELSE o.entry - exit) - round_trip_rate * o.entry

Closed(o, c) == [order |-> o, exit |-> exit_price(o, c), pnl |-> net_pnl(o, exit_price(o, c)), t |-> c.t]

(* The outcomes of the closed orders, booked by index on the plan of now. *)
BookOutcomes(plan, closed) ==
    [i \in DOMAIN plan |-> record_trade_outcome(plan[i], {x \in closed : x.order.grid = i})]

-----------------------------------------------------------------------------
(* Entries. *)

(* Kelly: 10^4 times kelly is 100 p - (100 - p) sl with p and sl in per cent. *)
calculate_order_size(win_p, sl_pct) ==
    IF win_p <= 0 \/ win_p >= 100 \/ sl_pct <= 0 THEN 0
    ELSE LET kelly == 100 * win_p - (100 - win_p) * sl_pct
         IN  BaseCapital * (IF kelly > 0 THEN kelly * KellyFraction ELSE 0)

touched_levels(g, c) == {j \in 1..num_levels(g) : c.l <= g.levels[j] /\ g.levels[j] <= c.h}

is_long(g, j) == 2 * g.levels[j] <= grid_min(g) + grid_max(g)

take_profit(g, j) ==
    CASE MinRR > 0 -> tp_for_rr(g, j, MinRR, is_long(g, j))
      [] MinRR = 0 /\ is_long(g, j) -> {tp_above(g, j)}
      [] OTHER -> {tp_below(g, j)}

(* The gate: the profit at the take profit must exceed the fee of both ways. *)
pays_fee(g, j, tp) ==
    100 * (IF is_long(g, j) THEN tp - g.levels[j] ELSE g.levels[j] - tp) > round_trip_rate * g.levels[j]

(* The touched levels of grid i at which no order is open. *)
free_levels(i, g, c, orders) ==
    {j \in touched_levels(g, c) : ~\E o \in orders : o.grid = i /\ o.level = j}

(* The order placed at level j of grid i with take profit tp: none unless the gate and Kelly's size agree. *)
NewOrders(i, g, j, tp, id, unlock) ==
    LET long == is_long(g, j)
        win_p == ((IF long THEN g.long_win_p[j] ELSE g.short_win_p[j]) * weight(g, j, id)) \div 100
        size == calculate_order_size(win_p, g.sl_pct)
    IN  IF ~pays_fee(g, j, tp) \/ size = 0 THEN {}
        ELSE {[long |-> long, entry |-> g.levels[j], size |-> size, tp |-> tp, unlock |-> unlock,
               sl |-> IF long THEN sl_long(g, j) ELSE sl_short(g, j), grid |-> i, level |-> j]}

(* The orders open_orders places for candle c; id is the candle of the review window. *)
open_orders(id, c, plan, orders, unlock) ==
    UNION {UNION {UNION {NewOrders(i, plan[i], j, tp, id, unlock) : tp \in take_profit(plan[i], j)}
                    : j \in free_levels(i, plan[i], c, orders)}
             : i \in DOMAIN plan}

-----------------------------------------------------------------------------
(* One call of the kernel. *)

(* What a call returns: the session, the events it notified and whether it failed. *)
Result(s, rebuilt, closed, placed, err) ==
    [session |-> s, rebuilt |-> rebuilt, closed |-> closed, placed |-> placed, err |-> err]

(* Exits, then entries, for the first unseen candle. *)
TradeCandle(s, c, rebuilt) ==
    LET seq == s.candle_seq + 1
        closed == {Closed(o, c) : o \in {x \in s.orders : check_order_exit(x, c, seq)}}
        kept == {o \in s.orders : ~check_order_exit(o, c, seq)}
        plan == BookOutcomes(s.plan, closed)
        placed == open_orders(s.candle_id, c, plan, kept, seq + Settlement)
    IN  Result([s EXCEPT !.candle_seq = seq, !.plan = plan, !.orders = kept \cup placed,
                         !.history = @ \cup closed, !.candle_id = @ + 1, !.candle_ts = c.t,
                         !.next_ts = calendar_next(c.t)],
               rebuilt, closed, placed, FALSE)

(* Fetch [next_ts, review_at): the plan of now serves no candle of the next review. *)
FetchRange(s) == <<s.next_ts, IF s.review_at > s.next_ts THEN s.review_at ELSE s.next_ts>>

Advance(s, fetched, rebuilt) ==
    LET fresh == {c \in fetched : c.t > s.candle_ts}
    IN  IF fresh = {} THEN Result([s EXCEPT !.next_ts = calendar_next(@)], rebuilt, {}, {}, FALSE)
        ELSE TradeCandle(s, CHOOSE c \in fresh : \A d \in fresh : c.t <= d.t, rebuilt)

rebuild_due(s) == s.review_at <= s.next_ts

(* A failed rebuild moves the review on and takes no candle. *)
FailedRebuild(s) == Result([s EXCEPT !.review_at = strategy_next(s.next_ts)], FALSE, {}, {}, TRUE)

Rebuild(s, cells) == [s EXCEPT !.review_at = strategy_next(s.next_ts),
                               !.plan = to_grids(cells, @), !.candle_id = 0]

(* forward with a fetch that answers from series. *)
forward(s, series, fails, cells) ==
    IF rebuild_due(s) /\ fails THEN FailedRebuild(s)
    ELSE LET s1 == IF rebuild_due(s) THEN Rebuild(s, cells) ELSE s
             r == FetchRange(s1)
         IN  Advance(s1, {c \in series : r[1] <= c.t /\ c.t < r[2]}, rebuild_due(s))

=============================================================================
