----------------------------- MODULE TradeReport -----------------------------
(***************************************************************************)
(* The report of an evaluation (opsense-qlib portfolio.rs): one walk over  *)
(* the closed orders in the order they closed, then the ratios the         *)
(* optimizer scores a trial by.  A closed order is [long, size, pnl] with  *)
(* pnl in whole per mille; a ratio is a pair <<numerator, denominator>>,   *)
(* Infinite where the code says INFINITY, and of a square root the square. *)
(***************************************************************************)
EXTENDS Integers, Sequences, FiniteSets, FiniteSetsExt, SequencesExt

CONSTANTS Pnls, OrderSizes, MaxTrades   \* bound on the orders of an evaluation

VARIABLE closed   \* Session::history

reportvars == <<closed>>

ReportInit == closed = <<>>

(* An order closes and is appended to the history. *)
AppendClosed(long, size, pnl) ==
    /\ Len(closed) < MaxTrades
    /\ closed' = Append(closed, [long |-> long, size |-> size, pnl |-> pnl])

(* The next evaluation starts from a new session. *)
NewEvaluation == closed # <<>> /\ closed' = <<>>

ReportNext == NewEvaluation \/ \E long \in BOOLEAN, size \in OrderSizes, pnl \in Pnls : AppendClosed(long, size, pnl)

-----------------------------------------------------------------------------
(* The walk. *)

Bigger(a, b) == IF a > b THEN a ELSE b

Start == [peak |-> 0, drawdown |-> 0, equity |-> 0, losing |-> 0, streak |-> 0,
          long |-> 0, long_wins |-> 0, short |-> 0, short_wins |-> 0,
          profit |-> 0, loss |-> 0, wins |-> 0, trades |-> 0, abs |-> 0, squares |-> 0, down |-> 0]

(* Mutant: the running streak is not reset by a winning order. *)
Losing_KeepsStreak(losing, pnl) == IF pnl > 0 THEN losing ELSE losing + 1
Losing(losing, pnl) == IF pnl > 0 THEN 0 ELSE losing + 1

WalkOrder(w, order) ==
    LET pnl == order.pnl
        equity == w.equity + pnl
        losing == Losing(w.losing, pnl)
        count(yes) == IF yes THEN 1 ELSE 0
    IN  [peak |-> Bigger(w.peak, equity),
         drawdown |-> IF equity > w.peak THEN w.drawdown ELSE Bigger(w.drawdown, w.peak - equity),
         equity |-> equity, losing |-> losing, streak |-> Bigger(w.streak, losing),
         long |-> w.long + count(order.long), long_wins |-> w.long_wins + count(order.long /\ pnl > 0),
         short |-> w.short + count(~order.long), short_wins |-> w.short_wins + count(~order.long /\ pnl > 0),
         profit |-> w.profit + Bigger(pnl, 0), loss |-> w.loss + Bigger(-pnl, 0),
         wins |-> w.wins + count(pnl > 0), trades |-> w.trades + 1, abs |-> w.abs + order.size * pnl,
         squares |-> w.squares + pnl * pnl, down |-> w.down + Bigger(-pnl, 0) * Bigger(-pnl, 0)]

Walk(orders) == FoldLeft(WalkOrder, Start, orders)

-----------------------------------------------------------------------------
(* The ratios. *)

Zero == <<0, 1>>
Infinite == <<1, 0>>
RatioOr(n, d, otherwise) == IF d > 0 THEN <<n, d>> ELSE otherwise
Times(a, b) == <<a[1] * b[1], a[2] * b[2]>>
Minus(a, b) == <<a[1] * b[2] - b[1] * a[2], a[2] * b[2]>>
Same(a, b) == a[1] * b[2] = b[1] * a[2]

(* A report of at least one order; the history of no order has the default report. *)
convert_order_history_into_report(orders) ==
    LET w == Walk(orders)
        losses == w.trades - w.wins
        avg_win == RatioOr(w.profit, w.wins, Zero)
        avg_loss == RatioOr(w.loss, losses, Zero)
        deviation == w.trades * w.squares - w.equity * w.equity
    IN  [total_trades |-> w.trades, win_rate |-> <<w.wins, w.trades>>, net_pnl_pct |-> w.equity,
         net_pnl_abs |-> w.abs,
         profit_factor |-> RatioOr(w.profit, w.loss, Infinite),
         expectancy |-> Minus(Times(<<w.wins, w.trades>>, avg_win), Times(<<losses, w.trades>>, avg_loss)),
         win_loss_ratio |-> RatioOr(avg_win[1] * avg_loss[2], avg_win[2] * avg_loss[1], Infinite),
         sharpe_ratio |-> RatioOr(w.trades * w.equity * w.equity, deviation, Zero),
         sortino_ratio |-> RatioOr(w.equity * w.equity, w.down, Zero),
         calmar_ratio |-> RatioOr(w.equity, w.drawdown, Zero),
         max_drawdown_pct |-> w.drawdown, max_consecutive_losses |-> w.streak,
         avg_win_pct |-> avg_win, avg_loss_pct |-> avg_loss,
         long_trades |-> w.long, long_win_rate |-> RatioOr(w.long_wins, w.long, Zero),
         short_trades |-> w.short, short_win_rate |-> RatioOr(w.short_wins, w.short, Zero)]

-----------------------------------------------------------------------------
(* Property. *)

Equity(i) == FoldLeft(LAMBDA sum, order : sum + order.pnl, 0, SubSeq(closed, 1, i))
Moments == 0..Len(closed)
LosingRuns == {j - i + 1 : <<i, j>> \in {r \in (1..Len(closed)) \X (1..Len(closed)) :
                              r[1] <= r[2] /\ \A k \in r[1]..r[2] : closed[k].pnl <= 0}}

(* The one-pass report says what its fields mean: the drawdown is the deepest fall of the  *)
(* equity from any earlier moment (the start included), the streak the longest run of      *)
(* orders without a win, the expectancy the mean result, the profit factor is above one    *)
(* exactly when the evaluation earned, and a perfect report (no drawdown) has no loss.     *)
ReportAddsUp ==
    closed # <<>> =>
      LET r == convert_order_history_into_report(closed)
      IN  /\ r.max_drawdown_pct = Max({Equity(i) - Equity(j) : <<i, j>> \in {m \in Moments \X Moments : m[1] <= m[2]}})
          /\ r.max_consecutive_losses = Max(LosingRuns \cup {0})
          /\ Same(r.expectancy, <<Equity(Len(closed)), Len(closed)>>)
          /\ (r.profit_factor[1] > r.profit_factor[2]) = (r.net_pnl_pct > 0 \/ \A i \in DOMAIN closed : closed[i].pnl >= 0)
          /\ r.long_trades + r.short_trades = r.total_trades
          /\ r.max_drawdown_pct = 0 => \A i \in DOMAIN closed : closed[i].pnl >= 0
=============================================================================
