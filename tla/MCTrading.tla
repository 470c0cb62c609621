------------------------------ MODULE MCTrading ------------------------------
(***************************************************************************)
(* Live trading and what is read from it: the node that keeps its session  *)
(* in a station, the queries over its records, the report of a history.    *)
(* part says which one moves.                                              *)
(***************************************************************************)
EXTENDS LiveOrders, OrdersQuery, TradeReport

VARIABLE part
Parts == {"live", "query", "report"}

(* Candles around levels 200, 220, 240: at the lowest, up through the take profit of 220 and *)
(* the stop loss of a short at 220, and one that opens below the stop loss of a long at 200.  *)
MCShapes == {[o |-> 202, h |-> 204, l |-> 198], [o |-> 210, h |-> 233, l |-> 209],
             [o |-> 185, h |-> 187, l |-> 183]}

Cell(levels) == [levels |-> levels, sl_pct |-> 5, max_candles |-> 2, weights |-> [j \in DOMAIN levels |-> 100],
                 long_win |-> [j \in DOMAIN levels |-> 60], short_win |-> [j \in DOMAIN levels |-> 60]]

(* A plan of three levels for one candle, one of two grids of which the first has levels too *)
(* close to pay the fee, none.                                                               *)
MCPlans == {<<[Cell(<<200, 220, 240>>) EXCEPT !.max_candles = 1]>>,
            <<Cell(<<210, 200>>), Cell(<<200, 220>>)>>, <<>>}

MCProfits == {-1, 2}
MCMinTs == -8
MCStamps == {-8, 1, 7}
MCPnls == {-2, 0, 1, 3}

TradingInit == part \in Parts /\ Init /\ QueryInit /\ ReportInit

TradingNext ==
  /\ UNCHANGED part
  /\ \/ part = "live" /\ Next /\ UNCHANGED <<qvars, reportvars>>
     \/ part = "query" /\ QueryNext /\ UNCHANGED <<vars, reportvars>>
     \/ part = "report" /\ ReportNext /\ UNCHANGED <<vars, qvars>>

TradingSpec == TradingInit /\ [][TradingNext]_<<part, vars, qvars, reportvars>>
=============================================================================
