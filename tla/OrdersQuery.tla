---------------------------- MODULE OrdersQuery ----------------------------
(***************************************************************************)
(* Reading a trading station over GraphQL: queryTimeseries and orders of   *)
(* api/repl/v1.rs and the profit aggregation of api/repl/pnl.rs.  The      *)
(* station is append-only, so a closed order is still there as the open    *)
(* row it once was; a query is a window of rows, asked for at any time     *)
(* while the strategy goes on writing.  Timestamps are machine integers of *)
(* the width given by MinTs and MaxTs.                                     *)
(***************************************************************************)
EXTENDS Integers, SequencesExt

CONSTANTS OrderIds, Sizes, Sides, Profits,
          MinTs, MaxTs,          \* the i64 range
          Stamps,                \* the from and to that clients send
          MaxClock, MaxRows,     \* bounds: the strategy's clock and its rows
          MAX_QUERY_ROWS, MAX_QUERY_WINDOW_SECS, DefaultLimit,
          Bucket                 \* the width of the one interval besides "0"

ASSUME OrdersQueryAssumption == Stamps \subseteq MinTs..MaxTs

VARIABLES clock, book, reply
qvars == <<clock, book, reply>>

NotGiven == -1                       \* an absent argument
NoReply == [op |-> "none"]
TradingStep == "trading_step"

QueryInit == clock = 0 /\ book = <<>> /\ reply = NoReply

StatusOf(id, to) ==
    LET own == {i \in DOMAIN book : book[i].id = id /\ book[i].ts <= to}
    IN  IF own = {} THEN "none" ELSE book[Max(own)].status

-----------------------------------------------------------------------------
\* The strategy: one row when an order opens, one more when it closes, and a
\* cursor row that belongs to no order.
Write(row) ==
    /\ Len(book) < MaxRows
    /\ book' = Append(book, row)
    /\ reply' = NoReply
    /\ UNCHANGED clock

OpenOrder == \E id \in OrderIds, z \in Sizes, side \in Sides :
    /\ StatusOf(id, MaxClock) = "none"
    /\ Write([id |-> id, ts |-> clock, status |-> "open", size |-> z, pnl |-> 0, side |-> side])

CloseOrder == \E id \in OrderIds, p \in Profits :
    /\ StatusOf(id, MaxClock) = "open"
    /\ LET opened == CHOOSE i \in DOMAIN book : book[i].id = id
       IN  Write([book[opened] EXCEPT !.ts = clock, !.status = "closed", !.pnl = p])

Cursor == Write([id |-> 0, ts |-> clock, status |-> TradingStep, size |-> 0, pnl |-> 0, side |-> ""])

QueryTick == clock < MaxClock /\ clock' = clock + 1 /\ reply' = NoReply /\ UNCHANGED book

-----------------------------------------------------------------------------
Wrapped(n) == ((n - MinTs) % (MaxTs - MinTs + 1)) + MinTs

\* A query is refused, never clamped: a limit out of range, a window that is
\* reversed, that cannot be subtracted or that is too wide.
check_query_bounds(from, to, limit) ==
    /\ limit = NotGiven \/ limit \in 1..MAX_QUERY_ROWS
    /\ from <= to
    /\ to - from \in MinTs..MaxTs
    /\ to - from <= MAX_QUERY_WINDOW_SECS

LimitOf(limit) == IF limit = NotGiven THEN DefaultLimit ELSE limit

\* Absent bounds: to is now, from one window before it, unchecked arithmetic.
ToOf(to) == IF to = NotGiven THEN clock ELSE to
FromOf(from, to) == IF from = NotGiven THEN Wrapped(to - MAX_QUERY_WINDOW_SECS) ELSE from

query_recent(from, to) == SelectSeq(book, LAMBDA r : from <= r.ts /\ r.ts <= to)

\* Rows in the order asked for: the last ones of an ascending list for desc.
order_and_limit(rows, limit, desc) ==
    [rows |-> IF desc THEN Reverse(SubSeq(rows, Max({0, Len(rows) - limit}) + 1, Len(rows)))
                      ELSE SubSeq(rows, 1, Min({Len(rows), limit})),
     truncated |-> Len(rows) > limit]

\* labels.kind and labels.status are two labels; an order row has no kind.
matches_filters(row, status, kind) ==
    /\ status = "any" \/ (row.id # 0 /\ row.status = status)
    /\ kind = "any" \/ (row.id = 0 /\ kind = TradingStep)

\* One row per order: the newest, and of equals the one further down.
dedup_orders_FirstWins(rows) ==
    LET Newest(i) == \A j \in DOMAIN rows : rows[j].id = rows[i].id =>
                        rows[j].ts < rows[i].ts \/ (rows[j].ts = rows[i].ts /\ i <= j)
        kept == {i \in DOMAIN rows : rows[i].id = 0 \/ Newest(i)}
    IN  [n \in 1..Cardinality(kept) |-> rows[SetToSortSeq(kept, <)[n]]]

dedup_orders(rows) ==
    LET Newest(i) == \A j \in DOMAIN rows : rows[j].id = rows[i].id =>
                        rows[j].ts < rows[i].ts \/ (rows[j].ts = rows[i].ts /\ j <= i)
        kept == {i \in DOMAIN rows : rows[i].id = 0 \/ Newest(i)}
    IN  [n \in 1..Cardinality(kept) |-> rows[SetToSortSeq(kept, <)[n]]]

-----------------------------------------------------------------------------
\* pnl.rs.  Rates are per unit of size; the averages finalize derives are the
\* sums below divided by their counts.
align_bucket(ts, width) == IF width = 0 THEN 0 ELSE (ts \div width) * width

PnlBucket(rows) ==
    LET closed == {i \in DOMAIN rows : rows[i].status = "closed"}
        won == {i \in closed : rows[i].pnl > 0}
        Abs(S) == MapThenSumSet(LAMBDA i : rows[i].size * rows[i].pnl, S)
        open == {i \in DOMAIN rows : rows[i].status = "open" /\ rows[i].size > 0}
    IN  [trades |-> Cardinality(closed), wins |-> Cardinality(won), losses |-> Cardinality(closed \ won),
         net |-> Abs(closed), profit |-> Abs(won), loss |-> Abs(closed \ won),
         notional |-> MapThenSumSet(LAMBDA i : rows[i].size, closed),
         longs |-> Cardinality({i \in closed : rows[i].side = "long"}), open |-> Cardinality(open)]

\* Every bucket between the first and the last that has an order, empty ones
\* too.
Buckets(rows, width) ==
    LET orders == SelectSeq(rows, LAMBDA r : r.status \in {"open", "closed"})
        used == {align_bucket(orders[i].ts, width) : i \in DOMAIN orders}
        all == IF used = {} \/ width = 0 THEN used
               ELSE {b \in Min(used)..Max(used) : (b - Min(used)) % width = 0}
    IN  [b \in all |-> PnlBucket(SelectSeq(orders, LAMBDA r : align_bucket(r.ts, width) = b))]

\* The total is the raw sum of the buckets.
roll_up_raw(buckets) ==
    [f \in {"trades", "wins", "losses", "net", "profit", "loss", "notional", "longs", "open"} |->
        MapThenSumSet(LAMBDA b : buckets[b][f], DOMAIN buckets)]

\* Twice the rate of the first component that states one.
fee_roundtrip(rate) == IF rate = NotGiven THEN 4 ELSE 2 * rate

\* Orders that are still open, at the mark price, in a field of their own.
\* Every order enters at the price of 10.
Unrealized(rows, mark, fee) ==
    LET open == {i \in DOMAIN rows : rows[i].status = "open"}
        Gain(r) == (IF r.side = "long" THEN mark - 10 ELSE 10 - mark) - fee
    IN  IF mark = NotGiven THEN 0 ELSE MapThenSumSet(LAMBDA i : rows[i].size * Gain(rows[i]), open)

aggregate(rows, width, mark, fee) ==
    [total |-> roll_up_raw(Buckets(rows, width)), buckets |-> Buckets(rows, width),
     unrealized |-> Unrealized(rows, mark, fee)]

-----------------------------------------------------------------------------
Refused == reply' = [op |-> "refused"]

query_timeseries(f, t, limit, desc, status, kind) ==
    LET to == ToOf(t)  from == FromOf(f, to)
        matched == SelectSeq(query_recent(from, to), LAMBDA r : matches_filters(r, status, kind))
        cut == order_and_limit(matched, LimitOf(limit), desc)
    IN  IF check_query_bounds(from, to, limit)
        THEN reply' = [op |-> "query", from |-> from, to |-> to, desc |-> desc, all |-> matched, rows |-> cut.rows,
                       truncated |-> cut.truncated, limit |-> LimitOf(limit)]
        ELSE Refused

\* Cursor rows and order rows, one row per order, and only then the status
\* filter; the profit is taken over what the filter leaves.
orders(f, t, limit, desc, status, width, mark, rate) ==
    LET to == ToOf(t)  from == FromOf(f, to)
        deduped == dedup_orders(query_recent(from, to))
        filtered == SelectSeq(deduped, LAMBDA r : status = "any" \/ r.id = 0 \/ r.status = status)
        cut == order_and_limit(filtered, LimitOf(limit), desc)
    IN  IF check_query_bounds(from, to, limit)
        THEN reply' = [op |-> "orders", from |-> from, to |-> to, desc |-> desc, all |-> filtered, rows |-> cut.rows,
                       truncated |-> cut.truncated, limit |-> LimitOf(limit), status |-> status,
                       pnl |-> aggregate(filtered, width, mark, fee_roundtrip(rate))]
        ELSE Refused

\* An answer is kept until the strategy goes on: one query per state of the
\* station, which changes nothing.
Ask == /\ reply.op = "none"
       /\ UNCHANGED <<clock, book>>

AskTimeseries == \E f, t \in Stamps \cup {NotGiven}, limit \in {NotGiven, 0, MAX_QUERY_ROWS, MAX_QUERY_ROWS + 1}, desc \in BOOLEAN,
                    filter \in {<<"any", "any">>, <<"closed", "any">>, <<"any", TradingStep>>} :
    Ask /\ query_timeseries(f, t, limit, desc, filter[1], filter[2])

AskOrders == \E f, t \in Stamps \cup {NotGiven}, limit \in {NotGiven, MAX_QUERY_ROWS}, desc \in BOOLEAN,
                status \in {"any", "open", "closed"},
                pnl \in {<<0, NotGiven, NotGiven>>, <<Bucket, 12, NotGiven>>, <<Bucket, 12, 1>>} :
    Ask /\ orders(f, t, limit, desc, status, pnl[1], pnl[2], pnl[3])

QueryNext == OpenOrder \/ CloseOrder \/ Cursor \/ QueryTick \/ AskTimeseries \/ AskOrders

-----------------------------------------------------------------------------
\* No client can make the server scan more than the window it allows, not
\* even with bounds whose difference does not fit the integer.
WindowBounded ==
    reply.op \in {"query", "orders"} => reply.to - reply.from \in 0..MAX_QUERY_WINDOW_SECS

\* A row shown for an order is the state of that order at the end of the
\* window: an order that has closed by then is never shown as open, though
\* the station still holds the row that opened it.
OrdersCurrent ==
    reply.op = "orders" =>
        \A i \in DOMAIN reply.rows : reply.rows[i].id # 0 =>
            reply.rows[i].status = StatusOf(reply.rows[i].id, reply.to)

\* What a limit leaves out of a descending answer is never newer than what it
\* shows, and something is left out exactly when the answer says so.
NewestShown ==
    reply.op \in {"query", "orders"} =>
        /\ reply.truncated <=> Len(reply.rows) < Len(reply.all)
        /\ reply.desc => \A i \in DOMAIN reply.rows :
               reply.rows[i] = reply.all[Len(reply.all) + 1 - i]

\* The buckets of a window add up to what the orders that closed in it made,
\* each order once, whatever the interval; orders that are still open are in
\* the unrealized figure alone.
PnlIsRealized ==
    reply.op = "orders" /\ reply.status # "open" =>
        LET ended == {i \in DOMAIN book : book[i].status = "closed" /\ reply.from <= book[i].ts /\ book[i].ts <= reply.to}
        IN  /\ reply.pnl.total["net"] = MapThenSumSet(LAMBDA i : book[i].size * book[i].pnl, ended)
            /\ reply.pnl.total["trades"] = Cardinality(ended)
            /\ reply.pnl.total["net"] = reply.pnl.total["profit"] + reply.pnl.total["loss"]

\* What the two queries answer: bounded windows, orders as they stand at the
\* end of the window, the newest rows under a limit, and the realized result.
AnswersSound == WindowBounded /\ OrdersCurrent /\ NewestShown /\ PnlIsRealized
=============================================================================
