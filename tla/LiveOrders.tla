------------------------------ MODULE LiveOrders ------------------------------
(***************************************************************************)
(* The live trading node (opsense-rhai orders.rs).  portfolio_feed keeps   *)
(* nothing in memory: every call restores the session from the             *)
(* observations the node wrote to its own station, runs the kernel on one  *)
(* closed candle and returns the observations to write.  The script hands  *)
(* it the orders, then the cursors, then the plans of the last Window      *)
(* seconds, and does not call it for a candle a cursor already covers.     *)
(*                                                                         *)
(* now is the time of the last closed candle and obs the station; the rest *)
(* is history: last is the session at the end of the last call and traded  *)
(* the candles the kernel took.                                            *)
(***************************************************************************)
EXTENDS Portfolio

CONSTANTS Shapes,      \* the candles a market can close, as [o, h, l]
          Plans,       \* what the strategy can build: sequences of cells
          Window,      \* how far back the script reads its station
          MaxCandles,  \* bound on the candles of a behaviour
          MaxFaults    \* bound on records that become unreadable

Cells == [levels : Seq(Nat), sl_pct : Nat, max_candles : Nat, weights : Seq(Nat),
          long_win : Seq(Nat), short_win : Seq(Nat)]

ASSUME LiveParams == /\ Window \in Nat /\ MaxCandles \in Nat /\ MaxFaults \in Nat
                     /\ Shapes \subseteq [o : Nat, h : Nat, l : Nat]
                     /\ Plans \subseteq Seq(Cells)

VARIABLES now, obs, faults, last, traded

vars == <<now, obs, faults, last, traded>>

Init == now = 0 /\ obs = {} /\ faults = 0 /\ last = NewSession /\ traded = {}

-----------------------------------------------------------------------------
(* Records of the station. *)

open_observation(t, id, o) == [kind |-> "order", ts |-> t, id |-> id, status |-> "open", order |-> o]
closed_observation(id, x) == [kind |-> "order", ts |-> x.t, id |-> id, status |-> "closed", order |-> x.order,
                              exit |-> x.exit, pnl |-> x.pnl]
plan_observation(t, plan) == [kind |-> "plan", ts |-> t, plan |-> plan, readable |-> TRUE]

step_cursor(t, seq, review, id) == [kind |-> "step", ts |-> t, seq |-> seq, review |-> review, candle |-> id]

(* PlanCell: a grid is written with weight_cols columns and read back column by column. *)
PlanCell(g) == [g EXCEPT !.weights = [j \in DOMAIN @ |-> [t \in 1..weight_cols(g) |-> weight(g, j, t - 1)]]]
ReadCell(p) ==
    [with_weight_matrix(with_max_candles([from_levels(p.levels) EXCEPT !.sl_pct = p.sl_pct], p.max_candles),
                        p.weights)
       EXCEPT !.long_win_p = p.long_win_p, !.short_win_p = p.short_win_p, !.cnt = p.cnt]

(* What the script reads at time t: its three queries of the last Window seconds. *)
Read(t) == {x \in obs : t - Window <= x.ts /\ x.ts <= t}
Orders(seen) == {x \in seen : x.kind = "order"}
Cursors(seen) == {x \in seen : x.kind = "step"}
PlanRecords(seen) == {x \in seen : x.kind = "plan"}

-----------------------------------------------------------------------------
(* State::from_observations *)

closed_ids(seen) == {x.id : x \in {y \in Orders(seen) : y.status = "closed"}}

(* An id is the time and a number: o<ts>-<n>. *)
Later(i, k) == i[1] > k[1] \/ (i[1] = k[1] /\ i[2] > k[2])

(* The open records that still count: the last one of each (grid, level), unless its id was closed. *)
OpenRecords(seen) ==
    LET opened == {x \in Orders(seen) : x.status = "open"}
        newest(x) == \A y \in opened :
                       (y.order.grid = x.order.grid /\ y.order.level = x.order.level) => ~Later(y.id, x.id)
    IN  {x \in opened : newest(x) /\ x.id \notin closed_ids(seen)}

(* An unreadable plan clears the plans read before it and asks for a rebuild; the *)
(* plans come after the cursors, so no cursor overrides that.                      *)
RestoredPlan(seen) ==
    LET bad == {x \in PlanRecords(seen) : ~x.readable}
        good == {x \in PlanRecords(seen) : x.readable /\ \A y \in bad : y.ts < x.ts}
    IN  IF good = {} THEN <<>>
        ELSE LET p == (CHOOSE x \in good : \A y \in good : y.ts <= x.ts).plan
             IN  [i \in DOMAIN p |-> ReadCell(p[i])]

MaxOf(f(_), S) == Max({f(x) : x \in S} \cup {0})
cursor_seq(x) == x.seq
cursor_ts(x) == x.ts
cursor_review(x) == x.review
cursor_id(x) == x.candle

RestoredSeqLost(seen) == 0

RestoredSeq(seen) == MaxOf(cursor_seq, Cursors(seen))

RestoredReview(seen) ==
    IF \E x \in PlanRecords(seen) : ~x.readable THEN 0 ELSE MaxOf(cursor_review, Cursors(seen))

from_observations(seen) ==
    [NewSession EXCEPT
       !.orders = {x.order : x \in OpenRecords(seen)},
       !.history = {[order |-> x.order, exit |-> x.exit, pnl |-> x.pnl, t |-> x.ts] :
                      x \in {y \in Orders(seen) : y.status = "closed"}},
       !.candle_seq = RestoredSeq(seen),
       !.candle_ts = MaxOf(cursor_ts, Cursors(seen)),
       !.review_at = RestoredReview(seen),
       !.candle_id = MaxOf(cursor_id, Cursors(seen)),
       !.plan = RestoredPlan(seen)]

next_id(seen) == Max({x.id[2] + 1 : x \in Orders(seen)} \cup {1})

-----------------------------------------------------------------------------
(* feed *)

(* The orders placed in one call are numbered in the order of grid and level. *)
PlacedId(t, first, placed, o) ==
    <<t, first + Cardinality({p \in placed : p.grid < o.grid \/ (p.grid = o.grid /\ p.level < o.level)})>>

(* A closed order takes the id under which it is open. *)
ClosedId(seen, first, x) ==
    LET mine == {r \in OpenRecords(seen) : r.order.grid = x.order.grid /\ r.order.level = x.order.level}
    IN  IF mine = {} THEN <<x.t, first>> ELSE (CHOOSE r \in mine : TRUE).id

PlanToWriteRebuiltOnly(r, t) ==
    IF r.rebuilt /\ r.session.plan # <<>>
      THEN {plan_observation(t, [i \in DOMAIN r.session.plan |-> PlanCell(r.session.plan[i])])}
      ELSE {}

(* The plan is written when it was rebuilt or a counter of it moved. *)
PlanToWrite(r, t) ==
    IF (r.rebuilt \/ r.closed # {}) /\ r.session.plan # <<>>
      THEN {plan_observation(t, [i \in DOMAIN r.session.plan |-> PlanCell(r.session.plan[i])])}
      ELSE {}

(* The observations a call of the kernel turns into. *)
Written(seen, r, t) ==
    {open_observation(t, PlacedId(t, next_id(seen), r.placed, o), o) : o \in r.placed}
      \cup {closed_observation(ClosedId(seen, next_id(seen), x), x) : x \in r.closed}
      \cup PlanToWrite(r, t)
      \cup {step_cursor(t, r.session.candle_seq, r.session.review_at, r.session.candle_id)}

already_traded(seen, t) == \E x \in Cursors(seen) : x.ts >= t

(* A candle closes. *)
Tick == now < MaxCandles * Step /\ now' = now + Step

(* The node does not see it: it is down, the message is lost, the script pauses or *)
(* thins out its calls, the candle has no price or the settings build no portfolio. *)
Skip == Tick /\ UNCHANGED <<obs, faults, last, traded>>

(* Fewer than ten candles to analyse: only the cursor is written. *)
FeedShort ==
    LET t == now + Step
        s == from_observations(Read(t))
    IN  /\ Tick
        /\ ~already_traded(Read(t), t)
        /\ obs' = obs \cup {step_cursor(t, s.candle_seq, s.review_at, s.candle_id)}
        /\ last' = s
        /\ UNCHANGED <<faults, traded>>

(* The session of a call at time t. *)
Restored(seen, t) == [from_observations(seen) EXCEPT !.next_ts = t]

(* portfolio_feed: the kernel takes the candle on the session restored from what the script *)
(* read; the call returns the session it ended with and the records to write.               *)
portfolio_feed(seen, s, c, outcome) ==
    LET r == forward(s, {c}, outcome[1], outcome[2])
    IN  [session |-> r.session, records |-> Written(seen, r, c.t)]

(* What the strategy may do in a call: nothing, or fail or build a plan when a rebuild is due. *)
Outcomes(s) == IF rebuild_due(s) THEN {<<TRUE, <<>>>>} \cup ({FALSE} \X Plans) ELSE {<<FALSE, <<>>>>}

(* The kernel runs on the candle, and the script writes what the call returned. *)
Feed(shape) ==
    LET t == now + Step
        c == [t |-> t, o |-> shape.o, h |-> shape.h, l |-> shape.l]
        seen == Read(t)
        s == Restored(seen, t)
    IN  /\ Tick
        /\ ~already_traded(seen, t)
        /\ \E outcome \in Outcomes(s) :
             LET r == portfolio_feed(seen, s, c, outcome)
             IN  /\ obs' = obs \cup r.records
                 /\ last' = r.session
                 /\ traded' = IF r.session.candle_ts = t THEN traded \cup {c} ELSE traded
        /\ UNCHANGED faults

(* A plan record that can no longer be read. *)
CorruptPlan ==
    /\ faults < MaxFaults
    /\ \E x \in PlanRecords(obs) :
         /\ x.readable
         /\ obs' = (obs \ {x}) \cup {[x EXCEPT !.readable = FALSE]}
    /\ faults' = faults + 1
    /\ UNCHANGED <<now, last, traded>>

Next == Skip \/ FeedShort \/ (\E shape \in Shapes : Feed(shape)) \/ CorruptPlan

Spec == Init /\ [][Next]_vars

-----------------------------------------------------------------------------
(* Properties. *)

Opened == {x \in Orders(obs) : x.status = "open"}
ClosedRecords == {x \in Orders(obs) : x.status = "closed"}
StillOpen == {x \in Opened : \A y \in ClosedRecords : y.id # x.id}

(* A plan as it is used.  A grid for one candle is read back as one without a limit,    *)
(* and nothing but weight_cols, which is 1 for both, looks at that limit.               *)
Used(plan) == [i \in DOMAIN plan |-> [plan[i] EXCEPT !.max_candles = weight_cols(plan[i])]]

(* The next call restores what the last one ended with, as long as the script still    *)
(* reads every record: the orders, the history, the sequence number that T+N counts in, *)
(* the next review and the plan with its counters (from_observations after feed).       *)
SessionSurvives ==
    (Read(now) = obs /\ faults = 0) =>
      LET s == from_observations(Read(now))
      IN  /\ s.orders = last.orders /\ s.history = last.history
          /\ s.candle_seq = last.candle_seq /\ s.review_at = last.review_at
          /\ last.plan # <<>> => Used(s.plan) = Used(last.plan)

(* A plan that can no longer be read does not leave the node without a plan until the *)
(* next review: either a plan is restored or the next call rebuilds it.                *)
CorruptNeverStrands ==
    (Read(now) = obs /\ last.plan # <<>>) =>
      LET s == from_observations(Read(now)) IN s.plan # <<>> \/ s.review_at <= now

(* Two orders are never open at one level of one grid, unless the station window had  *)
(* forgotten the first when the second was placed (the taken test of open_orders).    *)
NoDoubleOrder ==
    \A x, y \in StillOpen :
      (x # y /\ x.order.grid = y.order.grid /\ x.order.level = y.order.level /\ Later(y.id, x.id))
        => x.ts < y.ts - Window

(* T+N across restarts: Settlement candles are traded between the open and the close. *)
HeldForSettlement ==
    \A x \in Opened, y \in ClosedRecords :
      x.id = y.id => /\ x.order = y.order
                     /\ Cardinality({c \in traded : x.ts < c.t /\ c.t <= y.ts}) >= Settlement

(* An order the script still reads, and that was held long enough, is closed by the   *)
(* first candle that reaches its stop loss or its take profit.                         *)
NoMissedExit ==
    \A x \in StillOpen, c \in traded :
      (/\ x.ts < c.t /\ x.ts >= c.t - Window
       /\ Cardinality({d \in traded : x.ts < d.t /\ d.t <= c.t}) >= Settlement)
        => ~hit_sl(x.order, c) /\ ~hit_tp(x.order, c)

(* A trade that ends at its take profit earns more than the fees of both ways. *)
TakeProfitPays ==
    \A y \in ClosedRecords :
      (\E c \in traded : c.t = y.ts /\ ~hit_sl(y.order, c)) => y.pnl > 0

(* A call goes on from where the last one ended, also after a plan was damaged. *)
SessionKept == SessionSurvives /\ CorruptNeverStrands

(* The life of an order across the calls: opened once, held, closed in time, and for a gain. *)
OrdersKept == NoDoubleOrder /\ HeldForSettlement /\ NoMissedExit /\ TakeProfitPays

=============================================================================
