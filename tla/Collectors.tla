----------------------------- MODULE Collectors -----------------------------
(***************************************************************************)
(* The pipeline components that bring data in and send notifications out.  *)
(*                                                                         *)
(*  - the tick feed: Websocket2Json keeps one connection to the exchange   *)
(*    and Tick2Candle folds the ticks into candles (Feed...);              *)
(*  - http_origin and http_source: scan cycles, fault and recovery events, *)
(*    the station they write (Http...);                                    *)
(*  - the template variables of a request (Vars...);                       *)
(*  - the Telegram sink under the engine's restart (Tg...).                *)
(*                                                                         *)
(* Times are seconds; a price of 0 stands for one that tick_price refuses. *)
(***************************************************************************)
EXTENDS Integers, Sequences, FiniteSets, SequencesExt

CONSTANTS Step,         \* bucket_secs of the resolution
          Prices,       \* prices of ticks, 0 included
          MaxTicks,     \* bound: ticks of the exchange
          WireCap,      \* capacity of a stream between two nodes
          MaxCuts,      \* bound: lost connections, and restarts of a node
          MaxTime,      \* bound: the exchange's clock
          MaxCycles,    \* bound: HTTP cycles
          EventCap,     \* capacity of the event channel (100 in the code)
          VarNames,     \* names of template variables
          MaxNotes      \* bound: notifications

(***************************************************************************)
(* The tick feed.                                                          *)
(***************************************************************************)
VARIABLES ws,        \* the connection: "down", "open" (no start sent), "up"
          exch,      \* the exchange: its time, the ticks it sent us
          wire,      \* messages on their way to Tick2Candle, batches of ticks
          hist,      \* messages Tick2Candle took, in order
          runAt,     \* first message of its present run
          bars,      \* open: bucket -> Bar
          max_ts,    \* max_ts_secs
          candles,   \* rows written to the station, <<bucket, bar>>
          cuts       \* connections lost and restarts so far

fvars == <<ws, exch, wire, hist, runAt, bars, max_ts, candles, cuts>>

FeedInit ==
  /\ ws = "down" /\ exch = [t |-> 0, n |-> 0]
  /\ wire = <<>> /\ hist = <<>> /\ runAt = 1
  /\ bars = <<>> /\ max_ts = 0 /\ candles = <<>> /\ cuts = 0

(* connect_async succeeds; a failure reports Minor, sleeps and tries again. *)
connect ==
  /\ ws = "down"
  /\ ws' = "open"
  /\ UNCHANGED <<exch, wire, hist, runAt, bars, max_ts, candles, cuts>>

(* on_start, or on_send when there is no start text: the subscription is   *)
(* sent before anything is read.  A failed send reports Minor and          *)
(* connects again at once.                                                 *)
on_start ==
  /\ ws = "open"
  /\ \/ ws' = "up" /\ UNCHANGED cuts
     \/ ws' = "down" /\ cuts < MaxCuts /\ cuts' = cuts + 1
  /\ UNCHANGED <<exch, wire, hist, runAt, bars, max_ts, candles>>

(* The exchange's time passes.                                             *)
exchange_clock ==
  /\ exch.t < MaxTime
  /\ exch' = [exch EXCEPT !.t = @ + 1]
  /\ UNCHANGED <<ws, wire, hist, runAt, bars, max_ts, candles, cuts>>

(* A tick, possibly one second late.  on_receive forwards it, alone or in  *)
(* one batch with the one before it (the mapping node in between).  A tick *)
(* emitted while the connection is not subscribed reaches nobody.          *)
exchange_tick(p, late) ==
  LET tick == <<exch.t - late, p>> IN
  /\ ws = "up" /\ exch.n < MaxTicks /\ exch.t >= late
  /\ exch' = [exch EXCEPT !.n = @ + 1]
  /\ \/ Len(wire) < WireCap /\ wire' = Append(wire, <<tick>>)
     \/ wire # <<>> /\ Len(Last(wire)) = 1
        /\ wire' = [wire EXCEPT ![Len(wire)] = Append(@, tick)]
  /\ UNCHANGED <<ws, hist, runAt, bars, max_ts, candles, cuts>>

(* A read error or the end of the stream: Minor is reported and the loop   *)
(* connects again.                                                         *)
connection_lost ==
  /\ ws = "up" /\ cuts < MaxCuts
  /\ ws' = "down" /\ cuts' = cuts + 1
  /\ UNCHANGED <<exch, wire, hist, runAt, bars, max_ts, candles>>

bucket_of(ts) == (ts \div Step) * Step

tick_price(tick) == tick[2] > 0

(* Bar::push.                                                              *)
push_FirstExtremes(bar, p) ==
  IF bar.n = 0 THEN [o |-> p, h |-> p, l |-> p, c |-> p, n |-> 1]
  ELSE [bar EXCEPT !.h = Max({bar.o, p}), !.l = Min({bar.l, p}), !.c = p, !.n = @ + 1]

push(bar, p) ==
  IF bar.n = 0 THEN [o |-> p, h |-> p, l |-> p, c |-> p, n |-> 1]
  ELSE [bar EXCEPT !.h = Max({@, p}), !.l = Min({bar.l, p}), !.c = p, !.n = @ + 1]

NoBar == [o |-> 0, h |-> 0, l |-> 0, c |-> 0, n |-> 0]

(* open.entry(bucket).or_default().push(price).                            *)
Fold(acc, tick) ==
  LET b == bucket_of(tick[1])
      old == IF b \in DOMAIN acc THEN acc[b] ELSE NoBar
  IN [x \in DOMAIN acc \cup {b} |-> IF x = b THEN push(old, tick[2]) ELSE acc[x]]

(* The buckets that are over: a tick of a later bucket was seen.           *)
due(open, ts) == {b \in DOMAIN open : b + Step <= ts}

(* One message of Tick2Candle::run: fold, close what is due in order of    *)
(* time, write the rows.                                                   *)
tick_2_candle ==
  /\ wire # <<>>
  /\ LET ticks == SelectSeq(Head(wire), tick_price)
         seen == Max({max_ts} \cup {ticks[i][1] : i \in DOMAIN ticks})
         open == FoldLeft(Fold, bars, ticks)
         over == due(open, seen)
         rows == SetToSortSeq(over, LAMBDA a, b : a < b)
     IN /\ max_ts' = seen
        /\ bars' = [b \in DOMAIN open \ over |-> open[b]]
        /\ candles' = candles \o [i \in DOMAIN rows |-> <<rows[i], open[rows[i]]>>]
  /\ hist' = Append(hist, Head(wire)) /\ wire' = Tail(wire)
  /\ UNCHANGED <<ws, exch, runAt, cuts>>

(* A reload or a panic runs the node again: the candles in memory and the  *)
(* clock are locals of run; the station and the channel stay.              *)
feed_restart ==
  /\ cuts < MaxCuts /\ cuts' = cuts + 1
  /\ bars' = <<>> /\ max_ts' = 0 /\ runAt' = Len(hist) + 1
  /\ UNCHANGED <<ws, exch, wire, hist, candles>>

FeedNext ==
  \/ connect \/ on_start \/ exchange_clock \/ connection_lost
  \/ \E p \in Prices, late \in 0..1 : exchange_tick(p, late)
  \/ tick_2_candle \/ feed_restart

(* The candle a reader gets for a bucket: the last row written.            *)
Written(b) == SelectSeq(candles, LAMBDA r : r[1] = b)

TicksOf(b, msgs) ==
  SelectSeq(FlattenSeq(msgs), LAMBDA t : tick_price(t) /\ bucket_of(t[1]) = b)
Touches(b, i) == \E k \in DOMAIN hist[i] : tick_price(hist[i][k]) /\ bucket_of(hist[i][k][1]) = b
Passes(b, i) == \E k \in DOMAIN hist[i] : tick_price(hist[i][k]) /\ hist[i][k][1] >= b + Step

(* The reference candle of the prices ps.                                  *)
Ohlc(ps) ==
  [o |-> ps[1], h |-> Max(Range(ps)), l |-> Min(Range(ps)), c |-> Last(ps), n |-> Len(ps)]

(***************************************************************************)
(* Candles are exact: a bucket whose ticks all came in the present run and *)
(* before any message of a later bucket is written once, when it is over,  *)
(* with the open, high, low and close of its ticks; while it is not over   *)
(* nothing of it is written.                                               *)
(***************************************************************************)
CandlesExact ==
  \A b \in {bucket_of(t) : t \in 0..MaxTime} :
    LET of == {i \in DOMAIN hist : Touches(b, i)}
        later == {i \in runAt..Len(hist) : Passes(b, i)}
        ticks == TicksOf(b, hist)
    IN (/\ of # {} /\ \A i \in of : i >= runAt
        /\ \A j \in later : j >= Max(of))
       => IF later = {} THEN Written(b) = <<>>
          ELSE Written(b) = << <<b, Ohlc([i \in DOMAIN ticks |-> ticks[i][2]])>> >>

(***************************************************************************)
(* http_origin and http_source: one node, its process-wide fault note      *)
(* (NODES_WITH_FAULT), the event channel to the status, its stations.      *)
(* shape says which of the two components the node is.                     *)
(***************************************************************************)
VARIABLES shape,       \* "origin" or "source"
          hst,         \* where run() is
          noted,       \* the node is in NODES_WITH_FAULT
          chan,        \* events on their way to the status
          last_error,  \* what the status shows
          outcome,     \* the last completed fetch: "ok", "empty", "err", "none"
          handle,      \* the station instance this run writes, 0 before
          registered,  \* the instance readers find, 0 before
          made,        \* instances opened so far
          seenBy,      \* instance -> cycles written to it
          cycles,      \* fetches so far
          cut          \* history: a send was cancelled by a restart

wvars == <<shape, hst, noted, chan, last_error, outcome, handle, registered, made,
           seenBy, cycles, cut>>

HttpInit ==
  /\ shape \in {"origin", "source"} /\ hst = "start" /\ noted = FALSE
  /\ chan = <<>> /\ last_error = FALSE /\ outcome = "none"
  /\ handle = 0 /\ registered = 0 /\ made = 0
  /\ seenBy = <<>> /\ cycles = 0 /\ cut = FALSE

(* HttpFetcher::build and TimeseriesStation::from_storage, then registry:  *)
(* the first instance stays registered, AlreadyExists is passed over.      *)
(* http_origin keeps the instance it opened; http_source looks up the one  *)
(* registered.                                                             *)
http_setup ==
  /\ hst = "start"
  /\ made' = made + 1
  /\ registered' = IF registered = 0 THEN made + 1 ELSE registered
  /\ handle' = IF shape = "origin" THEN made + 1 ELSE registered'
  /\ seenBy' = Append(seenBy, {})
  /\ hst' = "idle"
  /\ UNCHANGED <<shape, noted, chan, last_error, outcome, cycles, cut>>

(* note_fault(node, false): whether the node was noted.                    *)
note_ok == /\ noted' = FALSE
           /\ hst' = IF noted THEN "recovered" ELSE "write"

(* One fetch_once: rows, an empty answer, or an error (no answer, a status *)
(* that is not a success, a body that does not parse, a template that does *)
(* not render).                                                            *)
fetch_once ==
  /\ hst = "idle" /\ cycles < MaxCycles
  /\ cycles' = cycles + 1
  /\ \E r \in {"ok", "empty", "err"} :
       /\ outcome' = r
       /\ IF r = "err" THEN noted' = TRUE /\ hst' = "fault" ELSE note_ok
  /\ UNCHANGED <<shape, chan, last_error, handle, registered, made, seenBy, cut>>

(* event.send: waits while the channel is full.                            *)
send_fault ==
  /\ hst = "fault" /\ Len(chan) < EventCap
  /\ chan' = Append(chan, "fault") /\ hst' = "idle"
  /\ UNCHANGED <<shape, noted, last_error, outcome, handle, registered, made, seenBy, cycles, cut>>

send_recovered ==
  /\ hst = "recovered" /\ Len(chan) < EventCap
  /\ chan' = Append(chan, "recovered") /\ hst' = "write"
  /\ UNCHANGED <<shape, noted, last_error, outcome, handle, registered, made, seenBy, cycles, cut>>

(* update_range of what came; http_source also tells its readers.          *)
write_rows ==
  /\ hst = "write" /\ hst' = "idle"
  /\ seenBy' = IF outcome = "ok" THEN [seenBy EXCEPT ![handle] = @ \cup {cycles}] ELSE seenBy
  /\ UNCHANGED <<shape, noted, chan, last_error, outcome, handle, registered, made, cycles, cut>>

(* The status takes an event.                                              *)
take_event ==
  /\ chan # <<>>
  /\ last_error' = (Head(chan) = "fault") /\ chan' = Tail(chan)
  /\ UNCHANGED <<shape, hst, noted, outcome, handle, registered, made, seenBy, cycles, cut>>

(* A reload that changes the node, or a panic: run() is dropped where it   *)
(* awaits and started again.                                               *)
http_restart ==
  /\ hst # "start" /\ made < MaxCuts + 1
  /\ hst' = "start"
  /\ cut' = (cut \/ hst \in {"fault", "recovered"})
  /\ UNCHANGED <<shape, noted, chan, last_error, outcome, handle, registered, made, seenBy, cycles>>

HttpNext ==
  \/ http_setup \/ fetch_once \/ send_fault \/ send_recovered \/ write_rows
  \/ take_event \/ http_restart

(***************************************************************************)
(* The status follows the cycles: when every event was taken and the node  *)
(* is between two cycles, last_error is shown just when the last cycle     *)
(* failed, restarts of the node in between included; the one exception is  *)
(* a restart that cancelled a send (http.rs: note_fault keeps the mark in  *)
(* the process, "last_error ám vĩnh viễn").                                *)
(***************************************************************************)
StatusFollowsCycles ==
  (hst = "idle" /\ chan = <<>> /\ ~cut) => (last_error <=> outcome = "err")

(***************************************************************************)
(* The template variables of one request.  Each name may be bound by a     *)
(* binding (to something or to the empty text), be a field of the payload, *)
(* be an attribute, and be asked for by a placeholder.                     *)
(***************************************************************************)
VARIABLE req

VarsOff == [bound |-> [n \in VarNames |-> "absent"], payload |-> {}, attrs |-> {}, asks |-> {}]

VarsInit == req = VarsOff

(* merge_vars: the names are those of the first two layers; the first that *)
(* has a value wins.                                                       *)
merge_vars(r) ==
  [n \in {m \in VarNames : r.bound[m] # "absent" \/ m \in r.payload} |->
     CASE r.bound[n] = "value" -> "bound"
       [] r.bound[n] # "value" /\ n \in r.payload -> "payload"
       [] r.bound[n] # "value" /\ n \notin r.payload /\ n \in r.attrs -> "attr"
       [] OTHER -> "none"]

(* render: a placeholder without a variable is an error.                   *)
render(r) == \A n \in r.asks : n \in DOMAIN merge_vars(r) /\ merge_vars(r)[n] # "none"

(* The next request of a node, whatever its configuration.                 *)
build_request ==
  /\ req = VarsOff
  /\ req' \in [bound : [VarNames -> {"absent", "empty", "value"}], payload : SUBSET VarNames,
                attrs : SUBSET VarNames, asks : SUBSET VarNames]

VarsNext == build_request

(***************************************************************************)
(* A variable comes from the first of its layers that has it: a binding    *)
(* that is not empty, then the payload, then the attributes.               *)
(***************************************************************************)
FirstLayerWins ==
  \A n \in DOMAIN merge_vars(req) :
    LET v == merge_vars(req)[n] IN
    /\ v = "payload" => req.bound[n] # "value"
    /\ v = "attr" => req.bound[n] # "value" /\ n \notin req.payload
    /\ v = "none" => n \notin req.attrs

(***************************************************************************)
(* The Telegram sink: run() ends with an error at the first message that   *)
(* is not accepted; the engine reports it and runs the sink again on the   *)
(* same channel.                                                           *)
(***************************************************************************)
VARIABLES notes,      \* messages waiting
          tg,         \* the message being sent, 0 when none
          shown,      \* messages in the chat, in order
          majors,     \* failures the engine reported
          sentNotes   \* messages put in the channel

tvars == <<notes, tg, shown, majors, sentNotes>>

TgInit == notes = <<>> /\ tg = 0 /\ shown = <<>> /\ majors = {} /\ sentNotes = 0

notify ==
  /\ sentNotes < MaxNotes
  /\ sentNotes' = sentNotes + 1 /\ notes' = Append(notes, sentNotes + 1)
  /\ UNCHANGED <<tg, shown, majors>>

tg_take ==
  /\ tg = 0 /\ notes # <<>>
  /\ tg' = Head(notes) /\ notes' = Tail(notes)
  /\ UNCHANGED <<shown, majors, sentNotes>>

(* Too long a body and a request that fails show nothing; a rejected one   *)
(* neither; an answer that is lost leaves the delivery unknown.            *)
tg_fail ==
  /\ tg # 0
  /\ \E arrived \in BOOLEAN : shown' = IF arrived THEN Append(shown, tg) ELSE shown
  /\ majors' = majors \cup {tg}
  /\ tg' = 0
  /\ UNCHANGED <<notes, sentNotes>>

tg_ok ==
  /\ tg # 0
  /\ shown' = Append(shown, tg) /\ tg' = 0
  /\ UNCHANGED <<notes, majors, sentNotes>>

TgNext == notify \/ tg_take \/ tg_fail \/ tg_ok

(***************************************************************************)
(* Notifications are shown at most once and in order, and one that is not  *)
(* shown was reported as a failure (telegram.rs: "delivery status          *)
(* unknown" is not retried).                                               *)
(***************************************************************************)
ShownOnceOrReported ==
  /\ \A i \in DOMAIN shown, j \in DOMAIN shown : i < j => shown[i] < shown[j]
  /\ \A n \in 1..sentNotes :
       n = tg \/ n \in Range(notes) \/ n \in Range(shown) \/ n \in majors

(***************************************************************************)
(* What the collectors and the sink promise to what is behind them.        *)
(***************************************************************************)
CollectorsSound == CandlesExact /\ StatusFollowsCycles /\ FirstLayerWins /\ ShownOnceOrReported
=============================================================================
