--------------------------- MODULE StorageBackends ---------------------------
(***************************************************************************)
(* TimeseriesStorage of opsense-mlib/src/storage.rs and its four           *)
(* implementations: maps (storage/in_memory.rs), SQLite (sqlite.rs), Redis *)
(* (redis.rs) and the lake (parquet.rs).  The same calls go to all four;   *)
(* contract is what the comments of the trait promise.  Calls are one at a *)
(* time here; kills are in Lakehouse.                                      *)
(***************************************************************************)
EXTENDS Integers, Sequences, FiniteSets, SequencesExt

CONSTANTS Series, Times, Values,   \* the points that are appended
          MaxCalls                 \* bound on the calls

VARIABLES contract,   \* the points of a series in the order of their appends
          mem, sql, red, lake, ncalls

bvars == <<contract, mem, sql, red, lake, ncalls>>

-----------------------------------------------------------------------------
(* Maps: the points in the order of their appends.  SQLite: rows in the    *)
(* order of their rowid.  Redis: a sorted set of (score, member), the      *)
(* member led by a counter.  Lake: one value per (series, time).           *)

Pt(t, v) == [ts |-> t, v |-> v]
NoSeries == [s \in Series |-> << >>]

mem_append(d, s, t, v) == [d EXCEPT ![s] = Append(@, Pt(t, v))]
sqlite_append(d, s, t, v) == Append(d, [series |-> s, p |-> Pt(t, v)])
redis_append(d, s, t, v) ==
  [d EXCEPT !.seq[s] = @ + 1,
            !.set[s] = @ \cup {[score |-> t, n |-> d.seq[s] + 1, v |-> v]}]
lake_append(d, s, t, v) ==
  [d EXCEPT ![s] = [x \in DOMAIN @ \cup {t} |-> IF x = t THEN v ELSE @[x]]]

\* Rows of one series by (ts, rowid): ORDER BY ts over the index.
sqlite_rows(d, s) ==
  LET mine == SelectSeq([i \in DOMAIN d |-> [n |-> i, series |-> d[i].series, p |-> d[i].p]],
                        LAMBDA r : r.series = s)
  IN  SortSeq(mine, LAMBDA a, b : a.p.ts < b.p.ts \/ (a.p.ts = b.p.ts /\ a.n < b.n))
redis_rows(d, s) ==
  SetToSortSeq(d.set[s], LAMBDA a, b : a.score < b.score \/ (a.score = b.score /\ a.n < b.n))

Between(pts, a, b) == SelectSeq(pts, LAMBDA p : p.ts >= a /\ p.ts <= b)
LastN(pts, n) == SubSeq(pts, IF n >= Len(pts) THEN 1 ELSE Len(pts) - n + 1, Len(pts))
End(pts) == IF pts = << >> THEN << >> ELSE <<pts[Len(pts)]>>
Begin(pts) == IF pts = << >> THEN << >> ELSE <<pts[1]>>

\* ts_value_of drops the counter in front of the member.
ts_value_of(rows) == [i \in DOMAIN rows |-> Pt(rows[i].score, rows[i].v)]
lake_points(d, s) ==
  LET ts == SetToSortSeq(DOMAIN d[s], <) IN [i \in DOMAIN ts |-> Pt(ts[i], d[s][ts[i]])]

mem_range(d, s, a, b) == Between(d[s], a, b)
mem_latest(d, s, n) == LastN(d[s], n)
mem_first(d, s) == Begin(d[s])
mem_last(d, s) == End(d[s])
sqlite_points(d, s) == LET r == sqlite_rows(d, s) IN [i \in DOMAIN r |-> r[i].p]
sqlite_range(d, s, a, b) == Between(sqlite_points(d, s), a, b)
sqlite_latest(d, s, n) == LastN(sqlite_points(d, s), n)
sqlite_first(d, s) == Begin(sqlite_points(d, s))
sqlite_last(d, s) == End(sqlite_points(d, s))
redis_points(d, s) == ts_value_of(redis_rows(d, s))
redis_range(d, s, a, b) == Between(redis_points(d, s), a, b)
\* Mutant: the newest elements are 0 to limit, one too many.
redis_latest_ToLimit(d, s, n) == LastN(redis_points(d, s), n + 1)
\* ZREVRANGE 0 .. limit - 1, saturating: a limit of 0 still gives one point.
redis_latest(d, s, n) == LastN(redis_points(d, s), IF n = 0 THEN 1 ELSE n)
redis_first(d, s) == Begin(redis_points(d, s))
redis_last(d, s) == End(redis_points(d, s))
lake_range(d, s, a, b) == Between(lake_points(d, s), a, b)
lake_latest(d, s, n) == LastN(lake_points(d, s), n)
lake_first(d, s) == Begin(lake_points(d, s))
lake_last(d, s) == End(lake_points(d, s))

mem_clear_series(d, s) == [d EXCEPT ![s] = << >>]
sqlite_clear_series(d, s) == SelectSeq(d, LAMBDA r : r.series # s)
redis_clear_series(d, s) == [d EXCEPT !.set[s] = {}, !.seq[s] = 0]
lake_clear_series(d, s) == [d EXCEPT ![s] = << >>]
mem_clear_all(d) == NoSeries
sqlite_clear_all(d) == << >>
redis_clear_all(d) == [set |-> [s \in Series |-> {}], seq |-> [s \in Series |-> 0]]
lake_clear_all(d) == NoSeries

-----------------------------------------------------------------------------
BInit ==
  /\ contract = NoSeries /\ mem = NoSeries /\ sql = << >> /\ lake = NoSeries
  /\ red = redis_clear_all({}) /\ ncalls = 0

\* The contract keeps the points of a series by time, then by append.
Ordered(pts) ==
  LET n == [i \in DOMAIN pts |-> [i |-> i, p |-> pts[i]]]
      o == SortSeq(n, LAMBDA a, b : a.p.ts < b.p.ts \/ (a.p.ts = b.p.ts /\ a.i < b.i))
  IN  [i \in DOMAIN o |-> o[i].p]

AppendPoint ==
  /\ ncalls < MaxCalls /\ ncalls' = ncalls + 1
  /\ \E s \in Series, t \in Times, v \in Values :
       /\ contract' = [contract EXCEPT ![s] = Append(@, Pt(t, v))]
       /\ mem' = mem_append(mem, s, t, v) /\ sql' = sqlite_append(sql, s, t, v)
       /\ red' = redis_append(red, s, t, v) /\ lake' = lake_append(lake, s, t, v)

ClearOne ==
  /\ ncalls < MaxCalls /\ ncalls' = ncalls + 1
  /\ \E s \in Series :
       /\ contract' = [contract EXCEPT ![s] = << >>]
       /\ mem' = mem_clear_series(mem, s) /\ sql' = sqlite_clear_series(sql, s)
       /\ red' = redis_clear_series(red, s) /\ lake' = lake_clear_series(lake, s)

ClearAll ==
  /\ ncalls < MaxCalls /\ ncalls' = ncalls + 1
  /\ contract' = NoSeries
  /\ mem' = mem_clear_all(mem) /\ sql' = sqlite_clear_all(sql)
  /\ red' = redis_clear_all(red) /\ lake' = lake_clear_all(lake)

BNext == AppendPoint \/ ClearOne \/ ClearAll
BSpec == BInit /\ [][BNext]_bvars

-----------------------------------------------------------------------------
\* A back end answers every question about one series as the points want.
Answers(range(_, _), latest(_), first, last, pts) ==
  /\ \A a, b \in Times : range(a, b) = Between(pts, a, b)
  /\ \A n \in 1..MaxCalls : latest(n) = LastN(pts, n)
  /\ first = Begin(pts) /\ last = End(pts)

\* The last point of every time.
Latest(pts) == SelectSeq([i \in DOMAIN pts |-> [i |-> i, p |-> pts[i]]],
                         LAMBDA x : \A j \in DOMAIN pts : pts[j].ts = x.p.ts => j <= x.i)
LatestOnly(pts) == [i \in DOMAIN Latest(pts) |-> Latest(pts)[i].p]

\* range, latest, first and last (storage.rs:124) give the points of the series
\* "sắp xếp tăng dần theo timestamp", points of one time in the order of their
\* appends, on SQLite and Redis alike; the lake gives the last point of every
\* time; the maps do so for points that were appended in order of time.
BackendsAgree ==
  \A s \in Series :
    LET pts == Ordered(contract[s])
    IN  /\ Answers(LAMBDA a, b : sqlite_range(sql, s, a, b), LAMBDA n : sqlite_latest(sql, s, n),
                   sqlite_first(sql, s), sqlite_last(sql, s), pts)
        /\ Answers(LAMBDA a, b : redis_range(red, s, a, b), LAMBDA n : redis_latest(red, s, n),
                   redis_first(red, s), redis_last(red, s), pts)
        /\ Answers(LAMBDA a, b : lake_range(lake, s, a, b), LAMBDA n : lake_latest(lake, s, n),
                   lake_first(lake, s), lake_last(lake, s), LatestOnly(pts))
        /\ pts = contract[s] =>
             Answers(LAMBDA a, b : mem_range(mem, s, a, b), LAMBDA n : mem_latest(mem, s, n),
                     mem_first(mem, s), mem_last(mem, s), pts)
=============================================================================
