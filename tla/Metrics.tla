------------------------------ MODULE Metrics ------------------------------
(***************************************************************************)
(* The /metrics endpoint: prometheus_handler of api/mod.rs and the         *)
(* collectors of api/prometheus.rs.  A scrape first collects, node health  *)
(* and one gauge per series of every exported station, and later compares  *)
(* its keys with those of the scrape before it to report the series that   *)
(* are gone.  Scrapes overlap; nothing but the set of old keys is locked.  *)
(***************************************************************************)
EXTENDS Integers, Sequences, FiniteSets, SequencesExt

CONSTANTS Scrapers, Series,      \* callers; series of the one exported station
          StationWindow,         \* the target's own window, or 0 for none
          DefaultWindow, FallbackWindow,   \* [prometheus] default_window_secs; 120
          max_series, MaxObs, MaxNow       \* the cap; bounds

ASSUME WindowsAreSeconds == {StationWindow, DefaultWindow, FallbackWindow} \subseteq Nat

VARIABLES now,       \* the clock
          obs,       \* observations of the station, in the order written
          nodes_up,  \* nodes of the topology
          scrape,    \* per scraper what it has collected
          stale_keys,\* keys of the last scrape that finished
          shown,     \* history: the keys in the answer of the last scrape that finished
          silent     \* history: keys that left the answers without a word

mvars == <<now, obs, nodes_up, scrape, stale_keys, shown, silent>>

NotScraping == [at |-> "idle"]
Wanted == {"raw", "summary"}     \* the signals of a target that names none

MetricsInit ==
    /\ now = 1 /\ obs = <<>> /\ nodes_up = {}
    /\ scrape = [s \in Scrapers |-> NotScraping]
    /\ stale_keys = {} /\ shown = {} /\ silent = {}

Observe == \E k \in Series, sig \in {"raw", "order"}, at \in {now - 1, now} :
    /\ Len(obs) < MaxObs
    /\ obs' = Append(obs, [key |-> k, ts |-> at, signal |-> sig, value |-> Len(obs) + 1])
    /\ UNCHANGED <<now, nodes_up, scrape, stale_keys, shown, silent>>

Reconfigure == \E up \in {{}, {"n"}} :
    /\ nodes_up' = up /\ up # nodes_up
    /\ UNCHANGED <<now, obs, scrape, stale_keys, shown, silent>>

MetricsTick ==
    /\ now < MaxNow /\ now' = now + 1
    /\ UNCHANGED <<obs, nodes_up, scrape, stale_keys, shown, silent>>

-----------------------------------------------------------------------------
WindowOr(fallback) == Max({1, IF StationWindow = 0 THEN fallback ELSE StationWindow})

\* Health of every node.
collect_nodes == [n \in {<<"node", m>> : m \in nodes_up} |-> 1]

\* The rows of the handler's window that pass the collector's own window and
\* its filters; per key the first of the newest timestamp.
InScrape(o) ==
    /\ now - WindowOr(DefaultWindow) <= o.ts /\ o.ts <= now
    /\ now - WindowOr(FallbackWindow) <= o.ts
    /\ o.signal \in Wanted

Exported(key) == {i \in DOMAIN obs : obs[i].key = key /\ InScrape(obs[i])}

collect_station ==
    LET Newest(s) == {i \in Exported(s) : \A j \in Exported(s) : obs[j].ts <= obs[i].ts}
    IN  [k \in {<<"series", s>> : s \in {s \in Series : Exported(s) # {}}} |-> obs[Min(Newest(k[2]))].value]

\* Keys in their sorted order up to the cap.
cap_series(keys) ==
    LET Rank(k) == IF k[1] = "node" THEN 0 ELSE k[2]
        Before(k) == {j \in keys : Rank(j) < Rank(k)}
    IN  IF max_series = 0 THEN keys ELSE {k \in keys : Cardinality(Before(k)) < max_series}

\* One registry for both collectors; their keys do not meet.
Gauges == [k \in DOMAIN collect_nodes \cup DOMAIN collect_station |->
             IF k \in DOMAIN collect_nodes THEN collect_nodes[k] ELSE collect_station[k]]

\* First half of the handler: everything is collected, at one reading of the
\* clock.
Collect(s) ==
    /\ scrape[s].at = "idle"
    /\ scrape' = [scrape EXCEPT ![s] =
           [at |-> "collected", now |-> now, series |-> Gauges, rows |-> obs]]
    /\ UNCHANGED <<now, obs, nodes_up, stale_keys, shown, silent>>

\* Keys taken before the cap: what the cap drops is not missed.
CurrentKeys_Uncapped(keys) == keys

CurrentKeys(keys) == cap_series(keys)

\* Second half: render, report what is gone, and remember these keys.
Render(s) ==
    /\ scrape[s].at = "collected"
    /\ LET out == cap_series(DOMAIN scrape[s].series)
           current == CurrentKeys(DOMAIN scrape[s].series)
           gone == stale_keys \ current
       IN  /\ stale_keys' = current
           /\ shown' = out
           /\ silent' = silent \cup ((shown \ out) \ gone)
    /\ scrape' = [scrape EXCEPT ![s] = NotScraping]
    /\ UNCHANGED <<now, obs, nodes_up>>

MetricsNext ==
    \/ Observe \/ Reconfigure \/ MetricsTick
    \/ \E s \in Scrapers : Collect(s) \/ Render(s)

MetricsSpec == MetricsInit /\ [][MetricsNext]_mvars

-----------------------------------------------------------------------------
\* The gauge of a series is its newest observation of the window, also when
\* observations arrive out of the order of their timestamps.
NewestShown(c) ==
    LET Own(k) == {i \in DOMAIN c.rows : c.rows[i].key = k /\ c.rows[i].signal # "order" /\ c.rows[i].ts <= c.now}
    IN  \A k \in Series : <<"series", k>> \in DOMAIN c.series =>
          \E i \in Own(k) : /\ c.rows[i].value = c.series[<<"series", k>>]
                            /\ \A j \in Own(k) : c.rows[j].ts <= c.rows[i].ts

SeriesFresh == \A s \in Scrapers : scrape[s].at = "collected" => NewestShown(scrape[s])

\* No series leaves the answers without being reported stale once, whether
\* it ran dry, its node was removed or the cap cut it, and however scrapes
\* overlap.
NoneVanishes == silent = {}

\* A scrape shows the newest value of every series and drops none silently.
ScrapeSound == SeriesFresh /\ NoneVanishes
=============================================================================
