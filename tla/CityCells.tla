------------------------------ MODULE CityCells ------------------------------
(***************************************************************************)
(* The two maps of the city that drivers see: Street Intelligence (busy    *)
(* and slow cells, suggestions) and City Reality (cells with a probable    *)
(* cause).  Every request for a map first recomputes the current five      *)
(* minute bucket: it counts rides, drivers and telemetry by cell, deletes  *)
(* the bucket's rows and inserts its own, then answers from the table.     *)
(*                                                                         *)
(* What the source tables hold of a cell when a request counts it is an    *)
(* input.  The delete sees the rows committed when it runs and nothing     *)
(* keeps a cell to one row per bucket, so on PostgreSQL two computations   *)
(* may both insert; on SQLite the second delete waits for the first commit.*)
(* Scores are percentages.                                                 *)
(***************************************************************************)
EXTENDS Integers, FiniteSets

CONSTANTS
  CityWorkers,   \* threads that serve map requests
  Cells,         \* H3 cells
  Activities,    \* what may be counted of a cell that is not empty
  Contexts,      \* what else attribution looks at: the hour, a hub zone, an event
  MinDemand, MinDrivers, MinSamples,   \* SIL_MIN_DEMAND, ..._UNIQUE_DRIVERS, ..._FLEET_SAMPLES
  LastSlot,      \* the bound on the buckets
  MaxComputes    \* the bound on the computations

ASSUME CityAssumption ==
  /\ MinDemand \in Nat /\ MinDemand >= 2
  /\ MinDrivers \in Nat \ {0} /\ MinSamples \in Nat \ {0}
  /\ \A a \in Activities : {a.demand, a.cancels, a.dropoffs, a.idle, a.drivers, a.samples} \subseteq Nat

VARIABLES
  slot,       \* the current bucket
  table,      \* sil_cell_aggregate, crl_cell_snapshot with crl_cell_explanation: the rows
  query,      \* worker -> the request it serves
  computes,   \* how many computations have begun; each is known by its number
  crossed,    \* history: pairs of computations that overlapped from delete to commit
  shown       \* history: what was shown by the step just taken, if it answered

cityVars == <<slot, table, query, computes, crossed, shown>>

NoQuery == [pc |-> "idle"]

CityInit ==
  /\ slot = 0 /\ table = {} /\ computes = 0 /\ crossed = {} /\ shown = {}
  /\ query = [w \in CityWorkers |-> NoQuery]

AtLeast(x, y) == IF x >= y THEN x ELSE y
AtMost(x, y) == IF x <= y THEN x ELSE y

-----------------------------------------------------------------------------
(* The gates of services/sil_gates.py *)

SlowEnough(a) == a.drivers >= MinDrivers /\ a.samples >= MinSamples
BusyEnough(a) == a.demand >= MinDemand

\* compute_sil_bucket: a row is marked as enough, and how much it is trusted.
SilConfidence(a) ==
  IF SlowEnough(a) \/ BusyEnough(a)
  THEN AtMost(100, (50 * a.samples) \div MinSamples + (50 * a.demand) \div MinDemand) ELSE 0
SilEnough(a) == (SlowEnough(a) \/ BusyEnough(a)) /\ SilConfidence(a) >= 40

\* compute_crl_bucket: telemetry of one driver is enough.
CityConfidence(a) ==
  IF BusyEnough(a) /\ a.drivers >= 1
  THEN AtMost(100, (60 * a.demand) \div MinDemand + (40 * AtMost(a.wait, 600)) \div 600) ELSE 0
CityEnough(a) == CityConfidence(a) >= 40

-----------------------------------------------------------------------------
(* attribute_cell: every rule that fits has a score, and the best names the cause. *)

\* _update_time_patterns averages a one per ride, so the demand a cell is compared with is
\* one, with and without a baseline row.
Baseline(rides) == IF rides = 0 THEN 1 ELSE AtLeast(rides \div AtLeast(rides, 1), 1)

Above(x, y, tenths) == 10 * x > tenths * y

\* A rule that holds gives a cause; equal scores keep the order of the rules.
Rule(rank, holds, cause, score) ==
  IF holds THEN {[rank |-> rank, cause |-> cause, score |-> score]} ELSE {}

\* Open rides count as demand and as pickups alike.  A hub's weight and an event's
\* confidence are percentages, 0 for none.
Causes(a, c, rides) ==
  LET risen == 2 * a.demand >= 3 * Baseline(rides)
      commute == (75 * AtMost(a.demand, 2 * Baseline(rides))) \div (2 * Baseline(rides))
      morning == c.hour \in 6..10
      evening == c.hour \in 16..20
  IN Rule(1, risen /\ morning, "morning_commute", commute)
     \union Rule(2, risen /\ evening, "evening_commute", commute)
     \union Rule(3, risen /\ ~morning /\ ~evening, "uncertain_pattern", 40)
     \union Rule(4, c.hub > 0 /\ Above(a.dropoffs, a.demand, 12), "hub_arrival", (70 * c.hub) \div 100)
     \union Rule(5, c.hub > 0 /\ Above(a.demand, a.dropoffs, 12), "hub_departure", (65 * c.hub) \div 100)
     \union Rule(6, 2 * a.idle < a.demand /\ a.demand >= 2 /\ (a.wait >= 180 \/ a.idle <= 1),
                 "driver_shortage", 72)
     \union Rule(7, a.cancels >= 1 /\ 4 * a.cancels >= a.demand + a.cancels, "match_friction", 60)
     \union Rule(8, c.event > 0, "event_driven", (65 * c.event) \div 100)
     \union Rule(9, Above(a.demand, a.dropoffs, 15) /\ a.demand >= 2, "pickup_source_zone", 55)
     \union Rule(10, Above(a.dropoffs, a.demand, 15) /\ a.dropoffs >= 2, "dropoff_sink_zone", 55)

Beats(r, s) == r.score > s.score \/ (r.score = s.score /\ r.rank <= s.rank)
TopRule(rules) == CHOOSE r \in rules : \A s \in rules : Beats(r, s)

PrimaryCause(a, c, rides) ==
  LET rules == Causes(a, c, rides) IN
  IF rules = {} \/ TopRule(rules).score < 35 THEN "uncertain_pattern" ELSE TopRule(rules).cause

-----------------------------------------------------------------------------
(* A computation *)

SilQueries == {"map", "suggest", "bucket"}
CityQueries == {"city map", "explain", "overview"}
LayerOf(kind) == IF kind \in SilQueries THEN "sil" ELSE "crl"

Ask(w, q) == query' = [query EXCEPT ![w] = q]

\* The requests of drivers, the operations' job and the administrator's overview all begin
\* by counting; `seen` has the cells that are not empty.
BeginCompute(w, kind, seen, c) ==
  /\ query[w] = NoQuery /\ computes < MaxComputes
  /\ computes' = computes + 1
  /\ Ask(w, [pc |-> "counted", kind |-> kind, slot |-> slot, by |-> computes + 1,
             seen |-> seen, context |-> c, gone |-> {}])
  /\ shown' = {} /\ UNCHANGED <<slot, table, crossed>>

BucketRows(q) == {r \in table : r.layer = LayerOf(q.kind) /\ r.slot = q.slot}

\* Mutant: only the cells that get a new row lose their old one.
RecountedRows(q) == {r \in BucketRows(q) : r.cell \in DOMAIN q.seen}

\* DELETE WHERE bucket_start = the bucket.
Cleared(q) == BucketRows(q)

DeleteBucket(w) ==
  /\ query[w].pc = "counted"
  /\ Ask(w, [query[w] EXCEPT !.pc = "deleted", !.gone = Cleared(query[w])])
  /\ shown' = {} /\ UNCHANGED <<slot, table, computes, crossed>>

\* A City Reality row stands for the snapshot and the explanation that are inserted
\* together; the explanation is there whether or not the cell passes the gate.
Computed(q) ==
  {[layer |-> LayerOf(q.kind), slot |-> q.slot, cell |-> x, by |-> q.by, seen |-> q.seen[x],
    cause |-> IF q.kind \in CityQueries
              THEN PrimaryCause(q.seen[x], q.context, q.seen[x].demand) ELSE "none"] :
   x \in DOMAIN q.seen}

\* Insert and commit.  The computations of the layer that have deleted and not committed
\* overlap with this one, and an answer between its two reads is torn.
CommitBucket(w) ==
  /\ query[w].pc = "deleted"
  /\ table' = (table \ query[w].gone) \union Computed(query[w])
  /\ crossed' = crossed \union
       {{query[w].by, query[v].by} : v \in {u \in CityWorkers \ {w} :
          query[u].pc = "deleted" /\ LayerOf(query[u].kind) = LayerOf(query[w].kind)}}
  /\ query' = [v \in CityWorkers |->
       IF v = w
       THEN IF query[w].kind = "bucket" THEN NoQuery
            ELSE [pc |-> "committed", kind |-> query[w].kind, slot |-> query[w].slot]
       ELSE IF query[v].pc = "half" /\ LayerOf(query[w].kind) = "crl"
       THEN [query[v] EXCEPT !.torn = TRUE] ELSE query[v]]
  /\ shown' = {} /\ UNCHANGED <<slot, computes>>

\* The process dies or the database fails: nothing of the computation stays.
AbandonCompute(w) ==
  /\ query[w] # NoQuery
  /\ Ask(w, NoQuery)
  /\ shown' = {} /\ UNCHANGED <<slot, table, computes, crossed>>

NextSlot ==
  /\ slot < LastSlot /\ slot' = slot + 1
  /\ shown' = {} /\ UNCHANGED <<table, query, computes, crossed>>

-----------------------------------------------------------------------------
(* Answers *)

\* busy_score >= 0.25: the sigmoid of half of what demand exceeds half the idle drivers by.
BusyScore(a) == a.idle <= 2 * a.demand + 4

\* Mutant: the slow layer of a cell that passes for its demand is shown as well.
SlowAsMarked(a) == a.slow

\* congestion_score >= 0.25, with the layer's own gate.
ShowsSlow(a) == SlowEnough(a) /\ a.slow
ShowsBusy(a) == BusyEnough(a) /\ BusyScore(a)

Item(what, r, cause) == [what |-> what, row |-> r, from |-> cause]

\* GET /v1/sil/map: the rows of its own bucket; the caller may ask for more confidence.
ShowMap(w, floor) ==
  /\ query[w].pc = "committed" /\ query[w].kind = "map"
  /\ LET rows == {r \in table : r.layer = "sil" /\ r.slot = query[w].slot
                                /\ SilEnough(r.seen) /\ SilConfidence(r.seen) >= floor}
     IN shown' = {Item("slow", r, r) : r \in {x \in rows : ShowsSlow(x.seen)}}
                   \union {Item("busy", r, r) : r \in {x \in rows : ShowsBusy(x.seen)}}
  /\ Ask(w, NoQuery)
  /\ UNCHANGED <<slot, table, computes, crossed>>

\* GET /v1/sil/suggest: the rows of every bucket there ever was, but the driver's cell.
ShowSuggestions(w, here) ==
  /\ query[w].pc = "committed" /\ query[w].kind = "suggest"
  /\ shown' = {Item("suggestion", r, r) :
                  r \in {x \in table : x.layer = "sil" /\ SilEnough(x.seen) /\ x.cell # here}}
  /\ Ask(w, NoQuery)
  /\ UNCHANGED <<slot, table, computes, crossed>>

\* GET /v1/crl/map reads the bucket's snapshots and then its explanations.
ReadSnapshots(w) ==
  /\ query[w].pc = "committed" /\ query[w].kind = "city map"
  /\ Ask(w, [pc |-> "half", kind |-> "city map", slot |-> query[w].slot,
             rows |-> BucketRows(query[w]), torn |-> FALSE])
  /\ shown' = {} /\ UNCHANGED <<slot, table, computes, crossed>>

\* A snapshot that passes is shown with an explanation of its cell and bucket, and without
\* one it is not shown; of several the dictionary keeps one.
ShowCity(w, floor) ==
  /\ query[w].pc = "half" /\ query[w].kind = "city map"
  /\ LET passing == {r \in query[w].rows : CityEnough(r.seen) /\ CityConfidence(r.seen) >= floor}
         explained == {r \in BucketRows(query[w]) : r.cell \in {s.cell : s \in passing}}
     IN \E chosen \in [{r.cell : r \in explained} -> explained] :
          /\ \A x \in DOMAIN chosen : chosen[x].cell = x
          /\ shown' = {Item(IF query[w].torn THEN "torn cause" ELSE "cause", r, chosen[r.cell]) :
                          r \in {s \in passing : s.cell \in DOMAIN chosen}}
  /\ Ask(w, NoQuery)
  /\ UNCHANGED <<slot, table, computes, crossed>>

\* The latest rows of a cell, in whichever bucket.
LatestRows(x) ==
  LET rows == {r \in table : r.layer = "crl" /\ r.cell = x}
  IN {r \in rows : \A s \in rows : s.slot <= r.slot}

\* GET /v1/crl/explain reads the latest explanation of a cell and then its latest snapshot.
ReadExplanation(w, x) ==
  /\ query[w].pc = "committed" /\ query[w].kind = "explain"
  /\ \/ LatestRows(x) = {} /\ Ask(w, NoQuery)
     \/ \E r \in LatestRows(x) :
          Ask(w, [pc |-> "half", kind |-> "explain", slot |-> query[w].slot,
                  rows |-> {r}, torn |-> FALSE])
  /\ shown' = {} /\ UNCHANGED <<slot, table, computes, crossed>>

ShowExplanation(w) ==
  /\ query[w].pc = "half" /\ query[w].kind = "explain"
  /\ \E e \in query[w].rows : \E r \in LatestRows(e.cell) :
       shown' = IF CityEnough(r.seen)
                THEN {Item(IF query[w].torn THEN "torn cause" ELSE "cause", r, e)} ELSE {}
  /\ Ask(w, NoQuery)
  /\ UNCHANGED <<slot, table, computes, crossed>>

\* The administrator's overview counts the bucket's causes, gated or not.
ShowOverview(w) ==
  /\ query[w].pc = "committed" /\ query[w].kind = "overview"
  /\ shown' = {Item("overview", r, r) : r \in BucketRows(query[w])}
  /\ Ask(w, NoQuery)
  /\ UNCHANGED <<slot, table, computes, crossed>>

CityNext ==
  \/ \E w \in CityWorkers, kind \in SilQueries \union CityQueries, c \in Contexts :
       \E some \in SUBSET Cells : \E seen \in [some -> Activities] :
         BeginCompute(w, kind, seen, c)
  \/ \E w \in CityWorkers :
       \/ DeleteBucket(w) \/ CommitBucket(w) \/ AbandonCompute(w)
       \/ ReadSnapshots(w) \/ ShowExplanation(w) \/ ShowOverview(w)
       \/ \E floor \in {0, 100} : ShowMap(w, floor) \/ ShowCity(w, floor)
       \/ \E x \in Cells : ShowSuggestions(w, x) \/ ReadExplanation(w, x)
  \/ NextSlot

CitySpec == CityInit /\ [][CityNext]_cityVars

-----------------------------------------------------------------------------

Overlapped(r, s) == r.by = s.by \/ {r.by, s.by} \in crossed

\* The rows of a bucket come from one computation, with a row for each cell once, except
\* where computations overlapped between delete and commit: nothing of an earlier count
\* of the bucket stays behind.
BucketsAreWhole ==
  \A r, s \in table : r.layer = s.layer /\ r.slot = s.slot => Overlapped(r, s)

\* What a driver is shown rests on the facts the gates ask for: a slow cell on the speeds
\* of several drivers, a busy cell on requests, a suggestion on one or the other, and a
\* cause on the very count that let the cell pass.  Only an answer whose two reads were
\* torn by another commit, or whose bucket two computations filled, may name a cause
\* computed from facts the gate never saw.
ShownIsBacked ==
  \A i \in shown :
    /\ i.what = "slow" => i.row.seen.drivers >= MinDrivers /\ i.row.seen.samples >= MinSamples
    /\ i.what = "busy" => i.row.seen.demand >= MinDemand
    /\ i.what = "suggestion" => BusyEnough(i.row.seen) \/ SlowEnough(i.row.seen)
    /\ i.what = "cause" =>
         /\ Overlapped(i.row, i.from)
         /\ i.row.by = i.from.by => (BusyEnough(i.from.seen) /\ i.from.seen.drivers >= 1)
=============================================================================
