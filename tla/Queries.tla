------------------------------- MODULE Queries -------------------------------
(***************************************************************************)
(* The read side of the console.  getOverview computes the figures of the  *)
(* Overview page with eleven statements and no transaction: a console does *)
(* nothing else meanwhile, but another one on the same database may store  *)
(* events and alerts between any two of them.  listEvents and listAlerts   *)
(* are one statement each.                                                 *)
(*                                                                         *)
(* Time is counted in parts of a day.  All timestamps have one format, so  *)
(* SQL's comparison of their texts is that of the times they name.         *)
(***************************************************************************)
EXTENDS Integers, Sequences, FiniteSets, Mitre

CONSTANTS
  EventKinds,  \* the events that may be stored: ts, type, signed, lolbin
  AlertKinds,  \* the alerts that may be raised: severity, mitre
  Day,         \* ticks of the clock in 24 hours
  VolumeDays,  \* days in the volume chart
  PageCap,     \* the most rows a list returns
  FirstNow,    \* the clock when the model begins
  MaxNow,      \* bound: the clock
  MaxEvents, MaxAlerts  \* bounds: rows of the two tables

ASSUME QueriesAssumption ==
  /\ {Day, VolumeDays, PageCap, FirstNow, MaxNow, MaxEvents, MaxAlerts} \subseteq Nat
  /\ Day > 0 /\ FirstNow >= VolumeDays * Day
  /\ EventKinds \subseteq [ts : Nat, type : STRING, signed : BOOLEAN, lolbin : BOOLEAN]
  /\ AlertKinds \subseteq [severity : STRING, mitre : STRING]

VARIABLES
  clock,
  db,       \* the tables events and alerts, by id
  at,       \* the statement getOverview is at, 0 when no request is served
  now,      \* Date.now() of the request
  figure,   \* the counts it has read
  volume,   \* the chart: per day and severity column
  items,    \* the breakdown: per tactic
  start     \* history: the database when the request was taken

request == <<at, now, figure, volume, items, start>>
vars == <<clock, db, request>>

-----------------------------------------------------------------------------
(* The statements that count: what each selects from database d at time t. *)
Recent(d, t) == {i \in DOMAIN d.events : d.events[i].ts >= t - Day}

PreviousClosed(d, t) ==  \* <= where the code has <
  {i \in DOMAIN d.events : d.events[i].ts >= t - 2 * Day /\ d.events[i].ts <= t - Day}

Previous(d, t) ==
  {i \in DOMAIN d.events : d.events[i].ts >= t - 2 * Day /\ d.events[i].ts < t - Day}

AlertsOf(d, es)  == {a \in DOMAIN d.alerts : d.alerts[a].ev \in es}
Unsigned(d, es)  == {i \in es : ~ d.events[i].signed}
Lolbins(d, es)   == {i \in es : d.events[i].lolbin}

Counts ==
  <<"events24h", "eventsPrev24h", "openDetections", "detections24h", "detectionsPrev24h",
    "unsigned24h", "unsignedPrev24h", "lolbin24h", "lolbinPrev24h">>

Figure == {Counts[n] : n \in DOMAIN Counts}

Selected(f, d, t) ==
  CASE f = "events24h"         -> Recent(d, t)
    [] f = "eventsPrev24h"     -> Previous(d, t)
    [] f = "openDetections"    -> DOMAIN d.alerts
    [] f = "detections24h"     -> AlertsOf(d, Recent(d, t))
    [] f = "detectionsPrev24h" -> AlertsOf(d, Previous(d, t))
    [] f = "unsigned24h"       -> Unsigned(d, Recent(d, t))
    [] f = "unsignedPrev24h"   -> Unsigned(d, Previous(d, t))
    [] f = "lolbin24h"         -> Lolbins(d, Recent(d, t))
    [] f = "lolbinPrev24h"     -> Lolbins(d, Previous(d, t))

(* The chart: the rows of the grouped query, added up by day and column.   *)
DayOf(ts) == ts \div Day

Days(t) == [i \in 1..VolumeDays |-> DayOf(t - (VolumeDays - i) * Day)]

Column(severity) == IF severity \in {"critical", "high"} THEN severity ELSE "medlow"
Columns == {"critical", "high", "medlow"}

VolumeRows(d, t) ==
  LET inWindow == {a \in DOMAIN d.alerts : d.events[d.alerts[a].ev].ts >= Days(t)[1] * Day}
      key(a)   == <<DayOf(d.events[d.alerts[a].ev].ts), d.alerts[a].severity>>
  IN {[day |-> k[1], severity |-> k[2], c |-> Cardinality({a \in inWindow : key(a) = k})] :
        k \in {key(a) : a \in inWindow}}

(* A sum, as the size of a disjoint union.                                 *)
Total(f, S) == Cardinality(UNION {{x} \X (1..f[x]) : x \in S})

VolumeLastRow(d, t) ==  \* = where the code has +=
  [cell \in (1..VolumeDays) \X Columns |->
     LET rows == {r \in VolumeRows(d, t) : r.day = Days(t)[cell[1]] /\ Column(r.severity) = cell[2]}
     IN IF rows = {} THEN 0 ELSE (CHOOSE r \in rows : TRUE).c]

Volume(d, t) ==
  [cell \in (1..VolumeDays) \X Columns |->
     LET rows == {r \in VolumeRows(d, t) : r.day = Days(t)[cell[1]] /\ Column(r.severity) = cell[2]}
     IN Total([r \in rows |-> r.c], rows)]

(* The breakdown: a count per technique, added up by tactic.               *)
Breakdown(d) ==
  LET ids  == {d.alerts[a].mitre : a \in DOMAIN d.alerts}
      rows == [m \in ids |-> Cardinality({a \in DOMAIN d.alerts : d.alerts[a].mitre = m})]
  IN [x \in {techniqueTactic(m) : m \in ids} |->
        Total(rows, {m \in ids : techniqueTactic(m) = x})]

(* The lists: ids in descending order, those that are wanted, so many.     *)
(* A negative limit is no limit to SQLite.                                 *)
Above(S, x) == {y \in S : y > x}

Descending(S) ==
  [n \in 1..Cardinality(S) |-> CHOOSE x \in S : Cardinality(Above(S, x)) = n - 1]

NewestUnfiltered(rows, wanted, limit) ==  \* the limit is applied first
  LET ids == Descending(rows)
  IN Descending({ids[n] : n \in {m \in DOMAIN ids : m <= limit}} \cap wanted)

Newest(rows, wanted, limit) ==
  LET ids  == Descending(rows \cap wanted)
      most == IF limit < PageCap THEN limit ELSE PageCap
  IN IF most < 0 THEN ids ELSE SubSeq(ids, 1, IF most < Len(ids) THEN most ELSE Len(ids))

ListEvents(d, type, limit) ==
  Newest(DOMAIN d.events, {i \in DOMAIN d.events : type \in {"", d.events[i].type}}, limit)

ListAlerts(d, severity, mitre, limit) ==
  Newest(DOMAIN d.alerts,
         {a \in DOMAIN d.alerts : /\ severity \in {"", d.alerts[a].severity}
                                  /\ mitre \in {"", d.alerts[a].mitre}}, limit)

-----------------------------------------------------------------------------
Alert == [ev : Nat, severity : STRING, mitre : STRING]
Tables == [events : Seq(EventKinds), alerts : Seq(Alert)]

TypeOK ==
  /\ clock \in Nat /\ now \in Nat /\ at \in 0..Len(Counts) + 3
  /\ db \in Tables /\ start \in Tables /\ figure \in [Figure -> Nat]

NoFigures == [f \in Figure |-> 0]
NoVolume  == [cell \in (1..VolumeDays) \X Columns |-> 0]
EmptyDb   == [events |-> << >>, alerts |-> << >>]
NoItems   == << >>

Init ==
  /\ clock = FirstNow /\ db = EmptyDb
  /\ at = 0 /\ now = FirstNow /\ figure = NoFigures
  /\ volume = NoVolume /\ items = NoItems /\ start = EmptyDb

Tick == clock < MaxNow /\ clock' = clock + 1 /\ UNCHANGED <<db, request>>

(* A console stores an event, or an alert of the event stored last.  A log *)
(* copied late brings events of any age, an agent's clock that is ahead    *)
(* events of the future.                                                   *)
StoreEvent ==
  /\ Len(db.events) < MaxEvents
  /\ \E e \in EventKinds : db' = [db EXCEPT !.events = Append(@, e)]
  /\ UNCHANGED <<clock, request>>

StoreAlert ==
  /\ db.events # << >> /\ Len(db.alerts) < MaxAlerts
  /\ \E k \in AlertKinds :
       db' = [db EXCEPT !.alerts = Append(@, [ev       |-> Len(db.events),
                                              severity |-> k.severity,
                                              mitre    |-> k.mitre])]
  /\ UNCHANGED <<clock, request>>

(* GET /api/overview.                                                      *)
Begin ==
  /\ at = 0 /\ at' = 1 /\ now' = clock /\ start' = db
  /\ UNCHANGED <<clock, db, figure, volume, items>>

CountByTheClock ==  \* each statement asks for the time anew
  /\ at \in DOMAIN Counts
  /\ figure' = [figure EXCEPT ![Counts[at]] = Cardinality(Selected(Counts[at], db, clock))]
  /\ at' = at + 1
  /\ UNCHANGED <<clock, db, now, volume, items, start>>

Count ==
  /\ at \in DOMAIN Counts
  /\ figure' = [figure EXCEPT ![Counts[at]] = Cardinality(Selected(Counts[at], db, now))]
  /\ at' = at + 1
  /\ UNCHANGED <<clock, db, now, volume, items, start>>

ReadVolume ==
  /\ at = Len(Counts) + 1 /\ at' = at + 1
  /\ volume' = Volume(db, now)
  /\ UNCHANGED <<clock, db, now, figure, items, start>>

ReadBreakdown ==
  /\ at = Len(Counts) + 2 /\ at' = at + 1
  /\ items' = Breakdown(db)
  /\ UNCHANGED <<clock, db, now, figure, volume, start>>

Answered == at = Len(Counts) + 3

Answer ==
  /\ Answered /\ at' = 0
  /\ now' = FirstNow /\ figure' = NoFigures
  /\ volume' = NoVolume /\ items' = NoItems /\ start' = EmptyDb
  /\ UNCHANGED <<clock, db>>

Next ==
  \/ Tick \/ StoreEvent \/ StoreAlert
  \/ Begin \/ Count \/ ReadVolume \/ ReadBreakdown \/ Answer

Spec == Init /\ [][Next]_vars

-----------------------------------------------------------------------------
Counted == {Counts[n] : n \in {m \in DOMAIN Counts : m < at}}

(* No count of the page is one that the database never had: it lies        *)
(* between the count when the request was taken and the count now, for the *)
(* one time the request was made at, whatever another console stores       *)
(* between the statements and however long the request takes.              *)
CountsWithin ==
  \A f \in Counted :
    /\ Cardinality(Selected(f, start, now)) <= figure[f]
    /\ figure[f] <= Cardinality(Selected(f, db, now))

(* Why: while a request is served, rows are added and none is changed, so  *)
(* that what a statement selected once it goes on selecting.               *)
Grows(d, e) ==
  /\ DOMAIN d.events \subseteq DOMAIN e.events /\ DOMAIN d.alerts \subseteq DOMAIN e.alerts
  /\ \A i \in DOMAIN d.events : e.events[i] = d.events[i]
  /\ \A a \in DOMAIN d.alerts : e.alerts[a] = d.alerts[a]

IInv == TypeOK /\ Grows(start, db) /\ CountsWithin

(* "vs. yesterday": the two windows of a card meet without a gap and       *)
(* without an overlap, so that every event of the last 48 hours counts     *)
(* towards exactly one side of the difference.                             *)
LastTwoDays(d) == {i \in DOMAIN d.events : d.events[i].ts >= now - 2 * Day}

WindowsMeet ==
  Answered =>
    /\ Cardinality(LastTwoDays(start)) <= figure["events24h"] + figure["eventsPrev24h"]
    /\ figure["events24h"] + figure["eventsPrev24h"] <= Cardinality(LastTwoDays(db))
    /\ Cardinality(AlertsOf(start, LastTwoDays(start)))
         <= figure["detections24h"] + figure["detectionsPrev24h"]
    /\ figure["detections24h"] + figure["detectionsPrev24h"]
         <= Cardinality(AlertsOf(db, LastTwoDays(db)))

(* The alerts of the day i days ago that belong in a column.               *)
OnDay(d, i, column) ==
  {a \in DOMAIN d.alerts :
     /\ d.events[d.alerts[a].ev].ts \div Day = now \div Day - i
     /\ \/ d.alerts[a].severity = column
        \/ column = "medlow" /\ d.alerts[a].severity \notin {"critical", "high"}}

DonutTotal == Total(items, DOMAIN items)

(* Chart, donut and card agree although they are read one after another:   *)
(* every alert of the last days is in the column of its own day and        *)
(* severity, the donut has a place for every alert the chart or the card   *)
(* has counted, and none of them shows one that is not stored.             *)
ChartsAgree ==
  Answered =>
    /\ \A cell \in DOMAIN volume :
         /\ Cardinality(OnDay(start, VolumeDays - cell[1], cell[2])) <= volume[cell]
         /\ volume[cell] <= Cardinality(OnDay(db, VolumeDays - cell[1], cell[2]))
    /\ Total(volume, DOMAIN volume) <= DonutTotal
    /\ figure["openDetections"] <= DonutTotal /\ DonutTotal <= Len(db.alerts)

(* A list holds the newest of the rows asked for, newest first, as many as *)
(* the limit and the cap allow: a filter never hides a row behind others   *)
(* that it filters out.  (A console that lists computes no overview.)      *)
IsNewest(ids, wanted, limit) ==
  /\ \A i, j \in DOMAIN ids : i < j => ids[i] > ids[j]
  /\ \A i \in DOMAIN ids : ids[i] \in wanted
  /\ \A w \in wanted \ {ids[i] : i \in DOMAIN ids} :
       Len(ids) \in {limit, PageCap} /\ \A i \in DOMAIN ids : ids[i] > w
  /\ Len(ids) <= limit /\ Len(ids) <= PageCap

NewestFirst ==
  at = 0 => \A limit \in 0..PageCap + 1 :
    /\ \A type \in {e.type : e \in EventKinds} \ {""} :
         IsNewest(ListEvents(db, type, limit),
                  {i \in DOMAIN db.events : db.events[i].type = type}, limit)
    /\ \A k \in {x \in AlertKinds : "" \notin {x.severity, x.mitre}} :
         /\ IsNewest(ListAlerts(db, k.severity, "", limit),
                     {a \in DOMAIN db.alerts : db.alerts[a].severity = k.severity}, limit)
         /\ IsNewest(ListAlerts(db, k.severity, k.mitre, limit),
                     {a \in DOMAIN db.alerts : /\ db.alerts[a].severity = k.severity
                                               /\ db.alerts[a].mitre = k.mitre}, limit)
=============================================================================
