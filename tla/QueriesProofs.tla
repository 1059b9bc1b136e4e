---------------------------- MODULE QueriesProofs -----------------------------
(***************************************************************************)
(* Proofs about Queries, for any events, alerts, clock and length of a     *)
(* day: the cards of an overview count what the database had while it was  *)
(* computed, and their two windows meet.                                   *)
(***************************************************************************)
EXTENDS Queries, FiniteSetTheorems, SequenceTheorems, TLAPS

LEMMA NowIsLate == FirstNow \in Nat /\ Day \in Nat
  BY QueriesAssumption

-----------------------------------------------------------------------------
(* Selecting.                                                              *)
LEMMA Selectable ==
  ASSUME NEW d \in Tables, NEW t \in Nat, NEW f \in Figure
  PROVE  Selected(f, d, t) \subseteq DOMAIN d.events \/ Selected(f, d, t) \subseteq DOMAIN d.alerts
<1> USE DEF Selected, Recent, Previous, AlertsOf, Unsigned, Lolbins
<1>1. f \in {"events24h", "eventsPrev24h", "openDetections", "detections24h", "detectionsPrev24h",
             "unsigned24h", "unsignedPrev24h", "lolbin24h", "lolbinPrev24h"}
  BY DEF Figure, Counts
<1>2. CASE f \in {"events24h", "eventsPrev24h"}
  BY <1>2
<1>3. CASE f \in {"openDetections", "detections24h", "detectionsPrev24h"}
  BY <1>3
<1>4. CASE f \in {"unsigned24h", "unsignedPrev24h", "lolbin24h", "lolbinPrev24h"}
  BY <1>4
<1> QED
  BY <1>1, <1>2, <1>3, <1>4

LEMMA SelectedFinite ==
  ASSUME NEW d \in Tables, NEW t \in Nat, NEW f \in Figure
  PROVE  IsFiniteSet(Selected(f, d, t)) /\ Cardinality(Selected(f, d, t)) \in Nat
<1>1. IsFiniteSet(DOMAIN d.events) /\ IsFiniteSet(DOMAIN d.alerts)
  BY FS_Interval DEF Tables
<1> QED
  BY <1>1, Selectable, FS_Subset, FS_CardinalityType

(* What a statement selected once it goes on selecting.                    *)
LEMMA SelectsMore ==
  ASSUME NEW d, NEW e, NEW t, NEW f \in Figure, Grows(d, e)
  PROVE  Selected(f, d, t) \subseteq Selected(f, e, t)
<1>1. /\ Recent(d, t) \subseteq Recent(e, t) /\ Previous(d, t) \subseteq Previous(e, t)
      /\ \A i \in Recent(d, t) \cup Previous(d, t) : d.events[i] = e.events[i]
  BY DEF Grows, Recent, Previous
<1>2. \A A, B : A \subseteq B => AlertsOf(d, A) \subseteq AlertsOf(e, B)
  BY DEF Grows, AlertsOf
<1>3. DOMAIN d.alerts \subseteq DOMAIN e.alerts
  BY DEF Grows
<1>4. f \in {"events24h", "eventsPrev24h", "openDetections", "detections24h", "detectionsPrev24h",
             "unsigned24h", "unsignedPrev24h", "lolbin24h", "lolbinPrev24h"}
  BY DEF Figure, Counts
<1>5. CASE f \in {"events24h", "eventsPrev24h"}
  BY <1>1, <1>5 DEF Selected
<1>6. CASE f \in {"openDetections", "detections24h", "detectionsPrev24h"}
  BY <1>1, <1>2, <1>3, <1>6 DEF Selected
<1>7. CASE f \in {"unsigned24h", "unsignedPrev24h", "lolbin24h", "lolbinPrev24h"}
  BY <1>1, <1>7 DEF Selected, Unsigned, Lolbins
<1> QED
  BY <1>4, <1>5, <1>6, <1>7

LEMMA CountsMore ==
  ASSUME NEW d \in Tables, NEW e \in Tables, NEW t \in Nat, NEW f \in Figure, Grows(d, e)
  PROVE  Cardinality(Selected(f, d, t)) <= Cardinality(Selected(f, e, t))
  BY SelectsMore, SelectedFinite, FS_Subset

LEMMA GrowsTransitive ==
  ASSUME NEW c, NEW d, NEW e, Grows(c, d), Grows(d, e)
  PROVE  Grows(c, e)
  BY DEF Grows

-----------------------------------------------------------------------------
LEMMA InitInv == Init => IInv
<1> SUFFICES ASSUME Init PROVE IInv
  OBVIOUS
<1>1. EmptyDb \in Tables
  BY DEF EmptyDb, Tables
<1>2. TypeOK
  BY <1>1, NowIsLate DEF Init, TypeOK, NoFigures, Counts
<1>3. Grows(start, db)
  BY DEF Init, Grows
<1>4. CountsWithin
  BY DEF Init, CountsWithin, Counted, Counts
<1> QED
  BY <1>2, <1>3, <1>4 DEF IInv

(* Another console stores a row.                                           *)
LEMMA StoreStep ==
  ASSUME IInv, UNCHANGED <<clock, request>>, db' \in Tables, Grows(db, db')
  PROVE  IInv'
<1> USE DEF IInv, request
<1>1. TypeOK'
  BY DEF TypeOK
<1>2. Grows(start, db)'
  BY GrowsTransitive
<1>3. CountsWithin'
  <2> SUFFICES ASSUME NEW f \in Counted
               PROVE  /\ Cardinality(Selected(f, start, now)) <= figure[f]
                      /\ figure[f] <= Cardinality(Selected(f, db', now))
    BY DEF CountsWithin, Counted
  <2>1. f \in Figure
    BY DEF Counted, Figure
  <2>2. /\ Cardinality(Selected(f, start, now)) <= figure[f]
        /\ figure[f] <= Cardinality(Selected(f, db, now))
    BY DEF CountsWithin
  <2>3. Cardinality(Selected(f, db, now)) <= Cardinality(Selected(f, db', now))
    BY <2>1, CountsMore DEF TypeOK
  <2>4. /\ figure[f] \in Nat /\ Cardinality(Selected(f, db, now)) \in Nat
        /\ Cardinality(Selected(f, db', now)) \in Nat
    BY <2>1, SelectedFinite DEF TypeOK
  <2> QED
    BY <2>2, <2>3, <2>4
<1> QED
  BY <1>1, <1>2, <1>3

LEMMA StepInv == IInv /\ [Next]_vars => IInv'
<1> SUFFICES ASSUME IInv, [Next]_vars PROVE IInv'
  OBVIOUS
<1> USE DEF IInv
<1>0. db \in Tables /\ start \in Tables /\ now \in Nat /\ clock \in Nat /\ figure \in [Figure -> Nat]
  BY DEF TypeOK
<1>1. CASE UNCHANGED vars
  BY <1>1 DEF vars, request, TypeOK, Grows, CountsWithin, Counted
<1>2. CASE Tick
  BY <1>2 DEF Tick, request, TypeOK, Grows, CountsWithin, Counted
<1>3. CASE StoreEvent
  <2>1. PICK e \in EventKinds : db' = [db EXCEPT !.events = Append(@, e)]
    BY <1>3 DEF StoreEvent
  <2>2. db' = [events |-> Append(db.events, e), alerts |-> db.alerts]
    BY <1>0, <2>1 DEF Tables
  <2>3. db' \in Tables /\ Grows(db, db')
    BY <1>0, <2>2 DEF Tables, Grows
  <2> QED
    BY <1>3, <2>3, StoreStep DEF StoreEvent
<1>4. CASE StoreAlert
  <2>1. PICK k \in AlertKinds :
          db' = [db EXCEPT !.alerts = Append(@, [ev       |-> Len(db.events),
                                                 severity |-> k.severity,
                                                 mitre    |-> k.mitre])]
    BY <1>4 DEF StoreAlert
  <2> DEFINE alert == [ev |-> Len(db.events), severity |-> k.severity, mitre |-> k.mitre]
  <2>2. alert \in Alert
    BY <1>0, QueriesAssumption DEF Tables, Alert
  <2>3. db' = [events |-> db.events, alerts |-> Append(db.alerts, alert)]
    BY <1>0, <2>1 DEF Tables
  <2> HIDE DEF alert
  <2>4. db' \in Tables /\ Grows(db, db')
    BY <1>0, <2>2, <2>3 DEF Tables, Grows
  <2> QED
    BY <1>4, <2>4, StoreStep DEF StoreAlert
<1>5. CASE Begin
  <2>1. TypeOK' /\ Grows(start, db)'
    BY <1>0, <1>5 DEF Begin, TypeOK, Grows, Counts
  <2>2. Counted' = {}
    BY <1>5 DEF Begin, Counted, Counts
  <2> QED
    BY <2>1, <2>2 DEF CountsWithin
<1>6. CASE Count
  <2> DEFINE g == Counts[at]
  <2>1. /\ at \in 1..Len(Counts) /\ at' = at + 1 /\ UNCHANGED <<clock, db, now, start>>
        /\ figure' = [figure EXCEPT ![g] = Cardinality(Selected(g, db, now))]
    BY <1>6 DEF Count, Counts
  <2>2. g \in Figure
    BY <2>1 DEF Figure
  <2>3. \A f \in Figure : figure'[f] = IF f = g THEN Cardinality(Selected(g, db, now)) ELSE figure[f]
    BY <1>0, <2>1
  <2>4. figure' \in [Figure -> Nat]
    BY <1>0, <2>1, <2>2, SelectedFinite
  <2>5. at' \in 0..Len(Counts) + 3
    BY <2>1 DEF Counts
  <2>6. TypeOK' /\ Grows(start, db)'
    BY <2>1, <2>4, <2>5 DEF TypeOK, Grows
  <2>7. \A f \in Counted' : f = g \/ f \in Counted
    BY <2>1 DEF Counted, Counts
  <2> HIDE DEF g
  <2>8. CountsWithin'
    <3> SUFFICES ASSUME NEW f \in Counted'
                 PROVE  /\ Cardinality(Selected(f, start, now)) <= figure'[f]
                        /\ figure'[f] <= Cardinality(Selected(f, db, now))
      BY <2>1 DEF CountsWithin
    <3>1. f \in Figure
      BY DEF Counted, Figure
    <3>2. CASE f = g
      BY <1>0, <2>2, <2>3, <3>2, CountsMore, SelectedFinite
    <3>3. CASE f # g
      BY <2>3, <2>7, <3>1, <3>3 DEF CountsWithin
    <3> QED
      BY <3>2, <3>3
  <2> QED
    BY <2>6, <2>8
<1>7. CASE ReadVolume \/ ReadBreakdown
  <2>1. /\ at' = at + 1 /\ at \in {10, 11} /\ UNCHANGED <<clock, db, now, figure, start>>
    BY <1>7 DEF ReadVolume, ReadBreakdown, Counts
  <2>2. TypeOK' /\ Grows(start, db)'
    BY <2>1 DEF TypeOK, Grows, Counts
  <2>3. Counted' = Counted
    BY <2>1 DEF Counted, Counts
  <2> QED
    BY <2>1, <2>2, <2>3 DEF CountsWithin
<1>8. CASE Answer
  <2>1. at' = 0 /\ now' = FirstNow /\ figure' = NoFigures /\ start' = EmptyDb /\ UNCHANGED <<clock, db>>
    BY <1>8 DEF Answer
  <2>2. TypeOK'
    BY <1>0, <2>1, NowIsLate DEF TypeOK, NoFigures, EmptyDb, Tables, Counts
  <2>3. Grows(start, db)'
    BY <2>1 DEF Grows, EmptyDb
  <2>4. Counted' = {}
    BY <2>1 DEF Counted, Counts
  <2> QED
    BY <2>2, <2>3, <2>4 DEF CountsWithin
<1> QED
  BY <1>1, <1>2, <1>3, <1>4, <1>5, <1>6, <1>7, <1>8 DEF Next

(* No count of the page is one that the database never had, whatever is    *)
(* stored between the statements of getOverview.                           *)
THEOREM CountsWithinCorrect == Spec => []CountsWithin
<1>1. IInv => CountsWithin
  BY DEF IInv
<1> QED
  BY InitInv, StepInv, <1>1, PTL DEF Spec

-----------------------------------------------------------------------------
(* The windows.                                                            *)
LEMMA WindowsSplit ==
  ASSUME NEW d \in Tables, NEW t \in Nat
  PROVE  /\ Recent(d, t) \cap Previous(d, t) = {}
         /\ Recent(d, t) \cup Previous(d, t) = {i \in DOMAIN d.events : d.events[i].ts >= t - 2 * Day}
<1>1. \A i \in DOMAIN d.events : d.events[i].ts \in Nat
  BY QueriesAssumption DEF Tables
<1> QED
  BY <1>1, NowIsLate DEF Recent, Previous

LEMMA CountsSplit ==
  ASSUME NEW S, NEW T, IsFiniteSet(S), IsFiniteSet(T), S \cap T = {}
  PROVE  Cardinality(S \cup T) = Cardinality(S) + Cardinality(T)
<1>1. Cardinality(S \cup T) = Cardinality(S) + Cardinality(T) - Cardinality(S \cap T)
  BY FS_Union
<1>2. Cardinality(S \cap T) = 0
  BY FS_EmptySet
<1>3. Cardinality(S) \in Nat /\ Cardinality(T) \in Nat
  BY FS_CardinalityType
<1> QED
  BY <1>1, <1>2, <1>3

(* The counts of both windows of a card add up to that of the last two     *)
(* days.                                                                   *)
LEMMA SidesAddUp ==
  ASSUME NEW d \in Tables, now \in Nat
  PROVE  /\ Cardinality(LastTwoDays(d)) =
              Cardinality(Selected("events24h", d, now)) + Cardinality(Selected("eventsPrev24h", d, now))
         /\ Cardinality(AlertsOf(d, LastTwoDays(d))) =
              Cardinality(Selected("detections24h", d, now))
              + Cardinality(Selected("detectionsPrev24h", d, now))
<1> DEFINE R == Recent(d, now)
           P == Previous(d, now)
<1>1. R \cap P = {} /\ R \cup P = LastTwoDays(d)
  BY WindowsSplit DEF LastTwoDays
<1>2. /\ Selected("events24h", d, now) = R /\ Selected("eventsPrev24h", d, now) = P
      /\ Selected("detections24h", d, now) = AlertsOf(d, R)
      /\ Selected("detectionsPrev24h", d, now) = AlertsOf(d, P)
  BY DEF Selected
<1>3. {"events24h", "eventsPrev24h", "detections24h", "detectionsPrev24h"} \subseteq Figure
  BY DEF Figure, Counts
<1>4. IsFiniteSet(R) /\ IsFiniteSet(P) /\ IsFiniteSet(AlertsOf(d, R)) /\ IsFiniteSet(AlertsOf(d, P))
  BY <1>2, <1>3, SelectedFinite
<1> HIDE DEF R, P
<1>5. AlertsOf(d, R) \cap AlertsOf(d, P) = {} /\ AlertsOf(d, R) \cup AlertsOf(d, P) = AlertsOf(d, R \cup P)
  BY <1>1 DEF AlertsOf
<1> QED
  BY <1>1, <1>2, <1>4, <1>5, CountsSplit

LEMMA InvWindows == IInv => WindowsMeet
<1> SUFFICES ASSUME IInv, Answered PROVE WindowsMeet
  BY DEF WindowsMeet
<1> USE DEF IInv
<1>1. {"events24h", "eventsPrev24h", "detections24h", "detectionsPrev24h"} \subseteq Counted \cap Figure
  BY DEF Answered, Counted, Figure, Counts
<1>2. db \in Tables /\ start \in Tables /\ now \in Nat /\ figure \in [Figure -> Nat]
  BY DEF TypeOK
<1>3. \A f \in Counted : /\ Cardinality(Selected(f, start, now)) <= figure[f]
                         /\ figure[f] <= Cardinality(Selected(f, db, now))
  BY DEF CountsWithin
<1>4. \A f \in Figure : /\ Cardinality(Selected(f, start, now)) \in Nat
                        /\ Cardinality(Selected(f, db, now)) \in Nat /\ figure[f] \in Nat
  BY <1>2, SelectedFinite
<1> QED
  BY <1>1, <1>2, <1>3, <1>4, SidesAddUp DEF WindowsMeet

(* Every event of the last 48 hours counts towards exactly one side of     *)
(* each difference.                                                        *)
THEOREM WindowsMeetCorrect == Spec => []WindowsMeet
  BY InitInv, StepInv, InvWindows, PTL DEF Spec
-----------------------------------------------------------------------------
(* Ordering.                                                               *)

(* How many ids lie above an id tells the ids apart and orders them.       *)
LEMMA Ranks ==
  ASSUME NEW S \in SUBSET Nat, IsFiniteSet(S)
  PROVE  /\ Cardinality(S) \in Nat
         /\ \A x \in S : Cardinality(Above(S, x)) \in 0..Cardinality(S) - 1
         /\ \A x, y \in S : x > y => Cardinality(Above(S, x)) < Cardinality(Above(S, y))
         /\ \A n \in 1..Cardinality(S) : \E x \in S : Cardinality(Above(S, x)) = n - 1
<1>1. \A x : IsFiniteSet(Above(S, x)) /\ Cardinality(Above(S, x)) \in Nat
  <2>1. \A x : Above(S, x) \in SUBSET S
    BY DEF Above
  <2> QED
    BY <2>1, FS_Subset, FS_CardinalityType
<1>2. Cardinality(S) \in Nat
  BY FS_CardinalityType
<1>3. ASSUME NEW T \in SUBSET S, NEW x \in S, x \notin Above(T, x), Above(T, x) = Above(S, x), x \in T
      PROVE  Cardinality(Above(S, x)) < Cardinality(T)
  <2>1. IsFiniteSet(T) /\ Cardinality(T) \in Nat
    BY FS_Subset, FS_CardinalityType
  <2>2. Above(S, x) \in SUBSET T
    BY <1>3 DEF Above
  <2>3. Cardinality(Above(S, x)) <= Cardinality(T) /\ Cardinality(Above(S, x)) # Cardinality(T)
    BY <1>3, <2>1, <2>2, FS_Subset
  <2> QED
    BY <1>1, <2>1, <2>3
<1>4. ASSUME NEW x \in S PROVE Cardinality(Above(S, x)) \in 0..Cardinality(S) - 1
  <2>1. x \notin Above(S, x)
    BY DEF Above
  <2>2. Cardinality(Above(S, x)) < Cardinality(S)
    BY <1>3, <2>1
  <2> QED
    BY <1>1, <1>2, <2>2
<1>5. ASSUME NEW x \in S, NEW y \in S, x > y
      PROVE  Cardinality(Above(S, x)) < Cardinality(Above(S, y))
  <2>1. x \in Above(S, y) /\ x \notin Above(S, x) /\ Above(S, y) \in SUBSET S
    BY <1>5 DEF Above
  <2>2. Above(Above(S, y), x) = Above(S, x)
    <3>1. \A z \in S : z > x => z > y
      BY <1>5
    <3> QED
      BY <3>1 DEF Above
  <2>3. x \notin Above(Above(S, y), x)
    BY <2>1, <2>2
  <2> QED
    BY <1>3, <2>1, <2>2, <2>3
<1> DEFINE rank == [x \in S |-> Cardinality(Above(S, x)) + 1]
           N == 1..Cardinality(S)
<1>6. rank \in [S -> N]
  <2>1. \A x \in S : Cardinality(Above(S, x)) + 1 \in N
    BY <1>2, <1>4
  <2> QED
    BY <2>1
<1>7. rank \in Injection(S, N)
  <2>1. ASSUME NEW x \in S, NEW y \in S, rank[x] = rank[y] PROVE x = y
    <3>1. Cardinality(Above(S, x)) = Cardinality(Above(S, y))
      BY <1>1, <2>1
    <3>2. ~ (x > y) /\ ~ (y > x)
      BY <1>1, <1>5, <3>1
    <3>3. x \in Nat /\ y \in Nat
      OBVIOUS
    <3> QED
      BY <3>2, <3>3
  <2> HIDE DEF rank, N
  <2> QED
    BY <1>6, <2>1 DEF Injection, IsInjective
<1>8. IsFiniteSet(N) /\ Cardinality(N) = Cardinality(S)
  BY <1>2, FS_Interval
<1>9. rank \in Surjection(S, N)
  <2> HIDE DEF rank, N
  <2> QED
    BY <1>7, <1>8, FS_Injection
<1>10. \A n \in N : \E x \in S : rank[x] = n
  <2> HIDE DEF rank, N
  <2> QED
    BY <1>9 DEF Surjection
<1>11. ASSUME NEW n \in 1..Cardinality(S) PROVE \E x \in S : Cardinality(Above(S, x)) = n - 1
  <2>1. PICK x \in S : rank[x] = n
    BY <1>10
  <2>2. Cardinality(Above(S, x)) = n - 1
    BY <1>1, <2>1
  <2> QED
    BY <2>2
<1> QED
  BY <1>2, <1>4, <1>5, <1>11

(* A set of ids in descending order is a sequence of them that goes down   *)
(* and holds them all.                                                     *)
LEMMA DescendingOrder ==
  ASSUME NEW S \in SUBSET Nat, IsFiniteSet(S), NEW ids, ids = Descending(S)
  PROVE  /\ ids \in Seq(S) /\ Len(ids) = Cardinality(S) /\ Len(ids) \in Nat
         /\ \A n \in 1..Len(ids) : ids[n] \in S
         /\ \A i, j \in 1..Len(ids) : i < j => ids[i] > ids[j]
         /\ \A x \in S : \E n \in 1..Len(ids) : ids[n] = x
<1>1. /\ Cardinality(S) \in Nat
      /\ \A x \in S : Cardinality(Above(S, x)) \in 0..Cardinality(S) - 1
      /\ \A x, y \in S : x > y => Cardinality(Above(S, x)) < Cardinality(Above(S, y))
      /\ \A n \in 1..Cardinality(S) : \E x \in S : Cardinality(Above(S, x)) = n - 1
  BY Ranks
<1>2. ASSUME NEW n \in 1..Cardinality(S)
      PROVE  ids[n] \in S /\ Cardinality(Above(S, ids[n])) = n - 1
  <2>1. ids[n] = CHOOSE x \in S : Cardinality(Above(S, x)) = n - 1
    BY DEF Descending
  <2>2. \E x \in S : Cardinality(Above(S, x)) = n - 1
    BY <1>1
  <2> QED
    BY <2>1, <2>2
<1>3. ids \in [1..Cardinality(S) -> S]
  <2>1. ids = [n \in 1..Cardinality(S) |-> ids[n]]
    BY DEF Descending
  <2> QED
    BY <1>2, <2>1
<1>4. ids \in Seq(S) /\ Len(ids) = Cardinality(S)
  BY <1>1, <1>3, SeqDef, LenProperties
<1>5. ASSUME NEW x \in S, NEW y \in S, Cardinality(Above(S, x)) = Cardinality(Above(S, y))
      PROVE  x = y
  <2>1. x \in Nat /\ y \in Nat /\ Cardinality(Above(S, x)) \in Int
    BY <1>1
  <2>2. ~ (x > y) /\ ~ (y > x)
    BY <1>1, <1>5, <2>1
  <2> QED
    BY <2>1, <2>2
<1>6. ASSUME NEW i \in 1..Cardinality(S), NEW j \in 1..Cardinality(S), i < j
      PROVE  ids[i] > ids[j]
  <2>1. /\ ids[i] \in S /\ Cardinality(Above(S, ids[i])) = i - 1
        /\ ids[j] \in S /\ Cardinality(Above(S, ids[j])) = j - 1
    BY <1>2
  <2>2. i - 1 < j - 1 /\ ~ (j - 1 < i - 1)
    BY <1>1, <1>6
  <2>3. ids[i] # ids[j] /\ ~ (ids[j] > ids[i])
    BY <1>1, <2>1, <2>2
  <2>4. ids[i] \in Nat /\ ids[j] \in Nat
    BY <2>1
  <2> QED
    BY <2>3, <2>4
<1>7. ASSUME NEW x \in S PROVE \E n \in 1..Cardinality(S) : ids[n] = x
  <2> DEFINE n == Cardinality(Above(S, x)) + 1
  <2>1. n \in 1..Cardinality(S) /\ Cardinality(Above(S, x)) = n - 1
    BY <1>1
  <2> HIDE DEF n
  <2>2. ids[n] = x
    BY <1>2, <1>5, <2>1
  <2> QED
    BY <2>1, <2>2
<1> QED
  BY <1>1, <1>2, <1>4, <1>6, <1>7

(* The rows of a list: the newest that are wanted.                         *)
LEMMA NewestIsNewest ==
  ASSUME NEW rows \in SUBSET Nat, IsFiniteSet(rows), NEW wanted \in SUBSET rows, NEW limit \in Nat
  PROVE  IsNewest(Newest(rows, wanted, limit), wanted, limit)
<1> DEFINE all == Descending(rows \cap wanted)
           most == IF limit < PageCap THEN limit ELSE PageCap
           last == IF most < Len(all) THEN most ELSE Len(all)
           ids == SubSeq(all, 1, last)
<1>1. wanted \in SUBSET Nat /\ IsFiniteSet(wanted) /\ rows \cap wanted = wanted
  BY FS_Subset
<1>2. /\ all \in Seq(wanted) /\ Len(all) \in Nat
      /\ \A n \in 1..Len(all) : all[n] \in wanted
      /\ \A i, j \in 1..Len(all) : i < j => all[i] > all[j]
      /\ \A x \in wanted : \E n \in 1..Len(all) : all[n] = x
  <2>1. all = Descending(wanted)
    BY <1>1
  <2> HIDE DEF all
  <2> QED
    BY <1>1, <2>1, DescendingOrder
<1>3. most \in Nat /\ most \in {limit, PageCap} /\ most <= limit /\ most <= PageCap /\ PageCap \in Nat
  BY QueriesAssumption
<1>4. Newest(rows, wanted, limit) = ids
  BY <1>3 DEF Newest
<1> HIDE DEF all, most
<1>5. last \in Nat /\ last <= most /\ last <= Len(all) /\ (last # Len(all) => last = most)
  BY <1>2, <1>3
<1> HIDE DEF last
<1>6. /\ Len(ids) = last /\ DOMAIN ids = 1..last
      /\ \A n \in 1..last : ids[n] = all[n] /\ n \in 1..Len(all)
  <2>1. \A n \in 1..last : n \in 1..Len(all) /\ all[n] \in wanted
    BY <1>2, <1>5
  <2>2. /\ ids \in Seq(wanted)
        /\ Len(ids) = IF 1 <= last THEN last - 1 + 1 ELSE 0
        /\ \A n \in 1..last - 1 + 1 : ids[n] = all[1 + n - 1]
    BY <1>2, <1>5, <2>1, SubSeqProperties
  <2>3. Len(ids) = last
    BY <1>5, <2>2
  <2>4. \A n \in 1..last : n \in 1..last - 1 + 1 /\ 1 + n - 1 = n
    BY <1>5
  <2>5. DOMAIN ids = 1..last
    BY <2>2, <2>3, LenProperties
  <2> QED
    BY <2>1, <2>2, <2>3, <2>4, <2>5
<1> HIDE DEF ids
<1>7. \A i, j \in DOMAIN ids : i < j => ids[i] > ids[j]
  BY <1>2, <1>6
<1>8. \A i \in DOMAIN ids : ids[i] \in wanted
  BY <1>2, <1>6
<1>9. ASSUME NEW w \in wanted \ {ids[i] : i \in DOMAIN ids}
      PROVE  Len(ids) \in {limit, PageCap} /\ \A i \in DOMAIN ids : ids[i] > w
  <2>1. PICK n \in 1..Len(all) : all[n] = w
    BY <1>2
  <2>2. n \notin 1..last
    BY <1>6, <1>9, <2>1
  <2>3. last < n /\ last # Len(all)
    BY <1>2, <1>5, <2>2
  <2>4. Len(ids) \in {limit, PageCap}
    BY <1>3, <1>5, <1>6, <2>3
  <2>5. ASSUME NEW i \in DOMAIN ids PROVE ids[i] > w
    <3>1. i \in 1..Len(all) /\ i < n /\ ids[i] = all[i]
      BY <1>2, <1>5, <1>6, <2>3
    <3> QED
      BY <1>2, <2>1, <3>1
  <2> QED
    BY <2>4, <2>5
<1>10. Len(ids) <= limit /\ Len(ids) <= PageCap
  BY <1>3, <1>5, <1>6
<1> QED
  BY <1>4, <1>7, <1>8, <1>9, <1>10 DEF IsNewest

(* A filtered list holds the newest rows that pass the filter, newest      *)
(* first, and never hides one of them behind rows that do not.             *)
THEOREM NewestFirstCorrect == Spec => []NewestFirst
<1>1. IInv => NewestFirst
  <2> SUFFICES ASSUME IInv, NEW limit \in 0..PageCap + 1
               PROVE
    /\ \A type \in {e.type : e \in EventKinds} \ {""} :
         IsNewest(ListEvents(db, type, limit),
                  {i \in DOMAIN db.events : db.events[i].type = type}, limit)
    /\ \A k \in {x \in AlertKinds : "" \notin {x.severity, x.mitre}} :
         /\ IsNewest(ListAlerts(db, k.severity, "", limit),
                     {a \in DOMAIN db.alerts : db.alerts[a].severity = k.severity}, limit)
         /\ IsNewest(ListAlerts(db, k.severity, k.mitre, limit),
                     {a \in DOMAIN db.alerts : /\ db.alerts[a].severity = k.severity
                                               /\ db.alerts[a].mitre = k.mitre}, limit)
    BY DEF NewestFirst
  <2>1. limit \in Nat
    BY QueriesAssumption
  <2>2. /\ DOMAIN db.events \in SUBSET Nat /\ IsFiniteSet(DOMAIN db.events)
        /\ DOMAIN db.alerts \in SUBSET Nat /\ IsFiniteSet(DOMAIN db.alerts)
    <3>1. db.events \in Seq(EventKinds) /\ db.alerts \in Seq(Alert)
      BY DEF IInv, TypeOK, Tables
    <3>2. /\ DOMAIN db.events = 1..Len(db.events) /\ Len(db.events) \in Nat
          /\ DOMAIN db.alerts = 1..Len(db.alerts) /\ Len(db.alerts) \in Nat
      BY <3>1, LenProperties
    <3>3. \A n \in Nat : IsFiniteSet(1..n)
      BY FS_Interval
    <3> QED
      BY <3>2, <3>3
  <2>3. ASSUME NEW type, type # ""
        PROVE  IsNewest(ListEvents(db, type, limit),
                        {i \in DOMAIN db.events : db.events[i].type = type}, limit)
    <3>1. {i \in DOMAIN db.events : type \in {"", db.events[i].type}}
            = {i \in DOMAIN db.events : db.events[i].type = type}
      BY <2>3
    <3> QED
      BY <2>1, <2>2, <3>1, NewestIsNewest DEF ListEvents
  <2>4. ASSUME NEW severity, severity # ""
        PROVE  IsNewest(ListAlerts(db, severity, "", limit),
                        {a \in DOMAIN db.alerts : db.alerts[a].severity = severity}, limit)
    <3>1. {a \in DOMAIN db.alerts : /\ severity \in {"", db.alerts[a].severity}
                                    /\ "" \in {"", db.alerts[a].mitre}}
            = {a \in DOMAIN db.alerts : db.alerts[a].severity = severity}
      BY <2>4
    <3> QED
      BY <2>1, <2>2, <3>1, NewestIsNewest DEF ListAlerts
  <2>5. ASSUME NEW k \in {x \in AlertKinds : "" \notin {x.severity, x.mitre}}
        PROVE  k.severity # "" /\ k.mitre # ""
    OBVIOUS
  <2>6. ASSUME NEW k \in {x \in AlertKinds : "" \notin {x.severity, x.mitre}}
        PROVE  /\ IsNewest(ListAlerts(db, k.severity, "", limit),
                           {a \in DOMAIN db.alerts : db.alerts[a].severity = k.severity}, limit)
               /\ IsNewest(ListAlerts(db, k.severity, k.mitre, limit),
                           {a \in DOMAIN db.alerts : /\ db.alerts[a].severity = k.severity
                                                     /\ db.alerts[a].mitre = k.mitre}, limit)
    <3>1. IsNewest(ListAlerts(db, k.severity, "", limit),
                   {a \in DOMAIN db.alerts : db.alerts[a].severity = k.severity}, limit)
      BY <2>4, <2>5
    <3>2. IsNewest(ListAlerts(db, k.severity, k.mitre, limit),
                   {a \in DOMAIN db.alerts : /\ db.alerts[a].severity = k.severity
                                             /\ db.alerts[a].mitre = k.mitre}, limit)
      <4>1. {a \in DOMAIN db.alerts : /\ k.severity \in {"", db.alerts[a].severity}
                                      /\ k.mitre \in {"", db.alerts[a].mitre}}
              = {a \in DOMAIN db.alerts : /\ db.alerts[a].severity = k.severity
                                          /\ db.alerts[a].mitre = k.mitre}
        BY <2>5
      <4> QED
        BY <2>1, <2>2, <4>1, NewestIsNewest DEF ListAlerts
    <3> QED
      BY <3>1, <3>2
  <2>7. ASSUME NEW type \in {e.type : e \in EventKinds} \ {""}
        PROVE  IsNewest(ListEvents(db, type, limit),
                        {i \in DOMAIN db.events : db.events[i].type = type}, limit)
    BY <2>3
  <2> QED
    BY <2>6, <2>7
<1> QED
  BY InitInv, StepInv, <1>1, PTL DEF Spec
-----------------------------------------------------------------------------
(* Adding up.                                                              *)

(* The sizes of the classes of a set add up to its size: number the        *)
(* members of each class, and every place of the disjoint union is taken   *)
(* by one of them.                                                         *)
LEMMA ClassesAddUp ==
  ASSUME NEW S \in SUBSET Nat, IsFiniteSet(S), NEW T, NEW key \in [S -> T], NEW f,
         \A k \in T : f[k] = Cardinality({a \in S : key[a] = k})
  PROVE  Total(f, T) = Cardinality(S)
<1> DEFINE Class(k) == {a \in S : key[a] = k}
           rank(a) == Cardinality(Above(Class(key[a]), a)) + 1
           U == UNION {{x} \X (1..f[x]) : x \in T}
           place == [a \in S |-> <<key[a], rank(a)>>]
<1>1. \A k : Class(k) \in SUBSET Nat /\ IsFiniteSet(Class(k))
  <2>1. \A k : Class(k) \in SUBSET S
    OBVIOUS
  <2> QED
    BY <2>1, FS_Subset
<1>2. \A k \in T : f[k] = Cardinality(Class(k)) /\ f[k] \in Nat
  BY <1>1, FS_CardinalityType
<1>3. \A a \in S : key[a] \in T /\ a \in Class(key[a])
  OBVIOUS
<1>4. \A k : /\ \A a \in Class(k) : Cardinality(Above(Class(k), a)) \in 0..Cardinality(Class(k)) - 1
             /\ \A a, b \in Class(k) :
                  a > b => Cardinality(Above(Class(k), a)) < Cardinality(Above(Class(k), b))
             /\ \A n \in 1..Cardinality(Class(k)) :
                  \E a \in Class(k) : Cardinality(Above(Class(k), a)) = n - 1
  <2> HIDE DEF Class
  <2> QED
    BY <1>1, Ranks
<1>5. \A p : p \in U <=> \E x \in T : \E n \in 1..f[x] : p = <<x, n>>
  OBVIOUS
<1>6. \A a \in S : rank(a) \in 1..f[key[a]]
  <2> SUFFICES ASSUME NEW a \in S PROVE rank(a) \in 1..f[key[a]]
    OBVIOUS
  <2> HIDE DEF Class
  <2>1. Cardinality(Above(Class(key[a]), a)) \in 0..f[key[a]] - 1 /\ f[key[a]] \in Nat
    BY <1>2, <1>3, <1>4
  <2> QED
    BY <2>1
<1>7. place \in [S -> U]
  <2>1. \A a \in S : <<key[a], rank(a)>> \in U
    <3> HIDE DEF rank, U
    <3> QED
      BY <1>3, <1>5, <1>6
  <2> HIDE DEF rank, U
  <2> QED
    BY <2>1
<1>8. ASSUME NEW a \in S, NEW b \in S, place[a] = place[b] PROVE a = b
  <2>1. key[a] = key[b] /\ rank(a) = rank(b)
    <3> HIDE DEF rank
    <3> QED
      BY <1>8
  <2> HIDE DEF Class
  <2>2. /\ Cardinality(Above(Class(key[a]), a)) \in Int
        /\ Cardinality(Above(Class(key[a]), b)) \in Int
        /\ b \in Class(key[a]) /\ a \in Class(key[a])
    <3>1. a \in Class(key[a]) /\ b \in Class(key[a])
      BY <1>3, <2>1
    <3> QED
      BY <1>4, <3>1
  <2>3. Cardinality(Above(Class(key[a]), a)) = Cardinality(Above(Class(key[a]), b))
    BY <2>1, <2>2
  <2>4. ~ (a > b) /\ ~ (b > a)
    BY <1>4, <2>2, <2>3
  <2> QED
    BY <2>4
<1>9. ASSUME NEW p \in U PROVE \E a \in S : place[a] = p
  <2> HIDE DEF U
  <2>1. PICK x \in T : \E n \in 1..f[x] : p = <<x, n>>
    BY <1>5
  <2>2. PICK n \in 1..f[x] : p = <<x, n>>
    BY <2>1
  <2> HIDE DEF Class
  <2>3. PICK a \in Class(x) : Cardinality(Above(Class(x), a)) = n - 1
    BY <1>2, <1>4
  <2>4. a \in S /\ key[a] = x
    BY <2>3 DEF Class
  <2>5. rank(a) = n
    BY <1>2, <2>3, <2>4
  <2> HIDE DEF rank
  <2>6. place[a] = p
    BY <2>2, <2>4, <2>5
  <2> QED
    BY <2>4, <2>6
<1> HIDE DEF place, U, Class, rank
<1>10. place \in Bijection(S, U)
  BY <1>7, <1>8, <1>9 DEF Bijection, Injection, IsInjective, Surjection
<1>11. Cardinality(U) = Cardinality(S)
  BY <1>10, FS_Bijection DEF ExistsBijection
<1> QED
  BY <1>11 DEF Total, U

-----------------------------------------------------------------------------
(* Days.                                                                   *)
LEMMA DayShift ==
  ASSUME NEW t \in Int, NEW k \in Int
  PROVE  DayOf(t) \in Int /\ DayOf(t - k * Day) = DayOf(t) - k
<1>1. Day \in Nat /\ Day > 0
  BY QueriesAssumption
<1> QED
  BY <1>1 DEF DayOf

LEMMA DayStarts ==
  ASSUME NEW t \in Int, NEW n \in Int, DayOf(t) >= n
  PROVE  t >= n * Day
<1>1. Day \in Nat /\ Day > 0
  BY QueriesAssumption
<1>2. t >= DayOf(t) * Day
  BY <1>1 DEF DayOf
<1> DEFINE q == DayOf(t)
<1>3. q \in Int /\ q >= n
  BY DayShift
<1> HIDE DEF q
<1>4. (q - n) * Day >= 0 /\ (q - n) * Day = q * Day - n * Day
  BY <1>1, <1>3
<1>5. q * Day \in Int /\ n * Day \in Int
  BY <1>1, <1>3
<1> QED
  BY <1>2, <1>4, <1>5 DEF q
-----------------------------------------------------------------------------
(* The chart and the donut.                                                *)

(* Every alert is of an event that is stored.                              *)
Refers(d) == \A a \in DOMAIN d.alerts : d.alerts[a].ev \in DOMAIN d.events

Cells == (1..VolumeDays) \X Columns

(* The alerts a place of the chart is about.                               *)
AlertsAt(d, t, cell) ==
  {a \in DOMAIN d.alerts : /\ DayOf(d.events[d.alerts[a].ev].ts) = DayOf(t) - (VolumeDays - cell[1])
                           /\ Column(d.alerts[a].severity) = cell[2]}

LEMMA TableRows ==
  ASSUME NEW d \in Tables, Refers(d)
  PROVE  /\ DOMAIN d.alerts \in SUBSET Nat /\ IsFiniteSet(DOMAIN d.alerts)
         /\ Cardinality(DOMAIN d.alerts) = Len(d.alerts) /\ Len(d.alerts) \in Nat
         /\ \A a \in DOMAIN d.alerts : d.events[d.alerts[a].ev].ts \in Nat
<1>1. d.events \in Seq(EventKinds) /\ d.alerts \in Seq(Alert)
  BY DEF Tables
<1>2. /\ DOMAIN d.alerts = 1..Len(d.alerts) /\ Len(d.alerts) \in Nat
      /\ DOMAIN d.events = 1..Len(d.events)
  BY <1>1, LenProperties
<1>3. \A n \in Nat : IsFiniteSet(1..n) /\ Cardinality(1..n) = n
  BY FS_Interval
<1>4. \A i \in DOMAIN d.events : d.events[i].ts \in Nat
  <2>1. \A i \in DOMAIN d.events : d.events[i] \in EventKinds
    BY <1>1, <1>2, ElementOfSeq
  <2> QED
    BY <2>1, QueriesAssumption
<1> QED
  BY <1>2, <1>3, <1>4 DEF Refers

LEMMA DaysOfChart ==
  ASSUME NEW t \in Nat, NEW i \in 1..VolumeDays
  PROVE  Days(t)[i] = DayOf(t) - (VolumeDays - i) /\ Days(t)[1] = DayOf(t) - (VolumeDays - 1)
         /\ Days(t)[1] <= Days(t)[i] /\ Days(t)[1] \in Int /\ Days(t)[i] \in Int
<1>1. VolumeDays \in Nat /\ 1 \in 1..VolumeDays /\ Day \in Nat
  BY QueriesAssumption
<1>2. \A j \in 1..VolumeDays : Days(t)[j] = DayOf(t) - (VolumeDays - j)
  <2> SUFFICES ASSUME NEW j \in 1..VolumeDays PROVE Days(t)[j] = DayOf(t) - (VolumeDays - j)
    OBVIOUS
  <2>1. Days(t)[j] = DayOf(t - (VolumeDays - j) * Day)
    BY DEF Days
  <2>2. VolumeDays - j \in Int
    BY <1>1
  <2> QED
    BY <2>1, <2>2, DayShift
<1>3. DayOf(t) \in Int
  BY DayShift
<1> QED
  BY <1>1, <1>2, <1>3

(* A place of the chart holds the number of its alerts: none is outside    *)
(* the window of the query, and the rows of a column are added up.         *)
LEMMA VolumeCounts ==
  ASSUME NEW d \in Tables, Refers(d), NEW t \in Nat, NEW cell \in Cells
  PROVE  Volume(d, t)[cell] = Cardinality(AlertsAt(d, t, cell))
<1> DEFINE day(a) == DayOf(d.events[d.alerts[a].ev].ts)
           severity(a) == d.alerts[a].severity
           W == {a \in DOMAIN d.alerts : d.events[d.alerts[a].ev].ts >= Days(t)[1] * Day}
           C(k) == {a \in W : <<day(a), severity(a)>> = k}
           row(k) == [day |-> k[1], severity |-> k[2], c |-> Cardinality(C(k))]
           A == AlertsAt(d, t, cell)
           R == {r \in VolumeRows(d, t) : r.day = Days(t)[cell[1]] /\ Column(r.severity) = cell[2]}
           key == [a \in A |-> row(<<day(a), severity(a)>>)]
           f == [r \in R |-> r.c]
<1>1. cell[1] \in 1..VolumeDays /\ cell[2] \in Columns /\ cell \in (1..VolumeDays) \X Columns
  BY DEF Cells
<1>2. /\ Days(t)[cell[1]] = DayOf(t) - (VolumeDays - cell[1])
      /\ Days(t)[1] <= Days(t)[cell[1]] /\ Days(t)[1] \in Int /\ Days(t)[cell[1]] \in Int
  BY <1>1, DaysOfChart
<1>3. VolumeRows(d, t) = {row(k) : k \in {<<day(a), severity(a)>> : a \in W}}
  BY DEF VolumeRows
<1>4. Volume(d, t)[cell] = Total(f, R)
  BY <1>1 DEF Volume
<1>5. A \in SUBSET Nat /\ IsFiniteSet(A)
  <2>1. A \in SUBSET DOMAIN d.alerts
    BY DEF AlertsAt
  <2> HIDE DEF A
  <2> QED
    BY <2>1, TableRows, FS_Subset
<1>6. ASSUME NEW a \in DOMAIN d.alerts
      PROVE  a \in A <=> a \in W /\ day(a) = Days(t)[cell[1]] /\ Column(severity(a)) = cell[2]
  <2>1. a \in A <=> day(a) = Days(t)[cell[1]] /\ Column(severity(a)) = cell[2]
    BY <1>2 DEF AlertsAt
  <2>2. day(a) = Days(t)[cell[1]] => a \in W
    <3>1. d.events[d.alerts[a].ev].ts \in Int
      BY TableRows
    <3> QED
      BY <1>2, <3>1, DayStarts
  <2> QED
    BY <2>1, <2>2
<1>7. A \subseteq DOMAIN d.alerts /\ W \subseteq DOMAIN d.alerts
  BY DEF AlertsAt
<1> HIDE DEF day, severity, W, A
<1>8. \A k : row(k).day = k[1] /\ row(k).severity = k[2] /\ row(k).c = Cardinality(C(k))
  OBVIOUS
<1> HIDE DEF C, row
<1>9. \A r \in R : \E a \in W : r = row(<<day(a), severity(a)>>)
  BY <1>3
<1>10. \A a \in A : row(<<day(a), severity(a)>>) \in R
  <2> SUFFICES ASSUME NEW a \in A PROVE row(<<day(a), severity(a)>>) \in R
    OBVIOUS
  <2>1. a \in W /\ day(a) = Days(t)[cell[1]] /\ Column(severity(a)) = cell[2]
    BY <1>6, <1>7
  <2>2. row(<<day(a), severity(a)>>) \in VolumeRows(d, t)
    BY <1>3, <2>1
  <2> QED
    BY <1>8, <2>1, <2>2
<1>11. key \in [A -> R]
  <2> HIDE DEF R
  <2> QED
    BY <1>10
<1>12. ASSUME NEW r \in R PROVE f[r] = Cardinality({a \in A : key[a] = r})
  <2>1. PICK b \in W : r = row(<<day(b), severity(b)>>)
    BY <1>9
  <2>2. /\ r.day = day(b) /\ r.severity = severity(b)
        /\ r.c = Cardinality(C(<<day(b), severity(b)>>))
        /\ day(b) = Days(t)[cell[1]] /\ Column(severity(b)) = cell[2]
    BY <1>8, <2>1
  <2>3. \A a : a \in C(<<day(b), severity(b)>>)
                 <=> a \in W /\ day(a) = day(b) /\ severity(a) = severity(b)
    BY DEF C
  <2>4. ASSUME NEW a \in A PROVE key[a] = r <=> day(a) = day(b) /\ severity(a) = severity(b)
    <3>1. key[a] = row(<<day(a), severity(a)>>)
      OBVIOUS
    <3>2. key[a].day = day(a) /\ key[a].severity = severity(a)
      BY <1>8, <3>1
    <3> QED
      BY <2>1, <2>2, <3>1, <3>2
  <2>5. \A a : a \in W /\ day(a) = day(b) /\ severity(a) = severity(b) => a \in A
    BY <1>6, <1>7, <2>2
  <2> HIDE DEF key
  <2>6. {a \in A : key[a] = r} = C(<<day(b), severity(b)>>)
    BY <1>6, <1>7, <2>3, <2>4, <2>5
  <2>7. f[r] = r.c
    OBVIOUS
  <2> QED
    BY <2>2, <2>6, <2>7
<1> HIDE DEF f, R, key
<1>13. Total(f, R) = Cardinality(A)
  BY <1>5, <1>11, <1>12, ClassesAddUp
<1> QED
  BY <1>4, <1>13 DEF A

(* No alert is in two places of the chart.                                 *)
LEMMA ChartTotal ==
  ASSUME NEW d \in Tables, Refers(d), NEW t \in Nat, NEW v,
         \A cell \in Cells : v[cell] = Cardinality(AlertsAt(d, t, cell))
  PROVE  Total(v, Cells) \in Nat /\ Total(v, Cells) <= Len(d.alerts)
<1> DEFINE place(a) == <<DayOf(d.events[d.alerts[a].ev].ts) - DayOf(t) + VolumeDays,
                         Column(d.alerts[a].severity)>>
           S == {a \in DOMAIN d.alerts : place(a) \in Cells}
           key == [a \in S |-> place(a)]
<1>1. S \in SUBSET Nat /\ IsFiniteSet(S) /\ Cardinality(S) \in Nat /\ Cardinality(S) <= Len(d.alerts)
  <2>1. S \in SUBSET DOMAIN d.alerts
    OBVIOUS
  <2> HIDE DEF S
  <2> QED
    BY <2>1, TableRows, FS_Subset, FS_CardinalityType
<1>2. key \in [S -> Cells]
  <2>1. \A a \in S : place(a) \in Cells
    OBVIOUS
  <2> HIDE DEF place, S
  <2> QED
    BY <2>1
<1>3. ASSUME NEW cell \in Cells PROVE v[cell] = Cardinality({a \in S : key[a] = cell})
  <2>1. cell[1] \in Int /\ VolumeDays \in Int /\ DayOf(t) \in Int /\ cell = <<cell[1], cell[2]>>
    BY QueriesAssumption, DayShift DEF Cells
  <2>2. ASSUME NEW a \in DOMAIN d.alerts
        PROVE  a \in AlertsAt(d, t, cell) <=> place(a) = cell
    <3> DEFINE n == DayOf(d.events[d.alerts[a].ev].ts)
    <3>1. n \in Int
      <4>1. d.events[d.alerts[a].ev].ts \in Int
        BY TableRows
      <4> QED
        BY <4>1, DayShift
    <3>2. a \in AlertsAt(d, t, cell)
            <=> n = DayOf(t) - (VolumeDays - cell[1]) /\ Column(d.alerts[a].severity) = cell[2]
      BY DEF AlertsAt
    <3>3. place(a) = <<n - DayOf(t) + VolumeDays, Column(d.alerts[a].severity)>>
      OBVIOUS
    <3> HIDE DEF n, place
    <3> QED
      BY <2>1, <3>1, <3>2, <3>3
  <2>3. AlertsAt(d, t, cell) \subseteq DOMAIN d.alerts
    BY DEF AlertsAt
  <2>4. \A a : a \in {x \in S : key[x] = cell} <=> a \in DOMAIN d.alerts /\ place(a) = cell
    OBVIOUS
  <2>5. AlertsAt(d, t, cell) = {a \in S : key[a] = cell}
    <3> HIDE DEF place, key, S
    <3> QED
      BY <2>2, <2>3, <2>4
  <2> QED
    BY <2>5
<1> HIDE DEF S, key
<1>4. Total(v, Cells) = Cardinality(S)
  BY <1>1, <1>2, <1>3, ClassesAddUp
<1> QED
  BY <1>1, <1>4

(* The donut has one place for every alert.                                *)
LEMMA DonutCounts ==
  ASSUME NEW d \in Tables, Refers(d)
  PROVE  Total(Breakdown(d), DOMAIN Breakdown(d)) = Len(d.alerts)
<1> DEFINE A == DOMAIN d.alerts
           mitre(a) == d.alerts[a].mitre
           ids == {mitre(a) : a \in A}
           rows == [m \in ids |-> Cardinality({a \in A : mitre(a) = m})]
           tactics == {techniqueTactic(m) : m \in ids}
           Of(x) == {a \in A : techniqueTactic(mitre(a)) = x}
           IdsOf(x) == {m \in ids : techniqueTactic(m) = x}
<1>1. Breakdown(d) = [x \in tactics |-> Total(rows, IdsOf(x))]
  BY DEF Breakdown
<1>2. A \in SUBSET Nat /\ IsFiniteSet(A) /\ Cardinality(A) = Len(d.alerts)
  BY TableRows
<1>3. \A a \in A : mitre(a) \in ids /\ techniqueTactic(mitre(a)) \in tactics
  OBVIOUS
<1>4. \A m \in ids : rows[m] = Cardinality({a \in A : mitre(a) = m})
  OBVIOUS
<1> HIDE DEF A, mitre, ids, rows, tactics
<1>5. ASSUME NEW x \in tactics PROVE Total(rows, IdsOf(x)) = Cardinality(Of(x))
  <2> DEFINE key == [a \in Of(x) |-> mitre(a)]
  <2>1. Of(x) \in SUBSET Nat /\ IsFiniteSet(Of(x))
    <3>1. Of(x) \in SUBSET A
      OBVIOUS
    <3> QED
      BY <1>2, <3>1, FS_Subset
  <2>2. key \in [Of(x) -> IdsOf(x)]
    BY <1>3
  <2>3. ASSUME NEW m \in IdsOf(x) PROVE rows[m] = Cardinality({a \in Of(x) : key[a] = m})
    <3>1. {a \in Of(x) : key[a] = m} = {a \in A : mitre(a) = m}
      OBVIOUS
    <3> QED
      BY <1>4, <3>1
  <2> HIDE DEF key, Of, IdsOf
  <2> QED
    BY <2>1, <2>2, <2>3, ClassesAddUp
<1> DEFINE key == [a \in A |-> techniqueTactic(mitre(a))]
<1>6. key \in [A -> tactics]
  BY <1>3
<1>7. ASSUME NEW x \in tactics
      PROVE  Breakdown(d)[x] = Cardinality({a \in A : key[a] = x})
  <2>1. {a \in A : key[a] = x} = Of(x)
    OBVIOUS
  <2>2. Breakdown(d)[x] = Total(rows, IdsOf(x))
    <3> HIDE DEF IdsOf
    <3> QED
      BY <1>1
  <2> QED
    BY <1>5, <2>1, <2>2
<1>8. DOMAIN Breakdown(d) = tactics
  BY <1>1
<1> HIDE DEF key
<1>9. Total(Breakdown(d), tactics) = Cardinality(A)
  BY <1>2, <1>6, <1>7, ClassesAddUp
<1> QED
  BY <1>2, <1>8, <1>9
(* What a request has read of the two charts, statement by statement.      *)
ChartsInv ==
  /\ Refers(db) /\ Refers(start)
  /\ at > Len(Counts) + 1 =>
       /\ DOMAIN volume = Cells
       /\ \A cell \in Cells :
            /\ volume[cell] \in Nat
            /\ Cardinality(AlertsAt(start, now, cell)) <= volume[cell]
            /\ volume[cell] <= Cardinality(AlertsAt(db, now, cell))
       /\ Total(volume, Cells) \in Nat /\ Total(volume, Cells) <= Len(db.alerts)
  /\ Answered =>
       /\ DonutTotal \in Nat /\ DonutTotal <= Len(db.alerts)
       /\ Total(volume, Cells) <= DonutTotal /\ figure["openDetections"] <= DonutTotal

LEMMA AlertsAtGrow ==
  ASSUME NEW d \in Tables, NEW e \in Tables, Refers(d), Refers(e), Grows(d, e), NEW t, NEW cell
  PROVE  /\ Cardinality(AlertsAt(d, t, cell)) \in Nat /\ Cardinality(AlertsAt(e, t, cell)) \in Nat
         /\ Cardinality(AlertsAt(d, t, cell)) <= Cardinality(AlertsAt(e, t, cell))
         /\ Len(d.alerts) <= Len(e.alerts) /\ Len(d.alerts) \in Nat /\ Len(e.alerts) \in Nat
<1>1. AlertsAt(d, t, cell) \in SUBSET AlertsAt(e, t, cell)
  BY DEF Grows, Refers, AlertsAt
<1>2. AlertsAt(e, t, cell) \in SUBSET DOMAIN e.alerts /\ AlertsAt(d, t, cell) \in SUBSET DOMAIN d.alerts
  BY DEF AlertsAt
<1>3. IsFiniteSet(AlertsAt(e, t, cell)) /\ IsFiniteSet(AlertsAt(d, t, cell))
  BY <1>2, TableRows, FS_Subset
<1>4. DOMAIN d.alerts \in SUBSET DOMAIN e.alerts
  BY DEF Grows
<1> QED
  BY <1>1, <1>3, <1>4, TableRows, FS_Subset, FS_CardinalityType

LEMMA ChartsInit == Init => ChartsInv
<1> SUFFICES ASSUME Init PROVE ChartsInv
  OBVIOUS
<1>1. at = 0 /\ db = EmptyDb /\ start = EmptyDb
  BY DEF Init
<1>2. Refers(EmptyDb)
  BY DEF Refers, EmptyDb
<1> QED
  BY <1>1, <1>2 DEF ChartsInv, Answered, Counts

(* Rows that another console adds between two statements.                  *)
LEMMA ChartsStored ==
  ASSUME IInv, ChartsInv, UNCHANGED request, db' \in Tables, Grows(db, db'), Refers(db')
  PROVE  ChartsInv'
<1>1. db \in Tables /\ UNCHANGED <<at, now, figure, volume, items, start>>
  BY DEF IInv, TypeOK, request
<1>2. Refers(db) /\ Refers(start)
  BY DEF ChartsInv
<1>3. /\ \A cell : /\ Cardinality(AlertsAt(db, now, cell)) \in Nat
                   /\ Cardinality(AlertsAt(db', now, cell)) \in Nat
                   /\ Cardinality(AlertsAt(db, now, cell)) <= Cardinality(AlertsAt(db', now, cell))
      /\ Len(db.alerts) <= Len(db'.alerts) /\ Len(db.alerts) \in Nat /\ Len(db'.alerts) \in Nat
  BY <1>1, <1>2, AlertsAtGrow
<1>4. Refers(db)' /\ Refers(start)'
  BY <1>1, <1>2
<1>5. ASSUME at > Len(Counts) + 1
      PROVE  /\ DOMAIN volume = Cells
             /\ \A cell \in Cells :
                  /\ volume[cell] \in Nat
                  /\ Cardinality(AlertsAt(start, now, cell)) <= volume[cell]
                  /\ volume[cell] <= Cardinality(AlertsAt(db', now, cell))
             /\ Total(volume, Cells) \in Nat /\ Total(volume, Cells) <= Len(db'.alerts)
  BY <1>3, <1>5 DEF ChartsInv
<1>6. ASSUME Answered
      PROVE  /\ DonutTotal \in Nat /\ DonutTotal <= Len(db'.alerts)
             /\ Total(volume, Cells) <= DonutTotal /\ figure["openDetections"] <= DonutTotal
  BY <1>3, <1>6 DEF ChartsInv
<1>7. /\ (Answered' <=> Answered) /\ DonutTotal' = DonutTotal
  BY <1>1 DEF Answered, DonutTotal
<1> QED
  BY <1>1, <1>4, <1>5, <1>6, <1>7 DEF ChartsInv

LEMMA ChartsStep == IInv /\ ChartsInv /\ [Next]_vars => ChartsInv'
<1> SUFFICES ASSUME IInv, ChartsInv, [Next]_vars PROVE ChartsInv'
  OBVIOUS
<1>0. /\ db \in Tables /\ start \in Tables /\ now \in Nat /\ figure \in [Figure -> Nat]
      /\ Grows(start, db) /\ Refers(db) /\ Refers(start) /\ Len(Counts) = 9
  BY DEF IInv, TypeOK, ChartsInv, Counts
<1>1. CASE UNCHANGED vars \/ Tick
  <2>1. UNCHANGED <<db, at, now, figure, volume, items, start>>
    BY <1>1 DEF vars, Tick, request
  <2> QED
    BY <2>1 DEF ChartsInv, Answered, DonutTotal
<1>2. CASE StoreEvent
  <2>1. PICK e \in EventKinds : db' = [db EXCEPT !.events = Append(@, e)]
    BY <1>2 DEF StoreEvent
  <2>2. db' = [events |-> Append(db.events, e), alerts |-> db.alerts]
    BY <1>0, <2>1 DEF Tables
  <2>3. db' \in Tables /\ Grows(db, db')
    BY <1>0, <2>2 DEF Tables, Grows
  <2>4. Refers(db')
    BY <1>0, <2>2, <2>3 DEF Refers, Grows
  <2> QED
    BY <1>2, <2>3, <2>4, ChartsStored DEF StoreEvent
<1>3. CASE StoreAlert
  <2>1. PICK k \in AlertKinds :
          db' = [db EXCEPT !.alerts = Append(@, [ev       |-> Len(db.events),
                                                 severity |-> k.severity,
                                                 mitre    |-> k.mitre])]
    BY <1>3 DEF StoreAlert
  <2> DEFINE alert == [ev |-> Len(db.events), severity |-> k.severity, mitre |-> k.mitre]
  <2>2. alert \in Alert /\ alert.ev = Len(db.events)
    BY <1>0, QueriesAssumption DEF Tables, Alert
  <2>3. db' = [events |-> db.events, alerts |-> Append(db.alerts, alert)]
    BY <1>0, <2>1 DEF Tables
  <2> HIDE DEF alert
  <2>4. db' \in Tables /\ Grows(db, db')
    BY <1>0, <2>2, <2>3 DEF Tables, Grows
  <2>5. Len(db.events) \in DOMAIN db.events
    BY <1>0, <1>3 DEF StoreAlert, Tables
  <2>6. Refers(db')
    BY <1>0, <2>2, <2>3, <2>5 DEF Refers, Tables
  <2> QED
    BY <1>3, <2>4, <2>6, ChartsStored DEF StoreAlert
<1>4. CASE Begin
  BY <1>0, <1>4 DEF Begin, ChartsInv, Answered
<1>5. CASE Count
  <2>1. at \in 1..9 /\ at' = at + 1 /\ UNCHANGED <<db, start>>
    BY <1>5 DEF Count, Counts
  <2> QED
    BY <1>0, <2>1 DEF ChartsInv, Answered
<1>6. CASE ReadVolume
  <2>1. at' = 11 /\ volume' = Volume(db, now) /\ UNCHANGED <<db, now, start>>
    BY <1>0, <1>6 DEF ReadVolume
  <2>2. DOMAIN volume' = Cells
    BY <2>1 DEF Volume, Cells
  <2>3. \A cell \in Cells : volume'[cell] = Cardinality(AlertsAt(db, now, cell))
    BY <1>0, <2>1, VolumeCounts
  <2>4. \A cell \in Cells :
          /\ Cardinality(AlertsAt(db, now, cell)) \in Nat
          /\ Cardinality(AlertsAt(start, now, cell)) <= Cardinality(AlertsAt(db, now, cell))
    BY <1>0, AlertsAtGrow
  <2>5. Total(volume', Cells) \in Nat /\ Total(volume', Cells) <= Len(db.alerts)
    BY <1>0, <2>3, ChartTotal
  <2> QED
    BY <1>0, <2>1, <2>2, <2>3, <2>4, <2>5 DEF ChartsInv, Answered
<1>7. CASE ReadBreakdown
  <2>1. /\ at = 11 /\ at' = 12 /\ items' = Breakdown(db)
        /\ UNCHANGED <<db, now, figure, volume, start>>
    BY <1>0, <1>7 DEF ReadBreakdown
  <2>2. DonutTotal' = Len(db.alerts) /\ Len(db.alerts) \in Nat
    BY <1>0, <2>1, DonutCounts, TableRows DEF DonutTotal
  <2>3. figure["openDetections"] <= Len(db.alerts)
    <3>1. "openDetections" \in Counted
      BY <2>1 DEF Counted, Counts
    <3>2. figure["openDetections"] <= Cardinality(Selected("openDetections", db, now))
      BY <3>1 DEF IInv, CountsWithin
    <3>3. Selected("openDetections", db, now) = DOMAIN db.alerts
      BY DEF Selected
    <3> QED
      BY <1>0, <3>2, <3>3, TableRows
  <2> QED
    BY <1>0, <2>1, <2>2, <2>3 DEF ChartsInv, Answered
<1>8. CASE Answer
  <2>1. at' = 0 /\ start' = EmptyDb /\ UNCHANGED db
    BY <1>8 DEF Answer
  <2>2. Refers(EmptyDb)
    BY DEF Refers, EmptyDb
  <2> QED
    BY <1>0, <2>1, <2>2 DEF ChartsInv, Answered
<1> QED
  BY <1>1, <1>2, <1>3, <1>4, <1>5, <1>6, <1>7, <1>8 DEF Next

(* A column of the chart is about the alerts of its own day and severity.  *)
LEMMA ColumnsOfDays ==
  ASSUME NEW d, NEW cell \in Cells
  PROVE  OnDay(d, VolumeDays - cell[1], cell[2]) = AlertsAt(d, now, cell)
<1>1. \A severity : Column(severity) = cell[2]
        <=> \/ severity = cell[2]
            \/ cell[2] = "medlow" /\ severity \notin {"critical", "high"}
  <2>1. cell[2] \in {"critical", "high", "medlow"}
    BY DEF Cells, Columns
  <2> QED
    BY <2>1 DEF Column
<1> QED
  BY <1>1 DEF OnDay, AlertsAt, DayOf

(* Chart, donut and card agree although they are read one after another,   *)
(* whatever other consoles store meanwhile.                                *)
THEOREM ChartsAgreeCorrect == Spec => []ChartsAgree
<1>1. IInv /\ ChartsInv => ChartsAgree
  <2> SUFFICES ASSUME IInv, ChartsInv, Answered PROVE ChartsAgree
    BY DEF ChartsAgree
  <2>1. at > Len(Counts) + 1
    BY DEF Answered, Counts
  <2>2. DOMAIN volume = Cells
    BY <2>1 DEF ChartsInv
  <2> QED
    BY <2>1, <2>2, ColumnsOfDays DEF ChartsInv, ChartsAgree
<1> QED
  BY InitInv, StepInv, ChartsInit, ChartsStep, <1>1, PTL DEF Spec
=============================================================================
