-------------------------- MODULE DashboardProofs ---------------------------
(* Proofs about Dashboard, for any parts, refreshes in flight, events and  *)
(* queries.                                                                *)
EXTENDS Dashboard, TLAPS

LEMMA FoundEvents ==
  ASSUME NEW text, NEW isLive, NEW n \in Database
  PROVE  Found(text, isLive, n) \subseteq Event
  BY DashboardAssumption DEF Found, Database, Event

LEMMA InitInv == Init => IInv
<1> SUFFICES ASSUME Init PROVE IInv
  OBVIOUS
<1>1. FirstStored \in Database
  BY DashboardAssumption DEF Database
<1>2. table \subseteq Event
  BY DashboardAssumption DEF Init, Found, Event
<1>3. TypeOK
  BY <1>1, <1>2 DEF Init, TypeOK, NoReply
<1>4. SampleRowsMarked
  BY DEF Init, SampleRowsMarked
<1> QED
  BY <1>3, <1>4 DEF IInv

(* Every part but the host is replaced by what a refresh brings.           *)
LEMMA AllTaken ==
  ASSUME NEW r \in Refresh
  PROVE  Part \ {Host} \subseteq Taken(r)
  BY DEF Taken

(* Rows of a live part are stored events, so none is the sample's.         *)
LEMMA LiveRows ==
  ASSUME NEW text, NEW n \in Database
  PROVE  0 \notin Found(text, TRUE, n)
  BY DashboardAssumption DEF Found, Database

LEMMA FinishType ==
  ASSUME TypeOK, NEW r \in Refresh, Finish(r),
         shown' \in [Part -> Database], live' \subseteq Part, banner' \in BOOLEAN,
         table' \subseteq Event, detail' \subseteq Event
  PROVE  TypeOK'
<1>1. NoReply \in [Part -> Database]
  BY DashboardAssumption DEF NoReply, Database
<1>2. reply' \in [Refresh -> [Part -> Database]]
  BY <1>1 DEF Finish, TypeOK
<1>3. asked' \in [Refresh -> SUBSET Part] /\ fetching' \in [Refresh -> {"idle", "waiting", "cut"}]
  BY DEF Finish, TypeOK
<1> QED
  BY <1>2, <1>3 DEF Finish, TypeOK, backend

LEMMA StepInv == IInv /\ [Next]_vars => IInv'
<1> SUFFICES ASSUME IInv, [Next]_vars PROVE IInv'
  OBVIOUS
<1> USE DEF IInv
<1>1. CASE UNCHANGED vars
  BY <1>1 DEF vars, backend, fetches, page, hunt, TypeOK, SampleRowsMarked
<1>2. CASE Ingest
  <2>1. stored' \in Database
    BY <1>2, DashboardAssumption DEF Ingest, TypeOK, Database
  <2> QED
    BY <1>2, <2>1 DEF Ingest, fetches, page, hunt, TypeOK, SampleRowsMarked
<1>3. CASE Hang
  BY <1>3 DEF Hang, fetches, page, hunt, TypeOK, SampleRowsMarked
<1>4. CASE GoDown
  <2>1. fetching' \in [Refresh -> {"idle", "waiting", "cut"}]
    <3>1. PICK lost \in SUBSET Refresh :
            fetching' = [r \in Refresh |->
                           IF fetching[r] = "waiting" /\ (asked[r] # {} \/ r \in lost)
                           THEN "cut" ELSE fetching[r]]
      BY <1>4 DEF GoDown
    <3> QED
      BY <3>1 DEF TypeOK
  <2> QED
    BY <1>4, <2>1 DEF GoDown, page, hunt, TypeOK, SampleRowsMarked
<1>5. CASE ComeUp
  BY <1>5 DEF ComeUp, fetches, page, hunt, TypeOK, SampleRowsMarked
<1>6. CASE EditQuery
  BY <1>6 DEF EditQuery, backend, fetches, page, TypeOK, SampleRowsMarked
<1>7. ASSUME NEW text \in Example \cup {box}, RunQuery(text) PROVE IInv'
  <2>1. text \in Text
    BY <1>7, DashboardAssumption DEF TypeOK
  <2>2. shown[Events] \in Database
    BY DashboardAssumption DEF TypeOK
  <2>3. Found(text, Events \in live, shown[Events]) \subseteq Event
    BY <2>2, FoundEvents
  <2>4. table' \subseteq Event
    BY <1>7, <2>3 DEF RunQuery, RenderHunt, TypeOK
  <2>5. TypeOK'
    BY <1>7, <2>1, <2>4 DEF RunQuery, backend, fetches, page, TypeOK
  <2>6. SampleRowsMarked'
    <3>1. UNCHANGED <<settled, banner, live>>
      BY <1>7 DEF RunQuery, page
    <3>2. Events \in live /\ 0 \notin table => 0 \notin table'
      BY <1>7, <2>2, LiveRows DEF RunQuery, RenderHunt
    <3>3. Part \ {Host} \subseteq live => Events \in live
      BY DashboardAssumption
    <3> QED
      BY <3>1, <3>2, <3>3 DEF SampleRowsMarked
  <2> QED
    BY <2>5, <2>6
<1>8. ASSUME NEW e \in Event, ClickRow(e) PROVE IInv'
  BY <1>8 DEF ClickRow, backend, fetches, page, TypeOK, SampleRowsMarked
<1>9. ASSUME NEW r \in Refresh, StartRefresh(r) PROVE IInv'
  BY <1>9 DEF StartRefresh, backend, page, hunt, TypeOK, SampleRowsMarked
<1>10. ASSUME NEW r \in Refresh, NEW p \in Part, Answer(r, p) PROVE IInv'
  <2>1. reply' \in [Refresh -> [Part -> Database]]
    BY <1>10 DEF Answer, TypeOK
  <2>2. asked' \in [Refresh -> SUBSET Part]
    BY <1>10 DEF Answer, TypeOK
  <2> QED
    BY <1>10, <2>1, <2>2 DEF Answer, backend, page, hunt, TypeOK, SampleRowsMarked
<1>11. ASSUME NEW r \in Refresh, Apply(r) PROVE IInv'
  <2>1. reply[r][Events] \in Database
    BY DashboardAssumption DEF TypeOK
  <2> DEFINE rows == Found(box, TRUE, reply[r][Events])
  <2>2. table' = (IF rows \cap Undrawable = {} THEN rows ELSE table)
    BY <1>11 DEF Apply, RenderHunt
  <2>3. banner' = (rows \cap Undrawable # {})
    BY <1>11 DEF Apply
  <2>4. rows \subseteq Event /\ 0 \notin rows
    BY <2>1, FoundEvents, LiveRows
  <2> HIDE DEF rows
  <2>5. live' \subseteq Part /\ Part \ {Host} \subseteq live'
    BY <1>11, AllTaken DEF Apply, Taken, TypeOK
  <2>6. TypeOK'
    <3>1. shown' \in [Part -> Database]
      BY <1>11 DEF Apply, TypeOK
    <3>2. table' \subseteq Event /\ banner' \in BOOLEAN
      BY <2>2, <2>3, <2>4 DEF TypeOK
    <3>3. Finish(r) /\ detail' \subseteq Event
      BY <1>11 DEF Apply, TypeOK
    <3> QED
      BY <2>5, <3>1, <3>2, <3>3, FinishType
  <2>7. SampleRowsMarked'
    BY <2>2, <2>3, <2>4, <2>5 DEF SampleRowsMarked
  <2> QED
    BY <2>6, <2>7
<1>12. ASSUME NEW r \in Refresh, Fail(r) PROVE IInv'
  <2>1. TypeOK'
    <3>1. /\ shown' \in [Part -> Database] /\ live' \subseteq Part /\ banner' \in BOOLEAN
          /\ table' \subseteq Event /\ detail' \subseteq Event /\ Finish(r)
      BY <1>12 DEF Fail, TypeOK
    <3> QED
      BY <3>1, FinishType
  <2> QED
    BY <1>12, <2>1 DEF Fail, Finish, SampleRowsMarked
<1>13. ASSUME NEW r \in Refresh, Refuse(r) PROVE IInv'
  BY <1>13 DEF Refuse, backend, page, hunt, TypeOK, SampleRowsMarked
<1> QED
  BY <1>1, <1>2, <1>3, <1>4, <1>5, <1>6, <1>7, <1>8, <1>9, <1>10, <1>11, <1>12, <1>13
  DEF Next, Operator

(* Every reachable state satisfies the invariant, whatever is stored when  *)
(* the page opens and whichever events name a host.                        *)
THEOREM InvCorrect == Spec => []IInv
  BY InitInv, StepInv, PTL DEF Spec

(* Once a refresh has ended, a page without the banner shows the sample in *)
(* no part but the host and in no row, however many refreshes overlap and  *)
(* whatever is cut, refused or throws.                                     *)
THEOREM SampleRowsMarkedCorrect == Spec => []SampleRowsMarked
<1>1. IInv => SampleRowsMarked
  BY DEF IInv
<1> QED
  BY <1>1, InvCorrect, PTL
=============================================================================
