---------------------------- MODULE IngestProofs -----------------------------
(***************************************************************************)
(* Proofs about Ingest, for any number of events, rules, copies, crashes   *)
(* and failing statements: pushes go on as in Delivery while ticks import  *)
(* the log, and the offset of the copied log never passes a line that no   *)
(* tick has recorded.                                                      *)
(***************************************************************************)
EXTENDS Ingest, FiniteSetTheorems, TLAPS

-----------------------------------------------------------------------------
(* The push path by itself: of any number of events, rules, crashes and    *)
(* faults, an event is stored at most once over HTTP and a 202 stands for  *)
(* an event stored with all its alerts.                                    *)

LEMMA AppendFacts ==
  ASSUME NEW S, NEW s \in Seq(S), NEW x \in S
  PROVE  /\ Append(s, x) \in Seq(S)
         /\ Len(Append(s, x)) = Len(s) + 1
         /\ DOMAIN Append(s, x) = DOMAIN s \cup {Len(s) + 1}
         /\ \A i \in DOMAIN s : Append(s, x)[i] = s[i] /\ i # Len(s) + 1
         /\ Append(s, x)[Len(s) + 1] = x
  OBVIOUS

LEMMA Bounds == MaxEvents \in Nat /\ MaxCrashes \in Nat /\ MaxFaults \in Nat
  BY DeliveryAssumption

LEMMA RowType ==
  ASSUME TypeOK, NEW i \in DOMAIN store
  PROVE  store[i] \in Row /\ store[i].ev \in Event /\ store[i].alerts \in Nat
<1>1. store[i] \in Row
  BY DEF TypeOK
<1> QED
  BY <1>1 DEF Row

LEMMA InitInv == Init => IInv
  BY DeliveryAssumption
  DEF Init, IInv, TypeOK, Row, NoJob, PushedOnce, AcceptedIsComplete, OnePlace, JobInv,
      HasRow, Event

-----------------------------------------------------------------------------
(* The agent's steps only move an event from the thread to the console.    *)
LEMMA AgentInv ==
  ASSUME IInv, Capture \/ AppendLine \/ Resolve \/ Connect \/ Send \/ Receive
  PROVE  IInv'
<1> USE DeliveryAssumption DEF IInv
<1>1. /\ UNCHANGED conVars
      /\ \A e : HasRow(e)' <=> HasRow(e)
      /\ PushedOnce' /\ AcceptedIsComplete' /\ JobInv'
  <2>1. UNCHANGED conVars
    BY DEF Capture, AppendLine, Resolve, GiveUp, Connect, Send, Receive
  <2> QED
    BY <2>1 DEF conVars, HasRow, PushedOnce, AcceptedIsComplete, JobInv
<1>2. CASE Capture
  <2>1. TypeOK'
    BY <1>2 DEF Capture, TypeOK, conVars
  <2>2. \A i \in DOMAIN store : store[i].ev \in Nat /\ store[i].ev # emitted + 1
    <3>1. \A i \in DOMAIN store : store[i].ev \in Event /\ store[i].ev <= emitted
      BY RowType DEF OnePlace
    <3> QED
      BY <3>1, Bounds DEF TypeOK, Event
  <2>3. \A e \in inbox : e \in Nat /\ e # emitted + 1
    BY Bounds DEF OnePlace, TypeOK, Event
  <2>4. OnePlace'
    BY <1>1, <1>2, <2>2, <2>3 DEF Capture, OnePlace, TypeOK, HasRow, conVars
  <2> QED
    BY <1>1, <2>1, <2>4
<1>3. CASE AppendLine
  <2>1. emitted \in Event
    BY <1>3, Bounds DEF AppendLine, OnePlace, TypeOK, Event
  <2>2. logged' \subseteq Event /\ faults' \in 0..MaxFaults /\ pc' \in {"idle", "resolve"}
    <3>1. logged' \subseteq Event
      BY <1>3, <2>1, ZenonT(60) DEF AppendLine, TypeOK
    <3>2. faults' \in 0..MaxFaults
      BY <1>3, Bounds DEF AppendLine, TypeOK
    <3>3. pc' \in {"idle", "resolve"}
      BY <1>3 DEF AppendLine, AfterLog
    <3> QED
      BY <3>1, <3>2, <3>3
  <2>3. TypeOK'
    BY <1>1, <1>3, <2>2 DEF AppendLine, TypeOK, conVars
  <2>4. OnePlace'
    BY <1>1, <1>3 DEF AppendLine, AfterLog, OnePlace, conVars
  <2> QED
    BY <1>1, <2>3, <2>4
<1>4. CASE Resolve \/ Connect \/ Receive
  <2>1. TypeOK'
    BY <1>4 DEF Resolve, Connect, Receive, GiveUp, TypeOK, conVars
  <2>2. OnePlace'
    BY <1>1, <1>4 DEF Resolve, Connect, Receive, GiveUp, OnePlace, conVars
  <2> QED
    BY <1>1, <2>1, <2>2
<1>5. CASE Send
  <2>1. emitted \in Event
    BY <1>5 DEF Send, OnePlace, TypeOK, Event
  <2>2. TypeOK'
    BY <1>5, <2>1 DEF Send, TypeOK, conVars
  <2>3. OnePlace'
    BY <1>1, <1>5, <2>1 DEF Send, OnePlace, TypeOK, Event, conVars
  <2> QED
    BY <1>1, <2>2, <2>3
<1> QED
  BY <1>2, <1>3, <1>4, <1>5

(* Starting, crashing, taking a request and answering leave the rows alone.*)
LEMMA ConsoleInv ==
  ASSUME IInv, ConsoleStart \/ ConsoleCrash \/ Reply \/ \E e \in Event : TakeRequest(e)
  PROVE  IInv'
<1> USE DeliveryAssumption DEF IInv
<1>1. /\ UNCHANGED <<config, emitted, pc, logged, store>>
      /\ \A e : HasRow(e)' <=> HasRow(e)
      /\ PushedOnce'
  <2>1. UNCHANGED <<config, emitted, pc, logged, store>>
    BY DEF ConsoleStart, ConsoleCrash, Reply, TakeRequest, agentVars
  <2> QED
    BY <2>1 DEF HasRow, PushedOnce
<1>2. CASE ConsoleStart
  BY <1>1, <1>2 DEF ConsoleStart, TypeOK, AcceptedIsComplete, OnePlace, JobInv
<1>3. CASE ConsoleCrash
  BY <1>1, <1>3 DEF ConsoleCrash, TypeOK, NoJob, AcceptedIsComplete, OnePlace, JobInv
<1>4. ASSUME NEW e \in Event, TakeRequest(e) PROVE IInv'
  <2>1. /\ job' = [NoJob EXCEPT !.ev = e] \/ job' = [NoJob EXCEPT !.ev = e, !.status = 401]
        /\ job'.ev = e /\ job'.status # 202 /\ e # 0 /\ e \in inbox /\ inbox' = inbox \ {e}
        /\ con' \in {"insert", "reply"}
        /\ accepted' = accepted /\ UNCHANGED <<answers, crashes, faults>>
    <3>1. e # 0
      BY DEF Event
    <3>2. job' = [NoJob EXCEPT !.ev = e] \/ job' = [NoJob EXCEPT !.ev = e, !.status = 401]
      BY <1>4 DEF TakeRequest
    <3>3. job'.ev = e /\ job'.status # 202
      <4>1. CASE job' = [NoJob EXCEPT !.ev = e]
        BY <4>1 DEF NoJob
      <4>2. CASE job' = [NoJob EXCEPT !.ev = e, !.status = 401]
        BY <4>2 DEF NoJob
      <4> QED
        BY <3>2, <4>1, <4>2
    <3> QED
      BY <1>4, <3>1, <3>2, <3>3 DEF TakeRequest
  <2>2. TypeOK'
    <3>1. job' \in [ev : 0..MaxEvents, row : Nat, status : {0, 202, 400, 401}]
      <4>1. e \in 0..MaxEvents
        BY Bounds DEF Event
      <4>2. CASE job' = [NoJob EXCEPT !.ev = e]
        BY <4>1, <4>2 DEF NoJob
      <4>3. CASE job' = [NoJob EXCEPT !.ev = e, !.status = 401]
        BY <4>1, <4>3, ZenonT(60) DEF NoJob
      <4> QED
        BY <2>1, <4>2, <4>3
    <3> QED
      BY <1>1, <2>1, <3>1 DEF TypeOK
  <2>3. OnePlace'
    BY <1>1, <2>1 DEF OnePlace
  <2>4. JobInv'
    BY <1>1, <2>1 DEF OnePlace, JobInv
  <2> QED
    BY <1>1, <2>1, <2>2, <2>3, <2>4 DEF AcceptedIsComplete
<1>5. CASE Reply
  <2>1. job.ev \in Event
    BY <1>5 DEF Reply, TypeOK, JobInv, Event
  <2>2. TypeOK'
    BY <1>1, <1>5, <2>1 DEF Reply, TypeOK, NoJob
  <2>3. AcceptedIsComplete'
    BY <1>1, <1>5 DEF Reply, AcceptedIsComplete, JobInv
  <2>4. OnePlace' /\ JobInv'
    BY <1>1, <1>5, SMTT(30) DEF Reply, OnePlace, JobInv, NoJob, TypeOK
  <2> QED
    BY <1>1, <2>2, <2>3, <2>4
<1> QED
  BY <1>2, <1>3, <1>4, <1>5

(* A new row is the only one of its event.                                 *)
LEMMA InsertEventInv == IInv /\ InsertEvent => IInv'
<1> SUFFICES ASSUME IInv, InsertEvent PROVE IInv'
  OBVIOUS
<1> USE DeliveryAssumption DEF IInv
<1> DEFINE row == [ev |-> job.ev, alerts |-> 0]
<1>1. job.ev \in Event /\ ~ HasRow(job.ev) /\ row \in Row
  BY DEF InsertEvent, JobInv, TypeOK, Event, Row
<1>2. PICK n \in Nat : n = Len(store) + 1
  BY DEF TypeOK
<1>3. /\ store' \in Seq(Row) /\ DOMAIN store' = DOMAIN store \cup {n} /\ store'[n] = row
      /\ \A i \in DOMAIN store : store'[i] = store[i] /\ i # n
  BY <1>1, <1>2, AppendFacts DEF InsertEvent, TypeOK
<1>4. /\ job' = [job EXCEPT !.row = n] /\ con = "insert" /\ con' = "alerts"
      /\ UNCHANGED <<agentVars, inbox, answers, accepted, crashes, faults>>
  BY <1>2 DEF InsertEvent
<1>5. job'.ev = job.ev /\ job'.row = n /\ job' \in [ev : 0..MaxEvents, row : Nat, status : {0, 202, 400, 401}]
  BY <1>4, <1>2, ZenonT(60) DEF TypeOK
<1>6. TypeOK'
  BY <1>3, <1>4, <1>5 DEF TypeOK, agentVars
<1>7. PushedOnce'
  BY <1>1, <1>3 DEF PushedOnce, HasRow
<1>8. AcceptedIsComplete'
  BY <1>3, <1>4 DEF AcceptedIsComplete
<1>9. \A e : HasRow(e)' => HasRow(e) \/ e = job.ev
  BY <1>3 DEF HasRow
<1>10. OnePlace'
  BY <1>3, <1>4, <1>5, <1>9 DEF OnePlace, agentVars
<1>11. JobInv'
  BY <1>1, <1>3, <1>4, <1>5 DEF JobInv, Event
<1> QED
  BY <1>6, <1>7, <1>8, <1>10, <1>11

(* Alerts are added to rows that are not complete yet.                     *)
LEMMA InsertAlertInv == IInv /\ InsertAlert => IInv'
<1> SUFFICES ASSUME IInv, InsertAlert PROVE IInv'
  OBVIOUS
<1> USE DeliveryAssumption DEF IInv
<1> DEFINE r == job.row
           row == [ev |-> store[r].ev, alerts |-> store[r].alerts + 1]
<1>1. /\ r \in DOMAIN store /\ store[r].ev = job.ev /\ store[r] \in Row
      /\ job.ev \in Event /\ store[r].alerts \in Nat
  <2>1. r \in DOMAIN store /\ store[r].ev = job.ev
    BY DEF InsertAlert, JobInv
  <2> QED
    BY <2>1, RowType
<1>2. row \in Row /\ [store[r] EXCEPT !.alerts = @ + 1] = row
  BY <1>1 DEF Row
<1>3. store' = [store EXCEPT ![r] = row]
  BY <1>2 DEF InsertAlert
<1>4. /\ store' \in Seq(Row) /\ DOMAIN store' = DOMAIN store /\ store'[r] = row
      /\ \A i \in DOMAIN store : i # r => store'[i] = store[i]
  BY <1>1, <1>2, <1>3 DEF TypeOK
<1>5. \A i \in DOMAIN store : store'[i].ev = store[i].ev
  BY <1>4
<1>6. /\ UNCHANGED <<agentVars, inbox, answers, con, job, accepted, crashes, faults>>
      /\ con = "alerts" /\ store[r].alerts < Hits[job.ev]
  BY DEF InsertAlert
<1>7. TypeOK'
  BY <1>4, <1>6 DEF TypeOK, agentVars
<1>8. PushedOnce' /\ (\A e : HasRow(e)' <=> HasRow(e))
  BY <1>4, <1>5 DEF PushedOnce, HasRow
<1>9. AcceptedIsComplete'
  <2> SUFFICES ASSUME NEW e \in accepted
               PROVE  \E i \in DOMAIN store : store'[i] = [ev |-> e, alerts |-> Hits[e]]
    BY <1>4, <1>6 DEF AcceptedIsComplete
  <2>1. PICK i \in DOMAIN store : store[i] = [ev |-> e, alerts |-> Hits[e]]
    BY DEF AcceptedIsComplete
  <2>2. store[r].alerts # Hits[job.ev]
    BY <1>1, <1>6 DEF Row
  <2>3. i # r
    BY <1>1, <2>1, <2>2
  <2> QED
    BY <1>4, <2>1, <2>3
<1>10. OnePlace'
  BY <1>4, <1>5, <1>6, <1>8 DEF OnePlace, agentVars
<1>11. JobInv'
  BY <1>1, <1>4, <1>5, <1>6 DEF JobInv
<1> QED
  BY <1>7, <1>8, <1>9, <1>10, <1>11

LEMMA StoredInv == IInv /\ (Stored \/ IngestFails) => IInv'
<1> SUFFICES ASSUME IInv, Stored \/ IngestFails PROVE IInv'
  OBVIOUS
<1> USE DeliveryAssumption DEF IInv
<1>1. /\ UNCHANGED <<agentVars, inbox, answers, store, accepted, crashes>>
      /\ con \in {"insert", "alerts"} /\ con' = "reply"
      /\ faults' \in 0..MaxFaults
      /\ job' = [job EXCEPT !.status = 202] \/ job' = [job EXCEPT !.status = 400]
  BY DEF Stored, IngestFails, TypeOK
<1>2. /\ job'.ev = job.ev /\ job' \in [ev : 0..MaxEvents, row : Nat, status : {0, 202, 400, 401}]
      /\ job.ev # 0
  BY <1>1 DEF TypeOK, JobInv
<1>3. TypeOK' /\ PushedOnce' /\ AcceptedIsComplete' /\ (\A e : HasRow(e)' <=> HasRow(e))
  BY <1>1, <1>2 DEF TypeOK, PushedOnce, AcceptedIsComplete, HasRow, agentVars
<1>4. OnePlace'
  BY <1>1, <1>2, <1>3 DEF OnePlace, agentVars
<1>5. ASSUME job'.status = 202
      PROVE  \E i \in DOMAIN store : store[i] = [ev |-> job.ev, alerts |-> Hits[job.ev]]
  <2>1. Stored
    BY <1>5 DEF IngestFails, TypeOK
  <2>2. /\ job.row \in DOMAIN store /\ store[job.row].ev = job.ev
        /\ store[job.row].alerts = Hits[job.ev] /\ store[job.row] \in Row
    BY <2>1 DEF Stored, JobInv, TypeOK
  <2>3. store[job.row] = [ev |-> job.ev, alerts |-> Hits[job.ev]]
    BY <2>2 DEF Row
  <2> QED
    BY <2>2, <2>3
<1>6. JobInv'
  BY <1>1, <1>2, <1>5 DEF JobInv
<1> QED
  BY <1>3, <1>4, <1>6

LEMMA StepInv == IInv /\ [Next]_vars => IInv'
<1> SUFFICES ASSUME IInv, [Next]_vars PROVE IInv'
  OBVIOUS
<1>1. CASE UNCHANGED vars
  BY <1>1 DEF vars, agentVars, conVars, IInv, TypeOK, PushedOnce, AcceptedIsComplete,
              OnePlace, JobInv, HasRow
<1>2. CASE Next
  BY <1>2, AgentInv, ConsoleInv, InsertEventInv, InsertAlertInv, StoredInv DEF Next, Handler
<1> QED
  BY <1>1, <1>2

(* Every reachable state satisfies the invariant.                          *)
THEOREM InvCorrect == Spec => []IInv
  BY InitInv, StepInv, PTL DEF Spec

(* However requests, answers and crashes interleave, an event pushed over  *)
(* HTTP is stored at most once.                                            *)
THEOREM PushedOnceCorrect == Spec => []PushedOnce
<1>1. IInv => PushedOnce
  BY DEF IInv
<1> QED
  BY <1>1, InvCorrect, PTL

(* An event answered with 202 is stored with all its alerts for good.      *)
THEOREM AcceptedIsCompleteCorrect == Spec => []AcceptedIsComplete
<1>1. IInv => AcceptedIsComplete
  BY DEF IInv
<1> QED
  BY <1>1, InvCorrect, PTL

-----------------------------------------------------------------------------
LEMMA UnloggedFinite ==
  ASSUME TypeOK
  PROVE  IsFiniteSet(Unlogged) /\ Cardinality(Unlogged) \in Nat
<1>1. IsFiniteSet(1..emitted)
  BY FS_Interval, Bounds DEF TypeOK
<1>2. Unlogged \subseteq 1..emitted
  BY DEF Unlogged
<1> QED
  BY <1>1, <1>2, FS_Subset, FS_CardinalityType

LEMMA InitLogged == Init => LoggedInv
<1> SUFFICES ASSUME Init PROVE LoggedInv
  OBVIOUS
<1>1. Unlogged = {}
  BY DEF Init, Unlogged
<1> QED
  BY <1>1, FS_EmptySet DEF Init, LoggedInv

(* Only an append that fails leaves an event unlogged, and pays for it.    *)
LEMMA StepLogged == IInv /\ LoggedInv /\ [Next]_vars => LoggedInv'
<1> SUFFICES ASSUME IInv, LoggedInv, [Next]_vars PROVE LoggedInv'
  OBVIOUS
<1>0. TypeOK /\ faults \in Nat /\ emitted \in Nat /\ logged \subseteq Event
  BY Bounds DEF IInv, TypeOK
<1>1. IsFiniteSet(Unlogged) /\ Cardinality(Unlogged) \in Nat /\ Cardinality(Unlogged) <= faults
  BY <1>0, UnloggedFinite DEF LoggedInv
<1>2. ASSUME Unlogged' \subseteq Unlogged, faults' \in {faults, faults + 1} PROVE LoggedInv'
  <2>1. Cardinality(Unlogged') <= Cardinality(Unlogged) /\ IsFiniteSet(Unlogged')
    BY <1>1, <1>2, FS_Subset
  <2>2. Cardinality(Unlogged') \in Nat
    BY <2>1, FS_CardinalityType
  <2> QED
    BY <1>0, <1>1, <1>2, <2>1, <2>2 DEF LoggedInv
<1>3. CASE Capture
  <2>1. Unlogged' \subseteq Unlogged
    BY <1>0, <1>3 DEF Capture, Unlogged
  <2> QED
    BY <1>2, <1>3, <2>1 DEF Capture
<1>4. CASE AppendLine
  <2>1. CASE logged' = logged \cup {emitted} /\ UNCHANGED faults
    <3>1. Unlogged' \subseteq Unlogged
      BY <1>4, <2>1 DEF AppendLine, Unlogged
    <3> QED
      BY <1>2, <2>1, <3>1
  <2>2. CASE faults' = faults + 1 /\ UNCHANGED logged
    <3>1. Unlogged' \subseteq Unlogged \cup {emitted}
      BY <1>4, <2>2 DEF AppendLine, Unlogged
    <3>2. /\ IsFiniteSet(Unlogged \cup {emitted})
          /\ Cardinality(Unlogged \cup {emitted}) <= Cardinality(Unlogged) + 1
      <4>1. CASE emitted \in Unlogged
        <5>1. Unlogged \cup {emitted} = Unlogged
          BY <4>1
        <5> QED
          BY <1>1, <5>1
      <4>2. CASE emitted \notin Unlogged
        BY <1>1, <4>2, FS_AddElement
      <4> QED
        BY <4>1, <4>2
    <3>3. Cardinality(Unlogged') <= Cardinality(Unlogged \cup {emitted}) /\ IsFiniteSet(Unlogged')
      BY <3>1, <3>2, FS_Subset
    <3>4. Cardinality(Unlogged') \in Nat /\ Cardinality(Unlogged \cup {emitted}) \in Nat
      BY <3>2, <3>3, FS_CardinalityType
    <3> QED
      BY <1>0, <1>1, <2>2, <3>2, <3>3, <3>4 DEF LoggedInv
  <2> QED
    BY <1>4, <2>1, <2>2 DEF AppendLine
<1>5. CASE Resolve \/ Connect \/ Send \/ Receive
  <2>1. /\ pc # "append" /\ pc' # "append" /\ UNCHANGED <<emitted, logged, faults>>
    BY <1>5 DEF Resolve, GiveUp, Connect, Send, Receive
  <2>2. Unlogged' \subseteq Unlogged
    BY <2>1 DEF Unlogged
  <2> QED
    BY <1>2, <2>1, <2>2
<1>6. CASE ConsoleStart \/ ConsoleCrash \/ Handler \/ UNCHANGED vars
  <2>1. UNCHANGED <<pc, emitted, logged>> /\ faults' \in {faults, faults + 1}
    BY <1>6 DEF ConsoleStart, ConsoleCrash, Handler, TakeRequest, InsertEvent, InsertAlert, Stored,
       IngestFails, Reply, vars, agentVars
  <2>2. Unlogged' \subseteq Unlogged
    BY <2>1 DEF Unlogged
  <2> QED
    BY <1>2, <2>1, <2>2
<1> QED
  BY <1>3, <1>4, <1>5, <1>6 DEF Next

(* Whatever a console has received, the agent's log lacks no more of it    *)
(* than there were faults, wherever console and requests crash or get lost.*)
THEOREM LogComesFirstCorrect == Spec => []LogComesFirst
<1>1. IInv /\ LoggedInv => LogComesFirst
  <2> SUFFICES ASSUME IInv, LoggedInv PROVE LogComesFirst
    OBVIOUS
  <2> DEFINE posted == inbox \cup {store[i].ev : i \in DOMAIN store}
  <2>1. \A e \in inbox : e \in 1..emitted /\ ~ (pc = "append" /\ e = emitted)
    BY DEF IInv, OnePlace, TypeOK, Event
  <2>2. \A i \in DOMAIN store :
          store[i].ev \in 1..emitted /\ ~ (pc = "append" /\ store[i].ev = emitted)
    <3>1. \A i \in DOMAIN store : store[i].ev \in Event
      BY RowType DEF IInv, Row
    <3> QED
      BY <3>1 DEF IInv, OnePlace, HasRow, TypeOK, Event
  <2>3. posted \ logged \subseteq Unlogged
    BY <2>1, <2>2 DEF Unlogged
  <2>4. IsFiniteSet(Unlogged) /\ Cardinality(Unlogged) \in Nat /\ Cardinality(Unlogged) <= faults
    BY UnloggedFinite DEF IInv, LoggedInv
  <2>5. Cardinality(posted \ logged) <= Cardinality(Unlogged) /\ IsFiniteSet(posted \ logged)
    BY <2>3, <2>4, FS_Subset
  <2>6. Cardinality(posted \ logged) \in Nat /\ faults \in Nat
    BY <2>5, FS_CardinalityType, Bounds DEF IInv, TypeOK
  <2>7. Cardinality(posted \ logged) <= faults
    <3> HIDE DEF posted
    <3> QED
      BY <2>4, <2>5, <2>6
  <2> QED
    BY <2>7 DEF LogComesFirst
<1> QED
  BY InitInv, StepInv, InitLogged, StepLogged, <1>1, PTL DEF Spec

-----------------------------------------------------------------------------
(* Pushes and ticks over one database.                                     *)

LEMMA StepIsDelivery == [IngestNext]_allVars => [Next]_vars
<1> SUFFICES ASSUME [IngestNext]_allVars PROVE [Next]_vars
  OBVIOUS
<1>1. CASE UNCHANGED allVars
  BY <1>1 DEF allVars
<1>2. CASE AgentStep
  BY <1>2 DEF AgentStep, Next
<1>3. CASE ConsoleStart /\ UNCHANGED ingestVars
  BY <1>3 DEF Next
<1>4. CASE Serve
  BY <1>4 DEF Serve, Next
<1>5. CASE Crash
  BY <1>5 DEF Crash, Next
<1>6. CASE Tick \/ BeginCopy \/ CopyLine
  BY <1>6 DEF Tick, BeginTick, ReadFile, ImportEvent, ImportAlert, ImportFails, SetOffset,
     SetOffsetFails, BeginCopy, CopyLine
<1> QED
  BY <1>1, <1>2, <1>3, <1>4, <1>5, <1>6 DEF IngestNext

(* With ticks and copies between them, requests still follow Delivery:     *)
(* what is proved of it holds of the console as a whole.                   *)
THEOREM ImplementsDelivery == IngestSpec => Spec
<1>1. IngestInit => Init
  BY DEF IngestInit
<1> QED
  BY <1>1, StepIsDelivery, PTL DEF IngestSpec, Spec

-----------------------------------------------------------------------------
LEMMA IngestInitInv == IngestInit => IngestInv
<1> SUFFICES ASSUME IngestInit PROVE IngestInv
  OBVIOUS
<1>1. IInv
  BY InitInv DEF IngestInit
<1>2. IngestTypeOK
  BY Bounds, IngestAssumption DEF IngestInit, IngestTypeOK, NoTick
<1>3. TickInv
  <2>1. offset = 0 /\ tick.pc = "idle" /\ RecordedIn(imported, log, 0)
    BY DEF IngestInit, NoTick, RecordedIn
  <2> QED
    BY <2>1 DEF TickInv, Covered
<1> QED
  BY <1>1, <1>2, <1>3 DEF IngestInv

(* Lines that are recorded stay recorded: the log and the rows only grow.  *)
LEMMA StaysRecorded ==
  ASSUME NEW rows, NEW seq, NEW rows2, NEW seq2, NEW n \in Nat,
         \A k \in 1..n : seq2[k] = seq[k],
         \A i \in DOMAIN rows : i \in DOMAIN rows2 /\ rows2[i] = rows[i],
         RecordedIn(rows, seq, n)
  PROVE  RecordedIn(rows2, seq2, n)
  BY DEF RecordedIn

LEMMA OneMoreRecorded ==
  ASSUME NEW rows, NEW seq, NEW k \in Nat \ {0}, RecordedIn(rows, seq, k - 1),
         NEW i \in DOMAIN rows, rows[i] = [ev |-> seq[k], alerts |-> Hits[seq[k]]]
  PROVE  RecordedIn(rows, seq, k)
<1>1. \A j \in 1..k : j \in 1..k - 1 \/ j = k
  OBVIOUS
<1> QED
  BY <1>1 DEF RecordedIn

(* A step of the agent, of a request or of the operator.                   *)
LEMMA QuietStep ==
  ASSUME IngestTypeOK, TickInv, UNCHANGED tickVars, fails' = fails,
         log' \in Seq(Event), Len(log) <= Len(log'),
         \A k \in 1..Len(log) : log'[k] = log[k],
         target' \in 0..Len(log'), lines' \in 0..target', copies' \in 0..MaxCopies
  PROVE  IngestTypeOK' /\ TickInv'
<1> USE DEF tickVars
<1>1. IngestTypeOK'
  BY DEF IngestTypeOK
<1>2. \A n \in 0..Len(log) : RecordedIn(imported, log, n) => RecordedIn(imported, log', n)
  <2> SUFFICES ASSUME NEW n \in 0..Len(log), RecordedIn(imported, log, n)
               PROVE  RecordedIn(imported, log', n)
    OBVIOUS
  <2>1. n \in Nat /\ \A k \in 1..n : log'[k] = log[k]
    BY DEF IngestTypeOK
  <2> QED
    BY <2>1, StaysRecorded
<1>3. \A n \in 0..Len(log) : n \in 0..Len(log')
  BY DEF IngestTypeOK
<1>4. offset \in 0..Len(log)
  BY DEF IngestTypeOK
<1>5. tick.pc = "alerts" => tick.pos \in 1..Len(log) /\ tick.pos - 1 \in 0..Len(log)
  BY SMTT(30) DEF TickInv, IngestTypeOK
<1>6. TickInv'
  BY <1>2, <1>3, <1>4, <1>5 DEF TickInv, Covered
<1> QED
  BY <1>1, <1>6

LEMMA StepIngestInv == IngestInv /\ [IngestNext]_allVars => IngestInv'
<1> SUFFICES ASSUME IngestInv, [IngestNext]_allVars PROVE IngestInv'
  OBVIOUS
<1> USE Bounds, IngestAssumption DEF IngestInv
<1>0. IInv'
  BY StepIsDelivery, StepInv
<1> SUFFICES IngestTypeOK' /\ TickInv'
  BY <1>0
<1>1. CASE UNCHANGED allVars
  <2>1. UNCHANGED tickVars /\ fails' = fails /\ UNCHANGED fileVars
    BY <1>1 DEF allVars, ingestVars
  <2> QED
    BY <2>1, QuietStep DEF fileVars, IngestTypeOK
<1>2. CASE AgentStep
  <2>1. emitted \in Nat /\ (logged' # logged => emitted \in Event)
    BY <1>2 DEF AgentStep, IInv, TypeOK, OnePlace, Event, Capture, AppendLine, Resolve, GiveUp,
       Connect, Send, Receive
  <2>2. /\ log' \in Seq(Event) /\ Len(log) <= Len(log')
        /\ \A k \in 1..Len(log) : log'[k] = log[k]
    <3>1. CASE logged' = logged
      BY <1>2, <3>1 DEF AgentStep, IngestTypeOK
    <3>2. CASE logged' # logged
      <4>1. log' = Append(log, emitted) /\ emitted \in Event /\ log \in Seq(Event)
        BY <1>2, <2>1, <3>2 DEF AgentStep, IngestTypeOK
      <4> QED
        BY <4>1
    <3> QED
      BY <3>1, <3>2
  <2>3. UNCHANGED tickVars /\ fails' = fails /\ UNCHANGED <<target, lines, copies>>
    BY <1>2 DEF AgentStep
  <2>4. target' \in 0..Len(log') /\ lines' \in 0..target' /\ copies' \in 0..MaxCopies
    BY <2>2, <2>3 DEF IngestTypeOK
  <2> QED
    BY <2>2, <2>3, <2>4, QuietStep
<1>3. CASE Serve \/ (ConsoleStart /\ UNCHANGED ingestVars)
  <2>1. UNCHANGED ingestVars
    BY <1>3 DEF Serve
  <2> QED
    BY <2>1, QuietStep DEF ingestVars, fileVars, IngestTypeOK
<1>4. CASE Crash
  <2>1. tick' = NoTick /\ UNCHANGED <<fileVars, offset, imported, fails>>
    BY <1>4 DEF Crash
  <2>2. IngestTypeOK'
    BY <2>1 DEF IngestTypeOK, NoTick, fileVars
  <2> QED
    BY <2>1, <2>2 DEF TickInv, NoTick, fileVars, Covered
<1>5. CASE BeginCopy
  <2>1. /\ UNCHANGED tickVars /\ fails' = fails /\ log' = log
        /\ target' = Len(log) /\ lines' = 0 /\ copies' = copies + 1 /\ copies < MaxCopies
    BY <1>5 DEF BeginCopy
  <2>2. log \in Seq(Event) /\ copies' \in 0..MaxCopies
    BY <2>1 DEF IngestTypeOK
  <2> QED
    BY <2>1, <2>2, QuietStep
<1>6. CASE CopyLine
  <2>1. /\ UNCHANGED tickVars /\ fails' = fails /\ UNCHANGED <<log, target, copies>>
        /\ lines' = lines + 1 /\ lines < target
    BY <1>6 DEF CopyLine
  <2> QED
    BY <2>1, QuietStep DEF IngestTypeOK
<1>7. CASE BeginTick
  <2>1. /\ tick' = [NoTick EXCEPT !.pc = "read", !.base = StartsAt, !.size = lines]
        /\ UNCHANGED <<fileVars, offset, imported, fails>>
    BY <1>7 DEF BeginTick
  <2>2. StartsAt \in 0..Len(log) /\ lines \in 0..Len(log) /\ (StartsAt = 0 \/ StartsAt = offset)
    BY DEF StartsAt, IngestTypeOK
  <2>3. tick'.pc = "read" /\ tick'.base = StartsAt /\ tick'.size = lines
    BY <2>1 DEF NoTick
  <2>4. IngestTypeOK'
    <3>1. StartsAt \in Nat /\ lines \in Nat
      BY <2>2 DEF IngestTypeOK
    <3> HIDE DEF StartsAt
    <3>2. tick' \in [pc : {"idle", "read", "lines", "alerts"},
                     base : Nat, size : Nat, pos : Nat, end : Nat]
      BY <2>1, <3>1 DEF NoTick
    <3> QED
      BY <2>1, <3>2 DEF IngestTypeOK, fileVars
  <2>5. RecordedIn(imported, log, 0)
    BY DEF RecordedIn
  <2>6. TickInv'
    BY <2>1, <2>2, <2>3, <2>5 DEF TickInv, Covered, fileVars
  <2> QED
    BY <2>4, <2>6
<1>8. CASE ReadFile
  <2> DEFINE end == IF lines < tick.size THEN lines ELSE tick.size
  <2>1. /\ tick' = [tick EXCEPT !.pc = "lines", !.pos = tick.base, !.end = end]
        /\ UNCHANGED <<fileVars, offset, imported, fails>> /\ tick.pc = "read"
    BY <1>8 DEF ReadFile
  <2>2. tick.base \in 0..Len(log) /\ tick.size \in 0..Len(log) /\ lines \in 0..Len(log)
    BY <2>1 DEF TickInv, IngestTypeOK
  <2>a. end \in 0..Len(log) /\ end \in Nat /\ tick.base \in Nat
    BY <2>2 DEF IngestTypeOK
  <2> HIDE DEF end
  <2>b. tick' \in [pc : {"idle", "read", "lines", "alerts"},
                   base : Nat, size : Nat, pos : Nat, end : Nat]
    BY <2>1, <2>a DEF IngestTypeOK
  <2>3. IngestTypeOK'
    BY <2>1, <2>b DEF IngestTypeOK, fileVars
  <2>4. tick'.pc = "lines" /\ tick'.pos = tick.base /\ tick'.end \in 0..Len(log)
    BY <2>1, <2>a DEF IngestTypeOK
  <2>5. TickInv'
    BY <2>1, <2>2, <2>4 DEF TickInv, fileVars, Covered
  <2> QED
    BY <2>3, <2>5
<1>9. CASE ImportEvent
  <2> DEFINE k == tick.pos + 1
  <2>1. /\ imported' = Append(imported, [ev |-> log[k], alerts |-> 0])
        /\ tick' = [tick EXCEPT !.pc = IF Hits[log[k]] = 0 THEN "lines" ELSE "alerts",
                                !.pos = @ + 1]
        /\ UNCHANGED <<fileVars, offset, fails>> /\ tick.pc = "lines" /\ tick.pos < tick.end
    BY <1>9 DEF ImportEvent, LinesLeft
  <2>a. tick.pos \in 0..Len(log) /\ tick.end \in 0..Len(log)
    BY <2>1 DEF TickInv
  <2>b. log \in Seq(Event)
    BY DEF IngestTypeOK
  <2>2. k \in 1..Len(log) /\ tick.pos \in 0..Len(log) /\ tick.end \in 0..Len(log)
    BY <2>1, <2>a, <2>b
  <2>3. log[k] \in Event /\ Hits[log[k]] \in Nat
    BY <2>2, DeliveryAssumption DEF IngestTypeOK
  <2>4. [ev |-> log[k], alerts |-> 0] \in Row /\ imported \in Seq(Row)
    BY <2>3 DEF Row, IngestTypeOK
  <2>5. /\ imported' \in Seq(Row) /\ Len(imported') = Len(imported) + 1
        /\ imported'[Len(imported')] = [ev |-> log[k], alerts |-> 0]
        /\ \A i \in DOMAIN imported : i \in DOMAIN imported' /\ imported'[i] = imported[i]
        /\ Len(imported') \in DOMAIN imported'
    BY <2>1, <2>4, AppendFacts
  <2>6. /\ tick'.pc = (IF Hits[log[k]] = 0 THEN "lines" ELSE "alerts") /\ tick'.pos = k
        /\ tick'.end = tick.end /\ tick'.pos - 1 = tick.pos
        /\ tick' \in [pc : {"idle", "read", "lines", "alerts"},
                      base : Nat, size : Nat, pos : Nat, end : Nat]
    <3> DEFINE pcNext == IF Hits[log[k]] = 0 THEN "lines" ELSE "alerts"
    <3>1. k \in Nat /\ k - 1 = tick.pos /\ pcNext \in {"idle", "read", "lines", "alerts"}
      BY <2>2, <2>b
    <3>2. tick' = [tick EXCEPT !.pc = pcNext, !.pos = k]
      BY <2>1
    <3>3. tick \in [pc : {"idle", "read", "lines", "alerts"},
                    base : Nat, size : Nat, pos : Nat, end : Nat]
      BY DEF IngestTypeOK
    <3> HIDE DEF k, pcNext
    <3>4. tick'.pc = pcNext /\ tick'.pos = k /\ tick'.end = tick.end
      BY <3>2, <3>3
    <3>5. tick' \in [pc : {"idle", "read", "lines", "alerts"},
                     base : Nat, size : Nat, pos : Nat, end : Nat]
      BY <3>1, <3>2, <3>3
    <3> QED
      BY <3>1, <3>4, <3>5 DEF pcNext
  <2>7. IngestTypeOK'
    BY <2>1, <2>5, <2>6 DEF IngestTypeOK, fileVars
  <2> HIDE DEF k
  <2>8. /\ RecordedIn(imported, log, offset) => RecordedIn(imported', log, offset)
        /\ RecordedIn(imported, log, tick.pos) => RecordedIn(imported', log, tick.pos)
    <3>1. offset \in Nat /\ tick.pos \in Nat
      BY <2>2 DEF IngestTypeOK
    <3> QED
      BY <2>5, <3>1, StaysRecorded
  <2>9. RecordedIn(imported', log, tick.pos) /\ Hits[log[k]] = 0 => RecordedIn(imported', log, k)
    <3>1. k \in Nat \ {0} /\ k - 1 = tick.pos
      BY <2>2 DEF k
    <3> QED
      BY <2>5, <3>1, OneMoreRecorded
  <2>10. fails = 0 => RecordedIn(imported, log, offset) /\ RecordedIn(imported, log, tick.pos)
    BY <2>1 DEF TickInv, Covered
  <2>11. imported' # << >> /\ (0 < Hits[log[k]] \/ Hits[log[k]] = 0)
    BY <2>3, <2>5
  <2>12. TickInv'
    <3>1. /\ log' = log /\ offset' = offset /\ fails' = fails
          /\ tick'.pc # "read" /\ tick'.pos \in 0..Len(log) /\ tick'.end \in 0..Len(log)
      BY <2>1, <2>2, <2>6 DEF fileVars
    <3>2. tick'.pc = "alerts" =>
            /\ tick'.pos > 0 /\ imported' # << >> /\ imported'[Len(imported')].ev = log[tick'.pos]
            /\ imported'[Len(imported')].alerts < Hits[log[tick'.pos]]
      BY <2>2, <2>5, <2>6, <2>11
    <3>3. fails = 0 =>
            /\ RecordedIn(imported', log, offset)
            /\ tick'.pc = "lines" => RecordedIn(imported', log, tick'.pos)
            /\ tick'.pc = "alerts" => RecordedIn(imported', log, tick'.pos - 1)
      BY <2>6, <2>8, <2>9, <2>10
    <3> QED
      BY <3>1, <3>2, <3>3 DEF TickInv, Covered
  <2> QED
    BY <2>7, <2>12
<1>10. CASE ImportAlert
  <2> DEFINE r == Len(imported)
             a == imported[r].alerts + 1
             e == imported[r].ev
  <2>1. /\ imported' = [imported EXCEPT ![r].alerts = a]
        /\ tick' = [tick EXCEPT !.pc = IF a = Hits[e] THEN "lines" ELSE "alerts"]
        /\ UNCHANGED <<fileVars, offset, fails>> /\ tick.pc = "alerts"
    BY <1>10 DEF ImportAlert
  <2>2. /\ imported \in Seq(Row) /\ imported # << >> /\ e = log[tick.pos]
        /\ imported[r].alerts < Hits[e] /\ tick.pos \in 1..Len(log) /\ tick.end \in 0..Len(log)
    BY <2>1, SMTT(30) DEF TickInv, IngestTypeOK
  <2>3. r \in DOMAIN imported /\ imported[r] \in Row
    BY <2>2
  <2>4. a \in Nat /\ e \in Event /\ Hits[e] \in Nat /\ a <= Hits[e]
    BY <2>2, <2>3, DeliveryAssumption DEF Row
  <2>5. [imported[r] EXCEPT !.alerts = a] = [ev |-> e, alerts |-> a]
    BY <2>3 DEF Row
  <2>6. /\ imported' \in Seq(Row) /\ Len(imported') = r /\ DOMAIN imported' = DOMAIN imported
        /\ imported'[r] = [ev |-> e, alerts |-> a]
        /\ \A i \in DOMAIN imported : i # r => imported'[i] = imported[i]
    <3>1. [ev |-> e, alerts |-> a] \in Row
      BY <2>4 DEF Row
    <3>2. imported' = [imported EXCEPT ![r] = [ev |-> e, alerts |-> a]]
      BY <2>1, <2>5
    <3> QED
      BY <2>2, <2>3, <3>1, <3>2
  <2>7. /\ tick'.pc = (IF a = Hits[e] THEN "lines" ELSE "alerts") /\ tick'.pos = tick.pos
        /\ tick'.end = tick.end
        /\ tick' \in [pc : {"idle", "read", "lines", "alerts"},
                      base : Nat, size : Nat, pos : Nat, end : Nat]
    BY <2>1 DEF IngestTypeOK
  <2>8. IngestTypeOK'
    BY <2>1, <2>6, <2>7 DEF IngestTypeOK, fileVars
  <2>9. imported[r] = [ev |-> e, alerts |-> a - 1] /\ a - 1 < Hits[e]
    BY <2>2, <2>3, <2>4 DEF Row
  <2> HIDE DEF a, e, r
  <2>10. \A n \in Nat : RecordedIn(imported, log, n) => RecordedIn(imported', log, n)
    <3> SUFFICES ASSUME NEW n \in Nat, RecordedIn(imported, log, n), NEW j \in 1..n
                 PROVE  \E i \in DOMAIN imported' :
                          imported'[i] = [ev |-> log[j], alerts |-> Hits[log[j]]]
      BY DEF RecordedIn
    <3>1. PICK i \in DOMAIN imported : imported[i] = [ev |-> log[j], alerts |-> Hits[log[j]]]
      BY DEF RecordedIn
    <3>2. i # r
      BY <2>9, <3>1, <2>4
    <3> QED
      BY <2>6, <3>1, <3>2
  <2>11. RecordedIn(imported', log, tick.pos - 1) /\ a = Hits[e] =>
           RecordedIn(imported', log, tick.pos)
    <3>1. tick.pos \in Nat \ {0}
      BY <2>2
    <3> QED
      BY <2>2, <2>3, <2>6, <3>1, OneMoreRecorded
  <2>12. fails = 0 => RecordedIn(imported', log, offset) /\ RecordedIn(imported', log, tick.pos - 1)
    <3>1. offset \in Nat /\ tick.pos - 1 \in Nat
      BY <2>2 DEF IngestTypeOK
    <3> QED
      BY <2>1, <2>10, <3>1 DEF TickInv, Covered
  <2>13. TickInv'
    <3>1. /\ log' = log /\ offset' = offset /\ fails' = fails
          /\ tick'.pc # "read" /\ tick'.pos \in 0..Len(log) /\ tick'.end \in 0..Len(log)
          /\ tick'.pos > 0
      BY <2>1, <2>2, <2>7 DEF fileVars
    <3>2. tick'.pc = "alerts" =>
            /\ imported' # << >> /\ imported'[Len(imported')].ev = log[tick'.pos]
            /\ imported'[Len(imported')].alerts < Hits[log[tick'.pos]]
      BY <2>2, <2>3, <2>4, <2>6, <2>7
    <3>3. fails = 0 =>
            /\ RecordedIn(imported', log, offset)
            /\ tick'.pc = "lines" => RecordedIn(imported', log, tick'.pos)
            /\ tick'.pc = "alerts" => RecordedIn(imported', log, tick'.pos - 1)
      BY <2>7, <2>11, <2>12
    <3> QED
      BY <3>1, <3>2, <3>3 DEF TickInv, Covered
  <2> QED
    BY <2>8, <2>13
<1>11. CASE ImportFails
  <2> DEFINE pos == IF LinesLeft THEN tick.pos + 1 ELSE tick.pos
  <2>1. /\ fails' = fails + 1 /\ fails < MaxFaults /\ UNCHANGED <<fileVars, offset, imported>>
        /\ tick' = [tick EXCEPT !.pc = "lines", !.pos = pos]
        /\ (LinesLeft \/ tick.pc = "alerts")
    BY <1>11 DEF ImportFails
  <2>2. /\ tick.pos \in 0..Len(log) /\ tick.end \in 0..Len(log)
        /\ pos \in 0..Len(log) /\ pos \in Nat
    BY <2>1, SMTT(30) DEF TickInv, LinesLeft, IngestTypeOK
  <2>3. fails' \in 0..MaxFaults /\ fails' # 0
    BY <2>1 DEF IngestTypeOK
  <2> HIDE DEF pos
  <2>4. /\ tick'.pc = "lines" /\ tick'.pos \in 0..Len(log) /\ tick'.end \in 0..Len(log)
        /\ tick' \in [pc : {"idle", "read", "lines", "alerts"},
                      base : Nat, size : Nat, pos : Nat, end : Nat]
    BY <2>1, <2>2 DEF IngestTypeOK
  <2>5. IngestTypeOK'
    BY <2>1, <2>3, <2>4 DEF IngestTypeOK, fileVars
  <2>6. TickInv'
    BY <2>1, <2>3, <2>4 DEF TickInv, fileVars
  <2> QED
    BY <2>5, <2>6
<1>12. CASE SetOffset
  <2>1. /\ offset' = tick.pos /\ tick' = NoTick /\ UNCHANGED <<fileVars, imported, fails>>
        /\ tick.pc = "lines"
    BY <1>12 DEF SetOffset, TickEnds
  <2>2. tick.pos \in 0..Len(log)
    BY <2>1 DEF TickInv
  <2>3. IngestTypeOK'
    BY <2>1, <2>2 DEF IngestTypeOK, NoTick, fileVars
  <2>4. TickInv'
    BY <2>1 DEF TickInv, Covered, NoTick, fileVars
  <2> QED
    BY <2>3, <2>4
<1>13. CASE SetOffsetFails
  <2>1. /\ tick' = NoTick /\ fails' = fails + 1 /\ fails < MaxFaults
        /\ UNCHANGED <<fileVars, offset, imported>>
    BY <1>13 DEF SetOffsetFails
  <2>2. fails' \in 0..MaxFaults /\ fails' # 0
    BY <2>1 DEF IngestTypeOK
  <2>3. IngestTypeOK' /\ TickInv'
    BY <2>1, <2>2 DEF IngestTypeOK, TickInv, NoTick, fileVars
  <2> QED
    BY <2>3
<1> QED
  BY <1>1, <1>2, <1>3, <1>4, <1>5, <1>6, <1>7, <1>8, <1>9, <1>10, <1>11, <1>12, <1>13
  DEF IngestNext, Tick

(* However copies, ticks, requests, crashes and failures interleave, the   *)
(* invariant holds: as long as no statement of a tick fails, every line    *)
(* before the stored offset is recorded with all its alerts.               *)
THEOREM IngestInvCorrect == IngestSpec => []IngestInv
  BY IngestInitInv, StepIngestInv, PTL DEF IngestSpec

(* The ticks never make a request store its event twice or answer too      *)
(* early.                                                                  *)
THEOREM PushedOnceStill == IngestSpec => []PushedOnce
  BY ImplementsDelivery, PushedOnceCorrect, PTL

THEOREM AcceptedIsCompleteStill == IngestSpec => []AcceptedIsComplete
  BY ImplementsDelivery, AcceptedIsCompleteCorrect, PTL

(* ... nor a console know an event that the log does not have.             *)
THEOREM LogComesFirstStill == IngestSpec => []LogComesFirst
  BY ImplementsDelivery, LogComesFirstCorrect, PTL

-----------------------------------------------------------------------------
(* How often ticks store an event.                                         *)

Times(e) == Cardinality(RowsOf(imported, e))

(* What has happened that may let a line be read once more.                *)
Budget == copies + crashes + fails

(* How far the console has come in the copy, with its tick.                *)
Place ==
  CASE tick.pc = "idle" -> offset
    [] tick.pc = "read" -> tick.base
    [] OTHER            -> tick.pos

Passed(e) == \E k \in 1..Place : log[k] = e

(* The console reads on in a file that it fits into: what it has yet to    *)
(* come to may be stored once more ...                                     *)
ReadsOn ==
  /\ Place <= lines /\ (tick.pc \in {"lines", "alerts"} => tick.end <= lines)
  /\ \A e \in Event : Times(e) <= Budget /\ (Times(e) < Budget \/ Passed(e))

(* ... or the file was emptied under it, or the tick was lost: everything  *)
(* may be stored once more, also after what the tick still does.           *)
StartsOver ==
  \A e \in Event :
    Times(e) < Budget /\ (tick.pc = "idle" \/ Times(e) + 1 < Budget \/ Passed(e))

(* The log has every event on one line.                                    *)
LogOnce ==
  /\ \A k \in DOMAIN log : log[k] \in logged
  /\ \A j, k \in DOMAIN log : log[j] = log[k] => j = k

RowsInv ==
  /\ LogOnce
  /\ copies = 0 => imported = << >> /\ tick = NoTick /\ target = 0 /\ lines = 0 /\ offset = 0
  /\ copies > 0 => ReadsOn \/ StartsOver

LEMMA TimesType ==
  ASSUME NEW rows \in Seq(Row), NEW e
  PROVE  IsFiniteSet(RowsOf(rows, e)) /\ Cardinality(RowsOf(rows, e)) \in Nat
<1>1. RowsOf(rows, e) \subseteq 1..Len(rows)
  BY DEF RowsOf
<1>2. IsFiniteSet(1..Len(rows))
  BY FS_Interval
<1> QED
  BY <1>1, <1>2, FS_Subset, FS_CardinalityType

LEMMA TimesAppend ==
  ASSUME NEW rows \in Seq(Row), NEW x \in Row, NEW e
  PROVE  Cardinality(RowsOf(Append(rows, x), e))
           = IF x.ev = e THEN Cardinality(RowsOf(rows, e)) + 1 ELSE Cardinality(RowsOf(rows, e))
<1>1. /\ DOMAIN Append(rows, x) = DOMAIN rows \cup {Len(rows) + 1}
      /\ \A i \in DOMAIN rows : Append(rows, x)[i] = rows[i] /\ i # Len(rows) + 1
      /\ Append(rows, x)[Len(rows) + 1] = x
  BY AppendFacts
<1>2. CASE x.ev = e
  <2>1. RowsOf(Append(rows, x), e) = RowsOf(rows, e) \cup {Len(rows) + 1}
    BY <1>1, <1>2 DEF RowsOf
  <2>2. Len(rows) + 1 \notin RowsOf(rows, e)
    BY <1>1 DEF RowsOf
  <2> QED
    BY <1>2, <2>1, <2>2, TimesType, FS_AddElement, ZenonT(60)
<1>3. CASE x.ev # e
  <2>1. RowsOf(Append(rows, x), e) = RowsOf(rows, e)
    BY <1>1, <1>3 DEF RowsOf
  <2> QED
    BY <1>3, <2>1
<1> QED
  BY <1>2, <1>3

LEMMA RowsTypes ==
  ASSUME IngestInv
  PROVE  /\ copies \in Nat /\ crashes \in Nat /\ fails \in Nat /\ Budget \in Nat
         /\ Place \in 0..Len(log) /\ lines \in Nat /\ Len(log) \in Nat /\ offset \in Nat
         /\ \A e : Times(e) \in Nat
<1>1. /\ copies \in Nat /\ crashes \in Nat /\ fails \in Nat /\ lines \in Nat /\ Len(log) \in Nat
      /\ offset \in Nat
  BY Bounds, IngestAssumption DEF IngestInv, IngestTypeOK, IInv, TypeOK
<1>2. \A e : Times(e) \in Nat
  BY TimesType DEF Times, IngestInv, IngestTypeOK
<1>3. Place \in 0..Len(log)
  BY DEF IngestInv, IngestTypeOK, TickInv, Place
<1>4. Budget \in Nat
  BY <1>1 DEF Budget
<1> QED
  BY <1>1, <1>2, <1>3, <1>4

(* An event that has not been logged has no line.                          *)
LEMMA LogOnceStep ==
  ASSUME IngestInv, LogOnce, [IngestNext]_allVars
  PROVE  LogOnce'
<1>1. CASE AgentStep
  <2>1. logged' = logged \/ logged' = logged \cup {emitted}
    BY <1>1 DEF AgentStep, Capture, AppendLine, Resolve, GiveUp, Connect, Send, Receive
  <2>2. CASE logged' = logged
    BY <1>1, <2>2 DEF AgentStep, LogOnce
  <2>3. CASE logged' # logged
    <3>1. emitted \in Event
      BY <1>1, <2>3, Bounds DEF AgentStep, IngestInv, IInv, TypeOK, OnePlace, Event, Capture,
         AppendLine, Resolve, GiveUp, Connect, Send, Receive
    <3>2. log' = Append(log, emitted) /\ log \in Seq(Event) /\ emitted \notin logged
      BY <1>1, <2>1, <2>3 DEF AgentStep, IngestInv, IngestTypeOK
    <3>3. /\ DOMAIN log' = DOMAIN log \cup {Len(log) + 1}
          /\ \A k \in DOMAIN log : log'[k] = log[k] /\ k # Len(log) + 1
          /\ log'[Len(log) + 1] = emitted
      BY <3>1, <3>2, AppendFacts
    <3> QED
      BY <2>1, <2>3, <3>2, <3>3 DEF LogOnce
  <2> QED
    BY <2>2, <2>3
<1>2. ASSUME UNCHANGED <<log, logged>> PROVE LogOnce'
  BY <1>2 DEF LogOnce
<1>3. CASE UNCHANGED allVars \/ (ConsoleStart /\ UNCHANGED ingestVars)
  BY <1>2, <1>3 DEF allVars, vars, agentVars, ingestVars, fileVars, ConsoleStart
<1>4. CASE Serve
  BY <1>2, <1>4 DEF Serve, Handler, InsertEvent, InsertAlert, Stored, IngestFails, Reply,
     TakeRequest, agentVars, ingestVars, fileVars
<1>5. CASE Crash
  BY <1>2, <1>5 DEF Crash, ConsoleCrash, agentVars, fileVars
<1>6. CASE Tick \/ BeginCopy \/ CopyLine
  BY <1>2, <1>6 DEF Tick, BeginTick, ReadFile, ImportEvent, ImportAlert, ImportFails, SetOffset,
     SetOffsetFails, BeginCopy, CopyLine, vars, agentVars, fileVars
<1> QED
  BY <1>1, <1>3, <1>4, <1>5, <1>6 DEF IngestNext

(* Before the first copy there is nothing to read.                         *)
LEMMA NoCopyStep ==
  ASSUME IngestInv, RowsInv, [IngestNext]_allVars, copies = 0
  PROVE  \/ copies' # 0
         \/ imported' = << >> /\ tick' = NoTick /\ target' = 0 /\ lines' = 0 /\ offset' = 0
<1>1. imported = << >> /\ tick = NoTick /\ target = 0 /\ lines = 0 /\ offset = 0
  BY DEF RowsInv
<1>2. tick.pc = "idle"
  BY <1>1 DEF NoTick
<1>3. ~ Tick
  BY <1>1, <1>2 DEF Tick, BeginTick, StartsAt, ReadFile, ImportEvent, LinesLeft, ImportAlert,
     ImportFails, SetOffset, SetOffsetFails, TickEnds
<1>4. CASE BeginCopy
  BY <1>4 DEF BeginCopy
<1>5. CASE AgentStep \/ CopyLine
  BY <1>1, <1>5 DEF AgentStep, CopyLine, tickVars
<1>6. CASE Serve \/ (ConsoleStart /\ UNCHANGED ingestVars) \/ UNCHANGED allVars
  BY <1>1, <1>6 DEF Serve, allVars, ingestVars, fileVars, tickVars
<1>7. CASE Crash
  BY <1>1, <1>7 DEF Crash, fileVars
<1> QED
  BY <1>3, <1>4, <1>5, <1>6, <1>7 DEF IngestNext

(* A step of the agent, of a request or of the operator who goes on        *)
(* copying, during which the console gets no further.                      *)
LEMMA QuietRows ==
  ASSUME IngestInv, ReadsOn \/ StartsOver, UNCHANGED <<tickVars, fails, copies, crashes>>,
         lines' \in Nat, lines <= lines', \A k \in 1..Len(log) : log'[k] = log[k]
  PROVE  ReadsOn' \/ StartsOver'
<1>1. UNCHANGED <<offset, tick, imported>>
  BY DEF tickVars
<1>2. Budget' = Budget /\ Place' = Place /\ \A e : Times(e)' = Times(e)
  BY <1>1 DEF Budget, Place, Times, RowsOf
<1>3. \A e : Passed(e) => Passed(e)'
  <2>1. Place \in 0..Len(log) /\ Len(log) \in Nat
    BY RowsTypes
  <2>2. \A k \in 1..Place : k \in 1..Len(log)
    BY <2>1
  <2> QED
    BY <1>2, <2>2 DEF Passed
<1>4. ReadsOn => Place <= lines' /\ (tick.pc \in {"lines", "alerts"} => tick.end <= lines')
  <2>1. lines \in Nat /\ Place \in Nat
    BY RowsTypes
  <2>2. tick.pc \in {"lines", "alerts"} => tick.end \in Nat
    BY DEF IngestInv, IngestTypeOK
  <2> QED
    BY <2>1, <2>2 DEF ReadsOn
<1> QED
  BY <1>1, <1>2, <1>3, <1>4 DEF ReadsOn, StartsOver

(* Nothing is imported, and whatever may be stored once more has become    *)
(* one more to spare.                                                      *)
LEMMA StartsOverStep ==
  ASSUME IngestInv, copies > 0 => ReadsOn \/ StartsOver, copies = 0 => imported = << >>,
         Budget' = Budget + 1, imported' = imported, copies = 0 => tick'.pc = "idle",
         tick'.pc = "idle" \/ (tick' = tick /\ log' = log)
  PROVE  StartsOver'
<1>1. \A e : Times(e) \in Nat /\ Times(e)' = Times(e)
  BY RowsTypes DEF Times, RowsOf
<1>2. Budget \in Nat /\ copies \in Nat
  BY RowsTypes
<1>3. \A e \in Event : Times(e) <= Budget
  <2>1. CASE copies > 0
    BY <1>1, <1>2, <2>1 DEF ReadsOn, StartsOver
  <2>2. CASE copies = 0
    <3>1. \A e : Times(e) = 0
      BY <2>2, FS_EmptySet DEF Times, RowsOf
    <3> QED
      BY <1>2, <3>1
  <2> QED
    BY <1>2, <2>1, <2>2
<1>4. CASE tick'.pc = "idle"
  BY <1>1, <1>2, <1>3, <1>4 DEF StartsOver
<1>5. CASE tick'.pc # "idle"
  <2>1. copies > 0 /\ tick' = tick /\ log' = log
    BY <1>2, <1>5
  <2>2. \A e : Passed(e)' <=> Passed(e)
    BY <1>5, <2>1 DEF Passed, Place
  <2>3. \A e \in Event : Times(e) < Budget \/ Passed(e)
    BY <1>1, <1>2, <2>1 DEF ReadsOn, StartsOver
  <2>4. ASSUME NEW e \in Event
        PROVE  Times(e)' < Budget' /\ (Times(e)' + 1 < Budget' \/ Passed(e)')
    BY <1>1, <1>2, <1>3, <2>2, <2>3
  <2> QED
    BY <2>4 DEF StartsOver
<1> QED
  BY <1>4, <1>5

(* A step of a tick that stores no event, and leaves its place or moves it *)
(* on inside of what the tick has read.                                    *)
LEMMA TickGoesOn ==
  ASSUME IngestInv, ReadsOn \/ StartsOver, UNCHANGED <<log, lines, copies, crashes>>,
         \A e : Times(e)' = Times(e), fails' \in Nat, fails <= fails',
         Place' \in Nat, Place <= Place', ReadsOn => Place' <= lines,
         ReadsOn /\ tick'.pc \in {"lines", "alerts"} => tick'.end <= lines,
         tick.pc # "idle"
  PROVE  ReadsOn' \/ StartsOver'
<1>1. Budget \in Nat /\ Budget' \in Nat /\ Budget <= Budget' /\ \A e : Times(e) \in Nat
  BY RowsTypes DEF Budget
<1>2. \A e : Passed(e) => Passed(e)'
  <2>1. Place \in Nat
    BY RowsTypes
  <2>2. \A k \in 1..Place : k \in 1..Place'
    BY <2>1
  <2> QED
    BY <2>2 DEF Passed
<1>3. CASE ReadsOn
  BY <1>1, <1>2, <1>3 DEF ReadsOn
<1>4. CASE StartsOver
  <2>1. ASSUME NEW e \in Event
        PROVE  Times(e)' < Budget' /\ (Times(e)' + 1 < Budget' \/ Passed(e)')
    BY <1>1, <1>2, <1>4 DEF StartsOver
  <2> QED
    BY <2>1 DEF StartsOver
<1> QED
  BY <1>3, <1>4

(* A line is stored that the console has not passed yet.                   *)
LEMMA ImportEventRows ==
  ASSUME IngestInv, LogOnce, ReadsOn \/ StartsOver, ImportEvent
  PROVE  ReadsOn' \/ StartsOver'
<1> DEFINE k == tick.pos + 1
<1>1. /\ imported' = Append(imported, [ev |-> log[k], alerts |-> 0])
      /\ tick.pc = "lines" /\ tick.pos < tick.end
      /\ UNCHANGED <<log, lines, copies, crashes, fails>>
  BY DEF ImportEvent, LinesLeft, fileVars, vars
<1>2. /\ tick.pos \in 0..Len(log) /\ tick.end \in 0..Len(log) /\ log \in Seq(Event)
      /\ imported \in Seq(Row) /\ Len(log) \in Nat
  BY <1>1 DEF IngestInv, IngestTypeOK, TickInv
<1>3. k \in 1..Len(log) /\ k \in Nat
  BY <1>1, <1>2
<1>4. tick'.pc \in {"lines", "alerts"} /\ tick'.pos = k /\ tick'.end = tick.end
  <2> DEFINE pcNext == IF Hits[log[k]] = 0 THEN "lines" ELSE "alerts"
  <2>1. tick' = [tick EXCEPT !.pc = pcNext, !.pos = k] /\ pcNext \in {"lines", "alerts"}
    BY DEF ImportEvent
  <2>2. tick \in [pc : {"idle", "read", "lines", "alerts"},
                  base : Nat, size : Nat, pos : Nat, end : Nat]
    BY DEF IngestInv, IngestTypeOK
  <2> HIDE DEF pcNext, k
  <2> QED
    BY <2>1, <2>2
<1> HIDE DEF k
<1>5. Place = tick.pos /\ Place' = k /\ Budget' = Budget
  BY <1>1, <1>4 DEF Place, Budget
<1>6. [ev |-> log[k], alerts |-> 0] \in Row
  BY <1>2, <1>3 DEF Row
<1>7. \A e : Times(e)' = IF log[k] = e THEN Times(e) + 1 ELSE Times(e)
  <2>1. ASSUME NEW e PROVE Times(e)' = IF log[k] = e THEN Times(e) + 1 ELSE Times(e)
    <3>1. Cardinality(RowsOf(Append(imported, [ev |-> log[k], alerts |-> 0]), e))
            = IF log[k] = e THEN Cardinality(RowsOf(imported, e)) + 1
                            ELSE Cardinality(RowsOf(imported, e))
      BY <1>2, <1>6, TimesAppend
    <3> QED
      BY <1>1, <3>1 DEF Times, RowsOf
  <2> QED
    BY <2>1
<1>8. \A e : Passed(e)' <=> Passed(e) \/ log[k] = e
  <2>1. \A j : j \in 1..k <=> j \in 1..tick.pos \/ j = k
    BY <1>2 DEF k
  <2> QED
    BY <1>1, <1>5, <2>1 DEF Passed
<1>9. ~ Passed(log[k])
  <2>1. \A j \in 1..tick.pos : j \in DOMAIN log /\ j # k
    BY <1>2 DEF k
  <2> QED
    BY <1>2, <1>3, <1>5, <2>1 DEF Passed, LogOnce
<1>10. Budget \in Nat /\ (\A e : Times(e) \in Nat) /\ lines \in Nat
  BY RowsTypes
<1>11. CASE ReadsOn
  <2>1. k <= lines
    BY <1>1, <1>2, <1>10, <1>11 DEF k, ReadsOn
  <2>2. ASSUME NEW e \in Event
        PROVE  Times(e)' <= Budget' /\ (Times(e)' < Budget' \/ Passed(e)')
    BY <1>5, <1>7, <1>8, <1>9, <1>10, <1>11 DEF ReadsOn
  <2> QED
    BY <1>1, <1>4, <1>5, <1>11, <2>1, <2>2 DEF ReadsOn
<1>12. CASE StartsOver
  <2>1. ASSUME NEW e \in Event
        PROVE  Times(e)' < Budget' /\ (Times(e)' + 1 < Budget' \/ Passed(e)')
    BY <1>1, <1>5, <1>7, <1>8, <1>9, <1>10, <1>12 DEF StartsOver
  <2> QED
    BY <2>1 DEF StartsOver
<1> QED
  BY <1>11, <1>12

LEMMA RowsInvStep ==
  ASSUME IngestInv, IngestInv', RowsInv, [IngestNext]_allVars
  PROVE  RowsInv'
<1>1. LogOnce' /\ copies \in Nat
  BY LogOnceStep, RowsTypes DEF RowsInv
<1>2. CASE copies = 0 /\ ~ BeginCopy
  <2>1. copies' = 0
    BY <1>2 DEF IngestNext, AgentStep, Serve, Crash, Tick, BeginTick, ReadFile, ImportEvent,
       ImportAlert, ImportFails, SetOffset, SetOffsetFails, CopyLine, allVars, ingestVars, fileVars
  <2> QED
    BY <1>1, <1>2, <2>1, NoCopyStep DEF RowsInv
<1>3. CASE BeginCopy
  <2>1. /\ copies' = copies + 1
        /\ UNCHANGED <<log, imported, tick, crashes, fails>>
    BY <1>3 DEF BeginCopy, vars, tickVars
  <2>2. Budget' = Budget + 1
    BY <2>1, RowsTypes DEF Budget
  <2>3. copies = 0 => tick.pc = "idle" /\ imported = << >>
    BY DEF RowsInv, NoTick
  <2>4. StartsOver'
    BY <2>1, <2>2, <2>3, StartsOverStep DEF RowsInv
  <2> QED
    BY <1>1, <2>1, <2>4 DEF RowsInv
<1>4. ASSUME copies > 0, ~ BeginCopy, [IngestNext]_allVars
      PROVE  ReadsOn' \/ StartsOver'
  <2>0. ReadsOn \/ StartsOver
    BY <1>4 DEF RowsInv
  <2> DEFINE Ticks == [pc : {"idle", "read", "lines", "alerts"},
                       base : Nat, size : Nat, pos : Nat, end : Nat]
  <2>a. /\ tick \in Ticks /\ lines \in Nat /\ offset \in Nat /\ fails \in Nat /\ Place \in Nat
        /\ \A e : Times(e) \in Nat
        /\ Budget \in Nat
    BY RowsTypes DEF IngestInv, IngestTypeOK
  <2>b. imported' = imported => \A e : Times(e)' = Times(e)
    BY DEF Times, RowsOf
  <2>1. CASE AgentStep
    <3>1. \A k \in 1..Len(log) : log'[k] = log[k]
      <4>1. emitted \in Event \/ logged' = logged
        BY <2>1, Bounds DEF AgentStep, IngestInv, IInv, TypeOK, OnePlace, Event, Capture,
           AppendLine, Resolve, GiveUp, Connect, Send, Receive
      <4> QED
        BY <2>1, <4>1 DEF AgentStep, IngestInv, IngestTypeOK
    <3>2. UNCHANGED <<tickVars, fails, copies, lines>> /\ UNCHANGED crashes
      BY <2>1 DEF AgentStep, Capture, AppendLine, Resolve, GiveUp, Connect, Send, Receive
    <3> QED
      BY <2>0, <2>a, <3>1, <3>2, QuietRows
  <2>2. CASE Serve \/ (ConsoleStart /\ UNCHANGED ingestVars) \/ UNCHANGED allVars
    <3>1. UNCHANGED <<tickVars, fails, copies, lines, log>> /\ UNCHANGED crashes
      BY <2>2 DEF Serve, Handler, InsertEvent, InsertAlert, Stored, IngestFails, Reply, TakeRequest,
         ConsoleStart, allVars, vars, ingestVars, fileVars
    <3> QED
      BY <2>0, <2>a, <3>1, QuietRows
  <2>3. CASE CopyLine
    <3>1. UNCHANGED <<tickVars, fails, copies, log>> /\ lines' = lines + 1 /\ UNCHANGED crashes
      BY <2>3 DEF CopyLine, vars
    <3> QED
      BY <2>0, <2>a, <3>1, QuietRows
  <2>4. CASE Crash \/ SetOffsetFails
    <3>1. tick' = NoTick /\ imported' = imported /\ Budget' = Budget + 1
      <4>1. CASE Crash
        <5>1. tick' = NoTick /\ UNCHANGED <<imported, copies, fails>> /\ crashes' = crashes + 1
          BY <4>1 DEF Crash, ConsoleCrash, fileVars
        <5> QED
          BY <5>1, RowsTypes DEF Budget
      <4>2. CASE SetOffsetFails
        <5>1. tick' = NoTick /\ UNCHANGED <<imported, copies, crashes>> /\ fails' = fails + 1
          BY <4>2 DEF SetOffsetFails, vars, fileVars
        <5> QED
          BY <5>1, RowsTypes DEF Budget
      <4> QED
        BY <2>4, <4>1, <4>2
    <3>2. tick'.pc = "idle"
      BY <3>1 DEF NoTick
    <3>3. StartsOver'
      BY <1>1, <1>4, <2>0, <3>1, <3>2, StartsOverStep
    <3> QED
      BY <3>3
  <2>5. CASE BeginTick
    <3>1. /\ tick.pc = "idle" /\ StartsAt < lines
          /\ tick' = [NoTick EXCEPT !.pc = "read", !.base = StartsAt, !.size = lines]
          /\ UNCHANGED <<log, lines, copies, crashes, fails, offset, imported>>
      BY <2>5 DEF BeginTick, NoTick, vars, fileVars
    <3>2. tick'.pc = "read" /\ tick'.base = StartsAt
      BY <3>1 DEF NoTick
    <3>3. Place' = StartsAt /\ Place = offset /\ Budget' = Budget
      BY <3>1, <3>2 DEF Place, Budget
    <3>4. StartsAt \in Nat /\ (lines < offset \/ StartsAt = offset)
      BY <2>a DEF StartsAt
    <3>5. CASE ReadsOn
      <4>1. Place' = Place /\ Place <= lines
        BY <2>a, <3>3, <3>4, <3>5 DEF ReadsOn
      <4>2. \A e : Passed(e)' <=> Passed(e)
        BY <3>1, <4>1 DEF Passed
      <4> QED
        BY <2>b, <3>1, <3>2, <3>3, <3>5, <4>1, <4>2 DEF ReadsOn
    <3>6. CASE StartsOver
      <4>1. \A e \in Event : Times(e) <= Budget /\ Times(e) < Budget
        BY <2>a, <3>6 DEF StartsOver
      <4>2. Place' <= lines' /\ tick'.pc = "read"
        BY <2>a, <3>1, <3>2, <3>3, <3>4
      <4> QED
        BY <2>b, <3>1, <3>3, <4>1, <4>2 DEF ReadsOn
    <3> QED
      BY <2>0, <3>5, <3>6
  <2>6. CASE ReadFile
    <3> DEFINE end == IF lines < tick.size THEN lines ELSE tick.size
    <3>1. /\ tick' = [tick EXCEPT !.pc = "lines", !.pos = tick.base, !.end = end]
          /\ UNCHANGED <<log, lines, copies, crashes, fails, imported>> /\ tick.pc = "read"
      BY <2>6 DEF ReadFile, vars, fileVars
    <3>2. end <= lines
      BY <2>a
    <3> HIDE DEF end
    <3>3. tick'.pc = "lines" /\ tick'.pos = tick.base /\ tick'.end = end
      BY <2>a, <3>1
    <3>4. Place' = Place
      BY <3>1, <3>3 DEF Place
    <3>5. ReadsOn => Place' <= lines
      BY <3>4 DEF ReadsOn
    <3> QED
      BY <2>0, <2>a, <2>b, <3>1, <3>2, <3>3, <3>4, <3>5, TickGoesOn
  <2>7. CASE ImportEvent
    BY <2>0, <2>7, ImportEventRows DEF RowsInv
  <2>8. CASE ImportAlert
    <3> DEFINE r == Len(imported)
               a == imported[r].alerts + 1
               pcNext == IF a = Hits[imported[r].ev] THEN "lines" ELSE "alerts"
    <3>1. /\ imported' = [imported EXCEPT ![r].alerts = a]
          /\ tick' = [tick EXCEPT !.pc = pcNext] /\ pcNext \in {"lines", "alerts"}
          /\ UNCHANGED <<log, lines, copies, crashes, fails>> /\ tick.pc = "alerts"
      BY <2>8 DEF ImportAlert, vars, fileVars
    <3>2. imported \in Seq(Row)
      BY DEF IngestInv, IngestTypeOK
    <3> HIDE DEF a, r, pcNext
    <3>3. DOMAIN imported' = DOMAIN imported
          /\ \A i \in DOMAIN imported : imported'[i].ev = imported[i].ev
      <4>1. DOMAIN imported' = DOMAIN imported
            /\ \A i \in DOMAIN imported : i # r => imported'[i] = imported[i]
        BY <3>1
      <4>2. r \in DOMAIN imported =>
              imported'[r] = [imported[r] EXCEPT !.alerts = a] /\ imported[r] \in Row
        BY <3>1, <3>2
      <4>3. r \in DOMAIN imported => imported'[r].ev = imported[r].ev
        BY <4>2 DEF Row
      <4> QED
        BY <4>1, <4>3
    <3>4. \A e : Times(e)' = Times(e)
      BY <3>3 DEF Times, RowsOf
    <3>5. tick'.pc \in {"lines", "alerts"} /\ tick'.pos = tick.pos /\ tick'.end = tick.end
      BY <2>a, <3>1
    <3>6. Place' = Place
      BY <3>1, <3>5 DEF Place
    <3>7. ReadsOn => Place' <= lines /\ tick'.end <= lines
      BY <3>1, <3>5, <3>6 DEF ReadsOn
    <3> QED
      BY <2>0, <2>a, <3>1, <3>4, <3>6, <3>7, TickGoesOn
  <2>9. CASE ImportFails
    <3> DEFINE pos == IF LinesLeft THEN tick.pos + 1 ELSE tick.pos
    <3>1. /\ tick' = [tick EXCEPT !.pc = "lines", !.pos = pos]
          /\ UNCHANGED <<log, lines, copies, crashes, imported>> /\ fails' = fails + 1
          /\ tick.pc \in {"lines", "alerts"}
      BY <2>9 DEF ImportFails, LinesLeft, vars, fileVars
    <3>2. /\ pos \in Nat /\ tick.pos <= pos
          /\ ReadsOn => pos <= lines
      BY <2>a, <3>1 DEF ReadsOn, LinesLeft, Place
    <3> HIDE DEF pos
    <3>3. tick'.pc = "lines" /\ tick'.pos = pos /\ tick'.end = tick.end
      BY <2>a, <3>1
    <3>4. Place' = pos /\ Place = tick.pos
      BY <3>1, <3>3 DEF Place
    <3>5. ReadsOn => tick'.end <= lines
      BY <3>1, <3>3 DEF ReadsOn
    <3> QED
      BY <2>0, <2>a, <2>b, <3>1, <3>2, <3>4, <3>5, TickGoesOn
  <2>10. CASE SetOffset
    <3>1. /\ tick' = NoTick /\ offset' = tick.pos /\ tick.pc = "lines"
          /\ UNCHANGED <<log, lines, copies, crashes, fails, imported>>
      BY <2>10 DEF SetOffset, TickEnds, vars, fileVars
    <3>2. tick'.pc = "idle"
      BY <3>1 DEF NoTick
    <3>3. Place' = Place
      BY <3>1, <3>2 DEF Place
    <3>4. ReadsOn => Place' <= lines
      BY <3>3 DEF ReadsOn
    <3> QED
      BY <2>0, <2>a, <2>b, <3>1, <3>2, <3>3, <3>4, TickGoesOn
  <2> QED
    BY <1>4, <2>1, <2>2, <2>3, <2>4, <2>5, <2>6, <2>7, <2>8, <2>9, <2>10 DEF IngestNext, Tick
<1>5. CASE copies > 0 /\ ~ BeginCopy
  <2>1. copies' = copies
    BY <1>5 DEF IngestNext, AgentStep, Serve, Crash, Tick, BeginTick, ReadFile, ImportEvent,
       ImportAlert, ImportFails, SetOffset, SetOffsetFails, CopyLine, allVars, ingestVars, fileVars
  <2> QED
    BY <1>1, <1>4, <1>5, <2>1 DEF RowsInv
<1> QED
  BY <1>1, <1>2, <1>3, <1>5

(* However copies, ticks, crashes and failing statements interleave, ticks *)
(* store an event at most once for each copy, each crash and each failed   *)
(* statement.                                                              *)
THEOREM RowsPerCopyCorrect == IngestSpec => []RowsPerCopy
<1>1. IngestInit => RowsInv
  BY DEF IngestInit, Init, RowsInv, LogOnce
<1>2. ASSUME IngestInv, RowsInv PROVE RowsPerCopy
  <2> SUFFICES ASSUME NEW e \in Event
               PROVE  Times(e) <= copies + IF copies = 0 THEN 0 ELSE crashes + fails
    BY DEF RowsPerCopy, Times
  <2>1. /\ copies \in Nat /\ crashes \in Nat /\ fails \in Nat /\ Times(e) \in Nat
        /\ Budget = copies + crashes + fails
    BY <1>2, RowsTypes DEF Budget
  <2>2. CASE copies = 0
    <3>1. Times(e) = 0
      BY <1>2, <2>2, FS_EmptySet DEF RowsInv, Times, RowsOf
    <3> QED
      BY <2>2, <3>1
  <2>3. CASE copies # 0
    <3>1. Times(e) <= Budget
      BY <1>2, <2>1, <2>3 DEF RowsInv, ReadsOn, StartsOver
    <3> QED
      BY <2>1, <2>3, <3>1
  <2> QED
    BY <2>2, <2>3
<1> QED
  BY <1>1, <1>2, RowsInvStep, IngestInvCorrect, PTL DEF IngestSpec
=============================================================================
