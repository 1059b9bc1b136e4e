-------------------------- MODULE EnrichmentProofs --------------------------
(***************************************************************************)
(* Proofs about Enrichment: on a clock that tells any two creations apart, *)
(* the creation-time comparison of get_process_lineage keeps a process     *)
(* that was given the parent's PID later from being recorded as parent,    *)
(* and the event of a process that still runs is about nobody else.        *)
(***************************************************************************)
EXTENDS Enrichment, TLAPS

(* Every two creations have different creation times.                      *)
FineClock == 0 \notin Tick

LEMMA AppendFacts ==
  ASSUME NEW S, NEW s \in Seq(S), NEW x \in S
  PROVE  /\ Append(s, x) \in Seq(S)
         /\ Len(Append(s, x)) = Len(s) + 1
         /\ DOMAIN Append(s, x) = DOMAIN s \cup {Len(s) + 1}
         /\ \A i \in DOMAIN s : Append(s, x)[i] = s[i]
         /\ Append(s, x)[Len(s) + 1] = x
  OBVIOUS

LEMMA ProcType ==
  ASSUME TypeOK, NEW i \in DOMAIN procs
  PROVE  /\ procs[i] \in Proc /\ procs[i].pid \in Pid /\ procs[i].ppid \in Pid
         /\ procs[i].born \in Nat /\ i \in 1..Len(procs) /\ i \in Nat /\ i # 0
<1>1. procs[i] \in Proc
  BY DEF TypeOK
<1>2. i \in 1..Len(procs) /\ Len(procs) \in Nat
  BY DEF TypeOK
<1> QED
  BY <1>1, <1>2 DEF Proc

LEMMA CreationTimeType ==
  ASSUME TypeOK, NEW i \in 0..Len(procs)
  PROVE  CreationTime(i) \in Nat
<1>1. CASE i = 0
  BY <1>1 DEF CreationTime
<1>2. CASE i # 0
  <2>1. i \in DOMAIN procs
    BY <1>2 DEF TypeOK
  <2> QED
    BY <1>2, <2>1, ProcType DEF CreationTime
<1> QED
  BY <1>1, <1>2

(* Holder finds the process with a PID, if there is one.                   *)
LEMMA HolderFact ==
  ASSUME TypeOK, NEW p
  PROVE  /\ Holder(p) \in 0..Len(procs)
         /\ Holder(p) # 0 => Holds(Holder(p), p)
         /\ \A i \in DOMAIN procs : Holds(i, p) => Holder(p) # 0
<1>1. DOMAIN procs = 1..Len(procs)
  BY DEF TypeOK
<1>2. CASE \E i \in DOMAIN procs : Holds(i, p)
  <2> DEFINE h == CHOOSE i \in DOMAIN procs : Holds(i, p)
  <2>1. h \in DOMAIN procs /\ Holds(h, p)
    BY <1>2
  <2>2. Holder(p) = h
    BY <1>2 DEF Holder
  <2> QED
    BY <1>1, <2>1, <2>2 DEF TypeOK
<1>3. CASE ~ \E i \in DOMAIN procs : Holds(i, p)
  BY <1>3 DEF Holder, TypeOK
<1> QED
  BY <1>2, <1>3

(* ... and no other.                                                       *)
LEMMA HolderUnique ==
  ASSUME TypeOK, ProcessesInv, NEW p, NEW i \in DOMAIN procs, Holds(i, p)
  PROVE  Holder(p) = i
<1>1. Holder(p) \in DOMAIN procs /\ Holds(Holder(p), p)
  BY HolderFact DEF TypeOK
<1> QED
  BY <1>1 DEF ProcessesInv, Holds, Alive

LEMMA InitInv == Init => IInv
<1> SUFFICES ASSUME Init PROVE IInv
  OBVIOUS
<1>1. PICK p \in Pid :
        procs = <<[pid |-> p, ppid |-> p, parent |-> 1, born |-> 1, up |-> TRUE]>>
  BY DEF Init
<1>2. /\ procs \in Seq(Proc) /\ Len(procs) = 1 /\ DOMAIN procs = {1}
      /\ procs[1] = [pid |-> p, ppid |-> p, parent |-> 1, born |-> 1, up |-> TRUE]
  BY <1>1 DEF Proc
<1>3. TypeOK
  BY <1>2, EnrichmentAssumption DEF Init, TypeOK, EventOf, Event
<1>4. ProcessesInv
  BY <1>2 DEF Init, ProcessesInv, ParentOf
<1>5. SnapshotInv /\ TimesInv
  BY DEF Init, SnapshotInv, TimesInv
<1>6. EventsInv
  BY <1>2 DEF Init, EventsInv, ParentInv, SubjectInv, Alive, BuiltEvents, EventOf
<1> QED
  BY <1>3, <1>4, <1>5, <1>6 DEF IInv

-----------------------------------------------------------------------------
(* What is said of an event stays true while processes start and exit: the *)
(* dead stay dead, and nobody's parent changes.                            *)
LEMMA SubjectKept ==
  ASSUME ProcessesInv, DOMAIN procs = 1..Len(procs), Len(procs) \in Nat,
         DOMAIN procs \subseteq DOMAIN procs',
         \A i \in DOMAIN procs : ParentOf(i)' = ParentOf(i) /\ (procs'[i].up => procs[i].up),
         NEW e, e.subject \in DOMAIN procs, SubjectInv(e)
  PROVE  SubjectInv(e)'
<1> DEFINE parent == ParentOf(e.subject)
<1>1. parent \in DOMAIN procs /\ ParentOf(parent) \in DOMAIN procs
  BY DEF ProcessesInv
<1>2. /\ ParentOf(e.subject)' = parent
      /\ ParentOf(ParentOf(e.subject))' = ParentOf(parent)
  <2>1. procs'[e.subject].parent = parent
    BY DEF ParentOf
  <2>2. procs'[parent].parent = ParentOf(parent)
    BY <1>1 DEF ParentOf
  <2> QED
    BY <2>1, <2>2 DEF ParentOf
<1>3. Alive(e.subject)' => Alive(e.subject)
  BY DEF Alive
<1>4. Alive(ParentOf(ParentOf(e.subject)))' => Alive(ParentOf(parent))
  BY <1>1, <1>2 DEF Alive
<1> HIDE DEF parent
<1> QED
  BY <1>2, <1>3, <1>4 DEF SubjectInv, AboutTheSubject, parent

(* A new process shares its PID with no living one, and is younger than    *)
(* all of them.                                                            *)
LEMMA SpawnInv ==
  ASSUME FineClock, IInv, NEW parent \in 1..MaxProcs, NEW p \in Pid, Spawn(parent, p)
  PROVE  IInv'
<1> DEFINE x == [pid |-> p, ppid |-> procs[parent].pid,
                 parent |-> parent, born |-> clock, up |-> TRUE]
<1>a. /\ procs \in Seq(Proc) /\ DOMAIN procs = 1..Len(procs) /\ Len(procs) \in Nat
      /\ clock \in Nat /\ parent \in DOMAIN procs /\ procs[parent] \in Proc
      /\ procs[parent].up /\ MaxProcs \in Nat
  BY EnrichmentAssumption DEF IInv, TypeOK, Spawn, Alive
<1>b. x \in Proc
  BY <1>a DEF Proc
<1>c. PICK n \in Nat : n = Len(procs) + 1
  BY <1>a
<1>1. /\ procs' \in Seq(Proc) /\ Len(procs') = n /\ DOMAIN procs' = 1..n
      /\ \A i \in DOMAIN procs : procs'[i] = procs[i]
      /\ procs'[n] = x
  BY <1>a, <1>b, <1>c, AppendFacts DEF Spawn
<1>2. PICK t \in Tick : clock' = clock + t
  BY DEF Spawn
<1>3. t \in Nat /\ t > 0
  BY EnrichmentAssumption DEF FineClock
<1>4. TypeOK'
  BY <1>1, <1>c, <1>a, <1>2, <1>3, SMTT(30) DEF IInv, TypeOK, Spawn
<1>5. \A i \in DOMAIN procs : procs[i].up => procs[i].pid # p
  <2>1. Holder(p) = 0
    BY DEF Spawn
  <2> QED
    BY <2>1, HolderFact, <1>a DEF Holds, Alive, IInv
<1>6. ProcessesInv'
  <2>1. Len(procs') >= 1 /\ procs'[1].up
    BY <1>1, <1>c, <1>a DEF IInv, ProcessesInv
  <2>2. \A i, j \in DOMAIN procs' :
          procs'[i].up /\ procs'[j].up /\ procs'[i].pid = procs'[j].pid => i = j
    BY <1>1, <1>c, <1>a, <1>5 DEF IInv, ProcessesInv
  <2>3. \A i \in DOMAIN procs' : 0 < procs'[i].born /\ procs'[i].born < clock'
    <3>1. \A i \in DOMAIN procs : procs[i] \in Proc
      BY <1>a
    <3>2. \A i \in DOMAIN procs : procs[i].born \in Nat
      BY <3>1 DEF Proc
    <3>3. procs[1].born \in Nat /\ 0 < procs[1].born /\ procs[1].born < clock
      BY <3>2, <1>a DEF IInv, ProcessesInv
    <3>4. 0 < clock
      BY <3>3, <1>a
    <3> QED
      BY <1>1, <1>c, <1>a, <1>2, <1>3, <3>2, <3>4 DEF IInv, ProcessesInv
  <2>4. \A i, j \in DOMAIN procs' : i < j => procs'[i].born < procs'[j].born
    BY <1>1, <1>c, <1>a DEF IInv, ProcessesInv
  <2>5. \A i \in DOMAIN procs' : i # 1 =>
          /\ procs'[i].pid # procs'[i].ppid /\ procs'[i].pid # procs'[1].pid
          /\ \A h \in 1..i - 1 : Holds(h, procs[i].ppid)' => h = ParentOf(i)'
    <3>1. CASE n # 1
      <4>1. x.pid # x.ppid /\ x.pid # procs[1].pid
        BY <1>5, <1>a DEF IInv, ProcessesInv
      <4>2. \A h \in 1..n - 1 : Holds(h, procs[n].ppid)' => h = ParentOf(n)'
        BY <1>1, <1>c, <1>a DEF IInv, ProcessesInv, Holds, Alive, ParentOf
      <4>3. \A i \in DOMAIN procs : \A h \in 1..i - 1 :
              Holds(h, procs[i].ppid)' <=> Holds(h, procs[i].ppid)
        BY <1>1, <1>c, <1>a DEF Holds, Alive
      <4>4. \A i \in DOMAIN procs : ParentOf(i)' = ParentOf(i)
        BY <1>1 DEF ParentOf
      <4>5. \A i \in DOMAIN procs : i # 1 =>
              /\ procs'[i].pid # procs'[i].ppid /\ procs'[i].pid # procs'[1].pid
              /\ \A h \in 1..i - 1 : Holds(h, procs[i].ppid)' => h = ParentOf(i)'
        BY <4>3, <4>4, <1>1, <1>c, <1>a DEF IInv, ProcessesInv
      <4>6. procs'[1] = procs[1]
        BY <1>1, <1>c, <1>a DEF IInv, ProcessesInv
      <4> QED
        <5> SUFFICES ASSUME NEW i \in DOMAIN procs', i # 1
                     PROVE  /\ procs'[i].pid # procs'[i].ppid /\ procs'[i].pid # procs'[1].pid
                            /\ \A h \in 1..i - 1 : Holds(h, procs[i].ppid)' => h = ParentOf(i)'
          OBVIOUS
        <5>1. CASE i \in DOMAIN procs
          BY <5>1, <4>5
        <5>2. CASE i = n
          BY <5>2, <4>1, <4>2, <4>6, <1>1
        <5> QED
          BY <5>1, <5>2, <1>1, <1>c, <1>a
    <3>2. CASE n = 1
      BY <3>2, <1>1, <1>c, <1>a
    <3> QED
      BY <3>1, <3>2
  <2>6. \A i \in DOMAIN procs' :
          ParentOf(i)' \in 1..i /\ procs'[i].ppid = procs'[ParentOf(i)'].pid
    <3>1. ASSUME NEW i \in DOMAIN procs
          PROVE  ParentOf(i)' \in 1..i /\ procs'[i].ppid = procs'[ParentOf(i)'].pid
      <4>1. ParentOf(i)' = ParentOf(i) /\ ParentOf(i) \in DOMAIN procs
        BY <1>1, <1>a DEF ParentOf, IInv, ProcessesInv
      <4> QED
        BY <4>1, <1>1 DEF IInv, ProcessesInv
    <3>2. ParentOf(n)' \in 1..n /\ procs'[n].ppid = procs'[ParentOf(n)'].pid
      <4>1. ParentOf(n)' = parent
        BY <1>1 DEF ParentOf
      <4> QED
        BY <4>1, <1>1, <1>a, <1>c
    <3> QED
      BY <3>1, <3>2, <1>1, <1>c, <1>a
  <2> QED
    BY <2>1, <2>2, <2>3, <2>4, <2>5, <2>6 DEF ProcessesInv, ParentOf
<1>7. SnapshotInv'
  <2> SUFFICES ASSUME pc \in {"childTime", "parentTime", "guard"} PROVE SnapshotInv'
    BY DEF SnapshotInv, Spawn
  <2>1. event' = event /\ snap' = snap /\ event.child \in DOMAIN procs /\ event.child # 1
    BY DEF Spawn, IInv, SnapshotInv
  <2>2. ParentPid' = ParentPid
    BY <2>1, <1>1 DEF ParentPid
  <2>3. \A p1 \in Pid : \A h \in 1..event.child : Holds(h, p1)' <=> Holds(h, p1)
    BY <2>1, <1>1, <1>c, <1>a DEF Holds, Alive
  <2> QED
    BY <2>1, <2>2, <2>3, <1>1, <1>c, <1>a DEF IInv, SnapshotInv
<1>8. TimesInv'
  <2> SUFFICES ASSUME pc \in {"parentTime", "guard"} PROVE TimesInv'
    BY DEF TimesInv, Spawn
  <2>1. /\ event' = event /\ snap' = snap /\ times' = times /\ pc' = pc
        /\ event.child \in DOMAIN procs /\ event.timed \in 0..Len(procs)
    BY DEF Spawn, IInv, SnapshotInv, TimesInv
  <2>2. ParentPid' = ParentPid /\ ParentOf(event.child)' = ParentOf(event.child)
    BY <2>1, <1>1 DEF ParentPid, ParentOf
  <2>3. CreationTime(event.timed)' = CreationTime(event.timed)
    BY <2>1, <1>1, <1>c, <1>a DEF CreationTime
  <2> QED
    BY <2>1, <2>2, <2>3, <1>1, <1>c, <1>a DEF IInv, TimesInv
<1>9. EventsInv'
  <2>1. pc' = pc /\ event' = event /\ events' = events
    BY DEF Spawn
  <2>2. \A i \in DOMAIN procs : ParentOf(i)' = ParentOf(i)
    BY <1>1 DEF ParentOf
  <2>3. DOMAIN procs \subseteq DOMAIN procs' /\ 0 \notin DOMAIN procs'
    BY <1>1, <1>c, <1>a
  <2>4. \A i \in DOMAIN procs : procs'[i].up => procs[i].up
    BY <1>1
  <2>5. \A e : e.subject \in DOMAIN procs /\ SubjectInv(e) => SubjectInv(e)'
    BY <2>2, <2>3, <2>4, <1>a, SubjectKept DEF IInv
  <2>6. SubjectInv(event)'
    BY <2>1, <2>3, <2>5 DEF IInv, EventsInv, SubjectInv, Alive
  <2> QED
    BY <2>1, <2>2, <2>3, <2>5, <2>6 DEF IInv, EventsInv, ParentInv, BuiltEvents
<1> QED
  BY <1>4, <1>6, <1>7, <1>8, <1>9 DEF IInv

(* An exit only takes a holder away.                                       *)
LEMMA ExitInv ==
  ASSUME IInv, NEW e \in 1..MaxProcs, Exit(e)
  PROVE  IInv'
<1>a. /\ procs \in Seq(Proc) /\ DOMAIN procs = 1..Len(procs) /\ Len(procs) \in Nat
      /\ e \in DOMAIN procs /\ e # 1
  BY DEF IInv, TypeOK, Exit, Alive
<1>1. /\ procs' \in Seq(Proc) /\ Len(procs') = Len(procs) /\ DOMAIN procs' = DOMAIN procs
      /\ \A i \in DOMAIN procs :
           /\ procs'[i].pid = procs[i].pid /\ procs'[i].ppid = procs[i].ppid
           /\ procs'[i].parent = procs[i].parent /\ procs'[i].born = procs[i].born
           /\ procs'[i].up => procs[i].up
      /\ procs'[1].up = procs[1].up
  <2>1. procs[e] \in Proc
    BY <1>a
  <2> DEFINE gone == [procs[e] EXCEPT !.up = FALSE]
  <2>2. /\ gone \in Proc /\ gone.pid = procs[e].pid /\ gone.ppid = procs[e].ppid
        /\ gone.parent = procs[e].parent /\ gone.born = procs[e].born /\ gone.up = FALSE
    BY <2>1 DEF Proc
  <2>3. procs' = [procs EXCEPT ![e] = gone]
    BY DEF Exit
  <2> HIDE DEF gone
  <2>4. /\ procs' \in Seq(Proc) /\ Len(procs') = Len(procs) /\ DOMAIN procs' = DOMAIN procs
        /\ procs'[e] = gone /\ \A i \in DOMAIN procs : i # e => procs'[i] = procs[i]
    BY <1>a, <2>2, <2>3
  <2>5. procs'[1] = procs[1]
    BY <1>a, <2>4 DEF IInv, ProcessesInv
  <2> QED
    BY <2>2, <2>4, <2>5
<1>2. /\ clock' = clock /\ pc' = pc /\ event' = event /\ snap' = snap
      /\ times' = times /\ events' = events
  BY DEF Exit
<1>3. \A h, p : Holds(h, p)' => Holds(h, p)
  BY <1>1 DEF Holds, Alive
<1>4. \A i \in DOMAIN procs : ParentOf(i)' = ParentOf(i)
  BY <1>1 DEF ParentOf
<1>5. TypeOK'
  BY <1>1, <1>2 DEF IInv, TypeOK
<1>6. ProcessesInv'
  <2>1. /\ Len(procs') >= 1 /\ procs'[1].up
        /\ \A i, j \in DOMAIN procs' :
             procs'[i].up /\ procs'[j].up /\ procs'[i].pid = procs'[j].pid => i = j
        /\ \A i \in DOMAIN procs' : 0 < procs'[i].born /\ procs'[i].born < clock'
        /\ \A i, j \in DOMAIN procs' : i < j => procs'[i].born < procs'[j].born
    BY <1>1, <1>2 DEF IInv, ProcessesInv
  <2>2. \A i \in DOMAIN procs' : i # 1 =>
          /\ procs'[i].pid # procs'[i].ppid /\ procs'[i].pid # procs'[1].pid
          /\ \A h \in 1..i - 1 : Holds(h, procs[i].ppid)' => h = ParentOf(i)'
    <3> SUFFICES ASSUME NEW i \in DOMAIN procs, i # 1
                 PROVE  /\ procs'[i].pid # procs'[i].ppid /\ procs'[i].pid # procs'[1].pid
                        /\ \A h \in 1..i - 1 : Holds(h, procs[i].ppid)' => h = ParentOf(i)'
      BY <1>1
    <3>1. procs'[1].pid = procs[1].pid
      BY <1>1, <1>a, SMTT(30) DEF IInv, ProcessesInv
    <3>2. \A h \in 1..i - 1 : Holds(h, procs[i].ppid)' => Holds(h, procs[i].ppid)
      BY <1>1 DEF Holds, Alive
    <3> QED
      BY <1>1, <1>4, <3>1, <3>2 DEF IInv, ProcessesInv
  <2>3. \A i \in DOMAIN procs' :
          ParentOf(i)' \in 1..i /\ procs'[i].ppid = procs'[ParentOf(i)'].pid
    <3> SUFFICES ASSUME NEW i \in DOMAIN procs
                 PROVE  ParentOf(i)' \in 1..i /\ procs'[i].ppid = procs'[ParentOf(i)'].pid
      BY <1>1
    <3>1. ParentOf(i)' = ParentOf(i) /\ ParentOf(i) \in DOMAIN procs
      BY <1>4, <1>a DEF IInv, ProcessesInv
    <3> QED
      BY <3>1, <1>1 DEF IInv, ProcessesInv
  <2> QED
    BY <2>1, <2>2, <2>3 DEF ProcessesInv, ParentOf
<1>7. SnapshotInv'
  <2> SUFFICES ASSUME pc \in {"childTime", "parentTime", "guard"} PROVE SnapshotInv'
    BY <1>2 DEF SnapshotInv
  <2>1. event.child \in DOMAIN procs
    BY DEF IInv, SnapshotInv
  <2>2. ParentPid' = ParentPid
    BY <2>1, <1>1, <1>2 DEF ParentPid
  <2>3. \A p \in Pid : \A h \in 1..event.child : Holds(h, p)' => Holds(h, p)
    BY <1>3
  <2> QED
    BY <2>1, <2>2, <2>3, <1>1, <1>2 DEF IInv, SnapshotInv
<1>8. TimesInv'
  <2> SUFFICES ASSUME pc \in {"parentTime", "guard"} PROVE TimesInv'
    BY <1>2 DEF TimesInv
  <2>1. event.child \in DOMAIN procs /\ event.timed \in 0..Len(procs)
    BY DEF IInv, SnapshotInv, TimesInv
  <2>2. ParentPid' = ParentPid /\ ParentOf(event.child)' = ParentOf(event.child)
    BY <2>1, <1>1, <1>2 DEF ParentPid, ParentOf
  <2>3. CreationTime(event.timed)' = CreationTime(event.timed)
    BY <2>1, <1>1, <1>2, <1>a DEF CreationTime
  <2> QED
    BY <2>1, <2>2, <2>3, <1>1, <1>2 DEF IInv, TimesInv
<1>9. EventsInv'
  <2>1. \A x : x.subject \in DOMAIN procs /\ SubjectInv(x) => SubjectInv(x)'
    BY <1>1, <1>4, <1>a, SubjectKept DEF IInv
  <2>2. SubjectInv(event)'
    BY <1>1, <1>2, <1>a, <2>1 DEF IInv, EventsInv, SubjectInv, Alive
  <2> QED
    BY <1>1, <1>2, <1>4, <2>1, <2>2 DEF IInv, EventsInv, ParentInv, BuiltEvents
<1> QED
  BY <1>5, <1>6, <1>7, <1>8, <1>9 DEF IInv
-----------------------------------------------------------------------------
(* The steps of build_process_event change no process.                     *)
LEMMA EnrichFacts ==
  ASSUME IInv, UNCHANGED osVars
  PROVE  /\ ProcessesInv' /\ procs' = procs
         /\ \A h, p : Holds(h, p)' <=> Holds(h, p)
         /\ \A i : ParentOf(i)' = ParentOf(i) /\ CreationTime(i)' = CreationTime(i)
         /\ \A e : SubjectInv(e)' <=> SubjectInv(e)
BY DEF IInv, osVars, ProcessesInv, Holds, Alive, ParentOf, CreationTime, SubjectInv,
   AboutTheSubject

(* While the subject runs, a query for its PID finds it or nothing.        *)
LEMMA OnlyTheSubject ==
  ASSUME IInv, pc # "idle", Alive(event.subject), NEW i \in Query(SubjectPid)
  PROVE  i \in {0, event.subject}
<1>1. Holds(event.subject, SubjectPid) /\ event.subject \in DOMAIN procs
  BY DEF Holds, Alive, SubjectPid
<1> QED
  BY <1>1, HolderUnique DEF Query, IInv

(* What a query by PID returns.                                            *)
LEMMA QueryFact ==
  ASSUME TypeOK, NEW p, NEW i \in Query(p)
  PROVE  i \in 0..Len(procs) /\ (i # 0 => Holds(i, p))
BY HolderFact DEF Query, TypeOK

(* A query of build_process_event fills in a field of the event.           *)
LEMMA FieldStep ==
  ASSUME IInv, UNCHANGED osVars, events' = events, pc \notin {"idle", "user"}, pc' # "idle",
         event'.subject = event.subject, event'.parent = 0, event'.grandparent = 0,
         event'.user = event.user,
         Alive(event.subject) =>
           /\ event'.path \in {0, event.subject} /\ event'.cmdline \in {0, event.subject}
           /\ event'.child \in {0, event.subject} /\ event'.timed \in {0, event.subject}
  PROVE  EventsInv'
<1>1. SubjectInv(event)'
  <2>1. SubjectInv(event')
    BY DEF IInv, EventsInv, SubjectInv, AboutTheSubject
  <2> QED
    BY <2>1 DEF SubjectInv, AboutTheSubject, Alive, ParentOf, osVars
<1> QED
  BY <1>1, EnrichFacts DEF IInv, EventsInv, ParentInv, BuiltEvents

LEMMA BeginInv ==
  ASSUME IInv, NEW i \in 1..MaxProcs, Begin(i)
  PROVE  IInv'
<1>1. /\ UNCHANGED osVars /\ snap' = snap /\ times' = times /\ events' = events
      /\ event' = EventOf(i) /\ pc' = "path" /\ i \in DOMAIN procs /\ i # 1 /\ i \in Nat
  BY DEF Begin, IInv, TypeOK
<1>2. TypeOK'
  BY <1>1 DEF IInv, TypeOK, osVars, EventOf, Event
<1>3. SnapshotInv' /\ TimesInv'
  BY <1>1 DEF SnapshotInv, TimesInv
<1>4. EventsInv'
  <2>1. event'.parent = 0 /\ event'.subject = i
    BY <1>1 DEF EventOf
  <2>2. Len(events) < MaxEvents
    BY DEF Begin
  <2>3. SubjectInv(event)'
    BY <1>1 DEF EventOf, SubjectInv, AboutTheSubject
  <2>4. event'.grandparent = 0
    BY <1>1 DEF EventOf
  <2> QED
    BY <1>1, <2>1, <2>2, <2>3, <2>4, EnrichFacts DEF IInv, EventsInv, ParentInv, BuiltEvents
<1> QED
  BY <1>1, <1>2, <1>3, <1>4, EnrichFacts DEF IInv

LEMMA ReadPathInv ==
  ASSUME IInv, ReadPath \/ ReadCmdline
  PROVE  IInv'
<1>1. PICK i \in Query(SubjectPid) :
        event' = [event EXCEPT !.path = i] \/ event' = [event EXCEPT !.cmdline = i]
  BY DEF ReadPath, ReadCmdline
<1>2. /\ UNCHANGED osVars /\ snap' = snap /\ times' = times /\ events' = events
      /\ pc \in {"path", "cmdline"} /\ pc' \in {"cmdline", "snapshot"}
  BY DEF ReadPath, ReadCmdline
<1>3. i \in Nat
  BY QueryFact DEF IInv
<1>4. /\ event' \in Event /\ event'.subject = event.subject /\ event'.parent = event.parent
      /\ event'.child = event.child /\ event'.timed = event.timed
  BY <1>1, <1>3 DEF IInv, TypeOK, Event
<1>5. TypeOK'
  BY <1>2, <1>4 DEF IInv, TypeOK, osVars
<1>6. SnapshotInv' /\ TimesInv'
  BY <1>2 DEF SnapshotInv, TimesInv
<1>7. EventsInv'
  <2>1. /\ event'.user = event.user /\ event'.grandparent = event.grandparent
        /\ event'.path \in {i, event.path} /\ event'.cmdline \in {i, event.cmdline}
    BY <1>1 DEF IInv, TypeOK, Event
  <2>2. Alive(event.subject) => i \in {0, event.subject}
    BY <1>2, OnlyTheSubject
  <2>3. Alive(event.subject) =>
          /\ event.path \in {0, event.subject} /\ event.cmdline \in {0, event.subject}
          /\ event.child \in {0, event.subject} /\ event.timed \in {0, event.subject}
    BY DEF IInv, EventsInv, SubjectInv, AboutTheSubject
  <2>4. event.parent = 0 /\ event.grandparent = 0
    BY <1>2 DEF IInv, EventsInv
  <2> QED
    BY <1>2, <1>4, <2>1, <2>2, <2>3, <2>4, FieldStep
<1> QED
  BY <1>2, <1>5, <1>6, <1>7, EnrichFacts DEF IInv

(* The snapshot sees one holder of each PID, so of the child's parent's    *)
(* too.                                                                    *)
LEMMA SnapshotStepInv == IInv /\ Snapshot => IInv'
<1> SUFFICES ASSUME IInv, Snapshot PROVE IInv'
  OBVIOUS
<1> USE DEF IInv
<1>1. PICK taken \in {[p \in Pid |-> 0], [p \in Pid |-> Holder(p)]} :
        /\ snap' = taken
        /\ event' = [event EXCEPT !.child = taken[SubjectPid]]
        /\ pc' = IF taken[SubjectPid] = 0 THEN "user"
                 ELSE IF taken[procs[taken[SubjectPid]].ppid] = 0 THEN "user" ELSE "childTime"
  BY DEF Snapshot
<1>2. /\ UNCHANGED osVars /\ times' = times /\ events' = events /\ pc = "snapshot"
  BY DEF Snapshot
<1> DEFINE child == taken[SubjectPid]
<1>3. taken \in [Pid -> 0..Len(procs)]
  BY HolderFact DEF TypeOK
<1>4. event.subject \in DOMAIN procs /\ event.subject # 1
  BY <1>2 DEF EventsInv
<1>5. SubjectPid \in Pid /\ SubjectPid # procs[1].pid
  BY <1>4, ProcType DEF SubjectPid, ProcessesInv
<1>6. child \in 0..Len(procs) /\ child \in Nat
  BY <1>3, <1>5 DEF TypeOK
<1>7. /\ event' \in Event /\ event'.subject = event.subject /\ event'.parent = event.parent
      /\ event'.child = child
  BY <1>1, <1>6 DEF TypeOK, Event
<1>8. TypeOK'
  BY <1>1, <1>2, <1>3, <1>7, EnrichFacts DEF TypeOK, osVars
<1>9. SnapshotInv'
  <2> SUFFICES ASSUME pc' = "childTime" PROVE SnapshotInv'
    BY <1>1 DEF SnapshotInv
  <2>1. child # 0 /\ taken[procs[child].ppid] # 0
    BY <1>1
  <2>2. child \in DOMAIN procs /\ procs[child] \in Proc
    BY <2>1, <1>6 DEF TypeOK
  <2>3. taken = [p \in Pid |-> Holder(p)]
    BY <2>1, <1>5
  <2>4. Holds(child, SubjectPid)
    BY <2>1, <2>3, <1>5, HolderFact
  <2>5. child # 1
    BY <2>4, <1>5 DEF Holds
  <2>6. procs[child].ppid \in Pid
    BY <2>2 DEF Proc
  <2>7. \A p \in Pid : \A h \in 1..child : Holds(h, p) => h = taken[p]
    BY <2>3, <2>2, HolderUnique DEF Holds, Alive
  <2>8. ParentPid' = procs[child].ppid
    BY <1>2, <1>7 DEF ParentPid, osVars
  <2> QED
    BY <2>1, <2>2, <2>5, <2>7, <2>8, <1>1, <1>2, <1>7, EnrichFacts DEF SnapshotInv, Holds, Alive
<1>10. TimesInv'
  BY <1>1 DEF TimesInv
<1>11. EventsInv'
  <2>1. /\ event'.user = event.user /\ event'.grandparent = event.grandparent
        /\ event'.path = event.path /\ event'.cmdline = event.cmdline
        /\ event'.timed = event.timed
    BY <1>1 DEF TypeOK, Event
  <2>2. child \in Query(SubjectPid)
    BY <1>5 DEF Query
  <2>3. Alive(event.subject) => child \in {0, event.subject}
    BY <1>2, <2>2, OnlyTheSubject
  <2>4. Alive(event.subject) =>
          /\ event.path \in {0, event.subject} /\ event.cmdline \in {0, event.subject}
          /\ event.timed \in {0, event.subject}
    BY DEF EventsInv, SubjectInv, AboutTheSubject
  <2>5. event.parent = 0 /\ event.grandparent = 0 /\ pc' # "idle"
    BY <1>1, <1>2 DEF EventsInv
  <2> QED
    BY <1>2, <1>7, <2>1, <2>3, <2>4, <2>5, FieldStep
<1> QED
  BY <1>2, <1>8, <1>9, <1>10, <1>11, EnrichFacts

LEMMA ReadChildTimeInv == IInv /\ ReadChildTime => IInv'
<1> SUFFICES ASSUME IInv, ReadChildTime PROVE IInv'
  OBVIOUS
<1> USE DEF IInv
<1>1. PICK i \in Query(SubjectPid) :
        /\ times' = [times EXCEPT !.child = CreationTime(i)]
        /\ event' = [event EXCEPT !.timed = i]
  BY DEF ReadChildTime
<1>2. /\ UNCHANGED osVars /\ snap' = snap /\ events' = events
      /\ pc = "childTime" /\ pc' = "parentTime"
  BY DEF ReadChildTime
<1>3. i \in 0..Len(procs) /\ i \in Nat
  BY QueryFact DEF TypeOK
<1>4. CreationTime(i) \in Nat
  BY <1>3, CreationTimeType
<1>5. /\ event' \in Event /\ event'.subject = event.subject /\ event'.parent = event.parent
      /\ event'.child = event.child /\ event'.timed = i
      /\ times' \in [child : Nat, parent : Nat] /\ times'.child = CreationTime(i)
  BY <1>1, <1>3, <1>4 DEF TypeOK, Event
<1>6. TypeOK'
  BY <1>2, <1>5 DEF TypeOK, osVars
<1>7. SnapshotInv'
  BY <1>2, <1>5, EnrichFacts DEF SnapshotInv, ParentPid
<1>8. TimesInv'
  BY <1>2, <1>3, <1>5, EnrichFacts DEF TimesInv
<1>9. EventsInv'
  <2>1. /\ event'.user = event.user /\ event'.grandparent = event.grandparent
        /\ event'.path = event.path /\ event'.cmdline = event.cmdline
    BY <1>1 DEF TypeOK, Event
  <2>2. Alive(event.subject) => i \in {0, event.subject}
    BY <1>2, OnlyTheSubject
  <2>3. Alive(event.subject) =>
          /\ event.path \in {0, event.subject} /\ event.cmdline \in {0, event.subject}
          /\ event.child \in {0, event.subject}
    BY DEF EventsInv, SubjectInv, AboutTheSubject
  <2>4. event.parent = 0 /\ event.grandparent = 0
    BY <1>2 DEF EventsInv
  <2> QED
    BY <1>2, <1>5, <2>1, <2>2, <2>3, <2>4, FieldStep
<1> QED
  BY <1>2, <1>6, <1>7, <1>8, <1>9, EnrichFacts

(* A living process that holds the parent's PID and is no younger than the *)
(* child is the child's creator, and the one the snapshot saw.             *)
LEMMA OlderHolder ==
  ASSUME IInv, pc \in {"parentTime", "guard"},
         NEW h \in DOMAIN procs, Holds(h, ParentPid),
         ~ (procs[h].born > procs[event.child].born)
  PROVE  h = ParentOf(event.child) /\ snap[ParentPid] = h
<1> DEFINE c == event.child
<1>1. c \in DOMAIN procs /\ c # 1 /\ procs[c].ppid = ParentPid
  BY DEF IInv, SnapshotInv, ParentPid
<1>2. procs[h].born \in Nat /\ procs[c].born \in Nat /\ h \in Nat /\ c \in Nat
  BY <1>1, ProcType DEF IInv
<1>3. ~ (c < h)
  BY <1>1, <1>2 DEF IInv, ProcessesInv
<1>4. h # c
  BY <1>1 DEF IInv, ProcessesInv, Holds
<1>5. h \in 1..c - 1
  BY <1>1, <1>2, <1>3, <1>4 DEF IInv, TypeOK
<1>6. ParentPid \in Pid /\ h \in 1..c
  BY <1>1, <1>5, ProcType DEF IInv
<1>7. h = ParentOf(c)
  BY <1>1, <1>5 DEF IInv, ProcessesInv
<1>8. h = snap[ParentPid]
  BY <1>6 DEF IInv, SnapshotInv
<1> QED
  BY <1>7, <1>8

LEMMA ReadParentTimeInv == IInv /\ ReadParentTime => IInv'
<1> SUFFICES ASSUME IInv, ReadParentTime PROVE IInv'
  OBVIOUS
<1>1. PICK i \in Query(ParentPid) : times' = [times EXCEPT !.parent = CreationTime(i)]
  BY DEF ReadParentTime
<1>2. /\ UNCHANGED osVars /\ snap' = snap /\ events' = events /\ event' = event
      /\ pc = "parentTime" /\ pc' = "guard"
  BY DEF ReadParentTime
<1>3. i \in 0..Len(procs) /\ i \in Nat /\ (i # 0 => Holds(i, ParentPid))
  BY QueryFact DEF IInv, TypeOK
<1>4. CreationTime(i) \in Nat
  BY <1>3, CreationTimeType DEF IInv
<1>5. /\ times' \in [child : Nat, parent : Nat] /\ times'.child = times.child
      /\ times'.parent = CreationTime(i)
  BY <1>1, <1>4 DEF IInv, TypeOK
<1>6. TypeOK'
  BY <1>2, <1>5 DEF IInv, TypeOK, osVars
<1>7. SnapshotInv'
  BY <1>2, EnrichFacts DEF IInv, SnapshotInv, ParentPid
<1>8. ASSUME event.timed = event.child, times'.parent # 0, ~ (times'.parent > times'.child)
      PROVE  snap[ParentPid] = ParentOf(event.child)
  <2>1. i # 0 /\ i \in DOMAIN procs
    BY <1>3, <1>5, <1>8 DEF CreationTime, IInv, TypeOK
  <2>2. event.child \in DOMAIN procs /\ event.child # 0
    BY <1>2 DEF IInv, SnapshotInv, TypeOK
  <2>3. times'.child = procs[event.child].born /\ times'.parent = procs[i].born
    BY <1>2, <1>5, <1>8, <2>1, <2>2 DEF IInv, TimesInv, CreationTime
  <2> QED
    BY <1>2, <1>3, <1>8, <2>1, <2>3, OlderHolder
<1>9. TimesInv'
  BY <1>2, <1>5, <1>8, EnrichFacts DEF IInv, TimesInv, ParentPid
<1>10. EventsInv'
  BY <1>2, EnrichFacts DEF IInv, EventsInv, ParentInv, BuiltEvents
<1> QED
  BY <1>2, <1>6, <1>7, <1>9, <1>10, EnrichFacts DEF IInv

LEMMA RecordLineageInv == IInv /\ RecordLineage => IInv'
<1> SUFFICES ASSUME IInv, RecordLineage PROVE IInv'
  OBVIOUS
<1> DEFINE parent == snap[ParentPid]
           passes == times.child # 0 /\ times.parent # 0 /\ ~ (times.parent > times.child)
           e == [event EXCEPT !.parent = parent, !.grandparent = snap[procs[parent].ppid]]
<1>1. /\ UNCHANGED osVars /\ snap' = snap /\ events' = events /\ times' = times
      /\ pc = "guard" /\ pc' = "user" /\ event' = IF passes THEN e ELSE event
  BY DEF RecordLineage
<1>2. event.child \in DOMAIN procs /\ procs[event.child] \in Proc
  BY <1>1 DEF IInv, SnapshotInv, TypeOK
<1>3. parent \in DOMAIN procs /\ parent \in Nat
  <2>1. ParentPid \in Pid
    BY <1>2, ProcType DEF IInv, ParentPid
  <2> QED
    BY <1>1, <2>1 DEF IInv, SnapshotInv, TypeOK
<1>4. snap[procs[parent].ppid] \in Nat
  <2>1. procs[parent].ppid \in Pid
    BY <1>3, ProcType DEF IInv
  <2> QED
    BY <2>1 DEF IInv, TypeOK
<1>5. /\ event' \in Event /\ event'.subject = event.subject
      /\ event'.child = event.child /\ event'.timed = event.timed
      /\ event'.parent = (IF passes THEN parent ELSE event.parent)
  BY <1>1, <1>3, <1>4 DEF IInv, TypeOK, Event
<1>6. TypeOK'
  BY <1>1, <1>5 DEF IInv, TypeOK, osVars
<1>7. SnapshotInv' /\ TimesInv'
  BY <1>1 DEF SnapshotInv, TimesInv
<1>8. ParentInv(event)'
  BY <1>1, <1>2, <1>5, EnrichFacts DEF IInv, TimesInv, EventsInv, ParentInv
<1>9. SubjectInv(event)'
  <2> SUFFICES ASSUME Alive(event.subject)
               PROVE  AboutTheSubject(event)' /\ event'.timed \in {0, event.subject}
    BY <1>1, <1>5 DEF SubjectInv, Alive, osVars
  <2> DEFINE s == event.subject
             grandparent == ParentOf(ParentOf(s))
  <2>1. AboutTheSubject(event) /\ event.timed \in {0, s}
    BY DEF IInv, EventsInv, SubjectInv
  <2>2. CASE ~ passes
    BY <1>1, <2>1, <2>2, EnrichFacts DEF AboutTheSubject, Alive, osVars
  <2>3. CASE passes
    <3>1. s \in DOMAIN procs /\ event.child = s
      BY <1>2, <2>1 DEF AboutTheSubject, Alive, IInv, TypeOK
    <3>2. event.timed = s
      BY <1>1, <2>1, <2>3 DEF IInv, TimesInv, CreationTime
    <3>3. parent = ParentOf(s)
      BY <1>1, <2>3, <3>1, <3>2 DEF IInv, TimesInv
    <3>4. /\ parent \in 1..s /\ grandparent \in 1..s /\ grandparent \in DOMAIN procs
          /\ procs[parent].ppid = procs[grandparent].pid
      BY <1>2, <1>3, <3>1, <3>3 DEF IInv, ProcessesInv, TypeOK
    <3>5. Alive(grandparent) => snap[procs[parent].ppid] = grandparent
      <4>1. procs[parent].ppid \in Pid
        BY <1>3, ProcType DEF IInv
      <4> QED
        BY <1>1, <3>1, <3>4, <4>1 DEF Holds, IInv, SnapshotInv
    <3>6. /\ event'.path = event.path /\ event'.cmdline = event.cmdline
          /\ event'.user = event.user /\ event'.grandparent = snap[procs[parent].ppid]
      BY <1>1, <1>3, <1>4, <2>3 DEF IInv, TypeOK, Event
    <3> HIDE DEF parent, passes, e
    <3> QED
      BY <1>1, <1>5, <2>1, <2>3, <3>3, <3>5, <3>6, EnrichFacts DEF AboutTheSubject, Alive, osVars
  <2> QED
    BY <2>2, <2>3
<1>10. EventsInv'
  BY <1>1, <1>5, <1>8, <1>9, EnrichFacts DEF IInv, EventsInv, ParentInv, BuiltEvents
<1> QED
  BY <1>1, <1>6, <1>7, <1>10, EnrichFacts DEF IInv

LEMMA ReadUserInv == IInv /\ ReadUser => IInv'
<1> SUFFICES ASSUME IInv, ReadUser PROVE IInv'
  OBVIOUS
<1>1. PICK i \in Query(SubjectPid) : events' = Append(events, [event EXCEPT !.user = i])
  BY DEF ReadUser
<1> DEFINE e == [event EXCEPT !.user = i]
<1>2. /\ UNCHANGED osVars /\ pc = "user" /\ pc' = "idle" /\ event' = EventOf(0)
      /\ snap' = [p \in Pid |-> 0] /\ times' = [child |-> 0, parent |-> 0]
  BY DEF ReadUser
<1>3. i \in Nat
  BY QueryFact DEF IInv
<1>4. e \in Event /\ e.parent = event.parent /\ e.child = event.child /\ e.timed = event.timed
  BY <1>3 DEF IInv, TypeOK, Event
<1> HIDE DEF e
<1>5. /\ events' \in Seq(Event) /\ Len(events') = Len(events) + 1
      /\ BuiltEvents' = BuiltEvents \cup {e}
  <2>1. events \in Seq(Event) /\ DOMAIN events = 1..Len(events)
    BY DEF IInv, TypeOK
  <2> QED
    BY <1>1, <1>4, <2>1, AppendFacts DEF BuiltEvents, e
<1>6. Len(events) < MaxEvents
  BY <1>2 DEF IInv, EventsInv
<1>7. TypeOK'
  <2>1. event' \in Event /\ times' \in [child : Nat, parent : Nat] /\ pc' = "idle"
    BY <1>2 DEF EventOf, Event
  <2>2. Len(events') <= MaxEvents /\ events' \in Seq(Event)
    BY <1>5, <1>6, EnrichmentAssumption DEF IInv, TypeOK
  <2>3. snap' \in [Pid -> 0..Len(procs)]
    BY <1>2 DEF IInv, TypeOK
  <2> QED
    BY <1>2, <2>1, <2>2, <2>3 DEF IInv, TypeOK, osVars
<1>8. SnapshotInv' /\ TimesInv'
  BY <1>2 DEF SnapshotInv, TimesInv
<1>9. \A x : ParentInv(x)' <=> ParentInv(x)
  BY <1>2, EnrichFacts DEF ParentInv
<1>10. ParentInv(EventOf(0)) /\ ParentInv(e) /\ EventOf(0).parent = 0
  BY <1>4 DEF ParentInv, EventOf, IInv, EventsInv
<1>11. SubjectInv(e)
  <2>1. /\ e.subject = event.subject /\ e.path = event.path /\ e.cmdline = event.cmdline
        /\ e.grandparent = event.grandparent /\ e.user = i
    BY <1>3 DEF e, IInv, TypeOK, Event
  <2>2. Alive(event.subject) => i \in {0, event.subject}
    BY <1>2, OnlyTheSubject
  <2> QED
    BY <1>4, <2>1, <2>2 DEF IInv, EventsInv, SubjectInv, AboutTheSubject
<1>12. EventsInv'
  <2>1. e.subject \in DOMAIN procs
    BY <1>2, <1>3 DEF e, IInv, TypeOK, EventsInv, Event
  <2>2. EventOf(0).subject = 0 /\ EventOf(0).parent = 0 /\ EventOf(0).grandparent = 0
    BY DEF EventOf
  <2>3. SubjectInv(EventOf(0))
    BY <2>2 DEF SubjectInv, Alive, IInv, TypeOK
  <2>4. \A x : SubjectInv(x)' <=> SubjectInv(x)
    BY <1>2, EnrichFacts
  <2>5. SubjectInv(event)'
    BY <1>2, <2>2 DEF SubjectInv, Alive, IInv, TypeOK, osVars
  <2> QED
    BY <1>2, <1>5, <1>9, <1>10, <1>11, <2>1, <2>2, <2>4, <2>5, EnrichFacts
    DEF IInv, EventsInv, ParentInv
<1> QED
  BY <1>2, <1>7, <1>8, <1>12, EnrichFacts DEF IInv

LEMMA StepInv == FineClock /\ IInv /\ [Next]_vars => IInv'
<1> SUFFICES ASSUME FineClock, IInv, [Next]_vars PROVE IInv'
  OBVIOUS
<1>1. CASE UNCHANGED vars
  <2>1. /\ UNCHANGED osVars /\ procs' = procs /\ clock' = clock /\ pc' = pc /\ event' = event
        /\ snap' = snap /\ times' = times /\ events' = events
    BY <1>1 DEF vars, osVars
  <2>2. TypeOK'
    BY <2>1 DEF IInv, TypeOK
  <2>3. SnapshotInv'
    BY <2>1, EnrichFacts DEF IInv, SnapshotInv, ParentPid
  <2>4. TimesInv'
    BY <2>1, EnrichFacts DEF IInv, TimesInv, ParentPid
  <2>5. EventsInv'
    BY <2>1, EnrichFacts DEF IInv, EventsInv, ParentInv, BuiltEvents
  <2> QED
    BY <2>1, <2>2, <2>3, <2>4, <2>5, EnrichFacts DEF IInv
<1>2. CASE \E i \in 1..MaxProcs, p \in Pid : Spawn(i, p)
  BY <1>2, SpawnInv
<1>3. CASE \E i \in 1..MaxProcs : Exit(i)
  BY <1>3, ExitInv
<1>4. CASE \E i \in 1..MaxProcs : Begin(i)
  BY <1>4, BeginInv
<1>5. CASE Enrich
  BY <1>5, ReadPathInv, SnapshotStepInv, ReadChildTimeInv, ReadParentTimeInv,
     RecordLineageInv, ReadUserInv DEF Enrich
<1> QED
  BY <1>1, <1>2, <1>3, <1>4, <1>5 DEF Next

(* Every reachable state satisfies the invariant, on a fine clock.         *)
THEOREM InvCorrect ==
  ASSUME FineClock
  PROVE  Spec => []IInv
<1>1. IInv /\ [Next]_vars => IInv'
  BY FineClock, StepInv
<1> QED
  BY <1>1, InitInv, PTL DEF Spec

(* The PID-reuse guard of get_process_lineage: on a fine clock a parent is *)
(* recorded only if it created the process the snapshot found, provided    *)
(* the child's own PID was not reused before its creation time was read.   *)
THEOREM GuardedParentCorrect ==
  ASSUME FineClock
  PROVE  Spec => []GuardedParent
<1>1. IInv => GuardedParent
  BY DEF IInv, EventsInv, ParentInv, GuardedParent
<1> QED
  BY <1>1, InvCorrect, FineClock, PTL

(* The event of a process that still runs is about that process in every   *)
(* field, although each was read by asking for its PID anew: its recorded  *)
(* parent is its creator, and while that one's creator runs nobody else is *)
(* named as its grandparent.                                               *)
THEOREM SurvivorDescribedCorrect ==
  ASSUME FineClock
  PROVE  Spec => []SurvivorDescribed
<1>1. IInv => SurvivorDescribed
  BY DEF IInv, EventsInv, SubjectInv, SurvivorDescribed
<1> QED
  BY <1>1, InvCorrect, FineClock, PTL
=============================================================================
