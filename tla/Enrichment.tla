----------------------------- MODULE Enrichment -----------------------------
(***************************************************************************)
(* build_process_event: the agent turns the PID of a process creation into *)
(* an event, by asking the operating system about that PID once per field  *)
(* while processes start and exit underneath it and PIDs are reused.       *)
(*                                                                         *)
(* A process is identified by its position in procs; 0 stands for "none"   *)
(* (std::nullopt, an unresolved field).  A field of an event is the        *)
(* process it was read from.  File hashes and the signature are taken from *)
(* the file the path names and so belong to the path.                      *)
(***************************************************************************)
EXTENDS Naturals, Sequences

CONSTANTS
  Pid,       \* the PIDs the system hands out
  MaxProcs,  \* bound: processes ever started
  MaxEvents, \* bound: creations the agent enriches
  Tick       \* by how much the creation clock can advance between two creations

ASSUME EnrichmentAssumption ==
  Pid # {} /\ MaxProcs \in Nat /\ MaxEvents \in Nat /\ Tick \subseteq Nat

VARIABLES
  procs,   \* every process ever started
  clock,   \* the creation time the next process gets
  pc,      \* what build_process_event reads next
  event,   \* the event being built
  snap,    \* snapshot_processes: who held each PID
  times,   \* creation times read for the subject's and its parent's PID
  events   \* the events built so far

osVars == <<procs, clock>>
vars == <<procs, clock, pc, event, snap, times, events>>

Proc == [pid : Pid, ppid : Pid, parent : Nat, born : Nat, up : BOOLEAN]

(* subject is the process whose creation was reported, child the one the   *)
(* snapshot found under its PID and timed the one whose creation time was  *)
(* read; the agent knows none of the three.                                *)
EventOf(subject) ==
  [subject |-> subject, path |-> 0, cmdline |-> 0, user |-> 0,
   child |-> 0, timed |-> 0, parent |-> 0, grandparent |-> 0]

Event == [subject : Nat, path : Nat, cmdline : Nat, user : Nat,
          child : Nat, timed : Nat, parent : Nat, grandparent : Nat]

TypeOK ==
  /\ procs \in Seq(Proc) /\ Len(procs) <= MaxProcs + 1 /\ clock \in Nat
  /\ pc \in {"idle", "path", "cmdline", "snapshot", "childTime", "parentTime", "guard", "user"}
  /\ event \in Event
  /\ snap \in [Pid -> 0..Len(procs)]
  /\ times \in [child : Nat, parent : Nat]
  /\ events \in Seq(Event) /\ Len(events) <= MaxEvents

(* The process that holds PID p now.                                       *)
Alive(i) == i \in DOMAIN procs /\ procs[i].up
Holds(i, p) == Alive(i) /\ procs[i].pid = p
Holder(p) ==
  IF \E i \in DOMAIN procs : Holds(i, p)
    THEN CHOOSE i \in DOMAIN procs : Holds(i, p)
    ELSE 0

(* The system starts with one process that outlives the model.             *)
Init ==
  /\ \E p \in Pid : procs = <<[pid |-> p, ppid |-> p, parent |-> 1, born |-> 1, up |-> TRUE]>>
  /\ clock = 2 /\ pc = "idle" /\ event = EventOf(0) /\ events = << >>
  /\ snap = [p \in Pid |-> 0] /\ times = [child |-> 0, parent |-> 0]

-----------------------------------------------------------------------------
(* The operating system.                                                   *)
Spawn(parent, p) ==
  /\ Len(procs) < MaxProcs /\ Alive(parent) /\ Holder(p) = 0
  /\ procs' = Append(procs, [pid |-> p, ppid |-> procs[parent].pid,
                             parent |-> parent, born |-> clock, up |-> TRUE])
  /\ \E t \in Tick : clock' = clock + t
  /\ UNCHANGED <<pc, event, snap, times, events>>

Exit(i) ==
  /\ i # 1 /\ Alive(i)
  /\ procs' = [procs EXCEPT ![i].up = FALSE]
  /\ UNCHANGED <<clock, pc, event, snap, times, events>>

-----------------------------------------------------------------------------
(* The agent.  Every query opens the PID anew and may find no process, one *)
(* it may not open, or another process than the one reported.              *)
SubjectPid == procs[event.subject].pid

Query(p) == {0, Holder(p)}

(* on_event delivers a creation, some time after it happened.              *)
Begin(i) ==
  /\ pc = "idle" /\ i \in DOMAIN procs /\ i # 1 /\ Len(events) < MaxEvents
  /\ event' = EventOf(i) /\ pc' = "path"
  /\ UNCHANGED <<osVars, snap, times, events>>

ReadPath ==
  /\ pc = "path"
  /\ \E i \in Query(SubjectPid) : event' = [event EXCEPT !.path = i]
  /\ pc' = "cmdline"
  /\ UNCHANGED <<osVars, snap, times, events>>

ReadCmdline ==
  /\ pc = "cmdline"
  /\ \E i \in Query(SubjectPid) : event' = [event EXCEPT !.cmdline = i]
  /\ pc' = "snapshot"
  /\ UNCHANGED <<osVars, snap, times, events>>

(* snapshot_processes, and the two lookups in it.                          *)
Snapshot ==
  /\ pc = "snapshot"
  /\ \E taken \in {[p \in Pid |-> 0], [p \in Pid |-> Holder(p)]} :
       LET child == taken[SubjectPid] IN
       /\ snap' = taken
       /\ event' = [event EXCEPT !.child = child]
       /\ pc' = IF child = 0 THEN "user"
                ELSE IF taken[procs[child].ppid] = 0 THEN "user" ELSE "childTime"
  /\ UNCHANGED <<osVars, times, events>>

ParentPid == procs[event.child].ppid

CreationTime(i) == IF i = 0 THEN 0 ELSE procs[i].born

ReadChildTime ==
  /\ pc = "childTime"
  /\ \E i \in Query(SubjectPid) :
       /\ times' = [times EXCEPT !.child = CreationTime(i)]
       /\ event' = [event EXCEPT !.timed = i]
  /\ pc' = "parentTime"
  /\ UNCHANGED <<osVars, snap, events>>

ReadParentTime ==
  /\ pc = "parentTime"
  /\ \E i \in Query(ParentPid) : times' = [times EXCEPT !.parent = CreationTime(i)]
  /\ pc' = "guard"
  /\ UNCHANGED <<osVars, event, snap, events>>

UnguardedLineage ==  \* without the creation-time comparison
  /\ pc = "guard" /\ pc' = "user"
  /\ LET parent == snap[ParentPid] IN
     event' = [event EXCEPT !.parent = parent, !.grandparent = snap[procs[parent].ppid]]
  /\ UNCHANGED <<osVars, snap, times, events>>

(* The PID-reuse guard.  The parent's name, and the grandparent's PID and  *)
(* name, come from the snapshot.                                           *)
RecordLineage ==
  /\ pc = "guard" /\ pc' = "user"
  /\ LET parent == snap[ParentPid] IN
     event' = IF times.child # 0 /\ times.parent # 0 /\ ~ (times.parent > times.child)
                THEN [event EXCEPT !.parent = parent,
                                   !.grandparent = snap[procs[parent].ppid]]
                ELSE event
  /\ UNCHANGED <<osVars, snap, times, events>>

ReadUserOfParent ==  \* with the wrong PID
  /\ pc = "user"
  /\ \E i \in Query(procs[event.subject].ppid) : events' = Append(events, [event EXCEPT !.user = i])
  /\ pc' = "idle" /\ event' = EventOf(0)
  /\ snap' = [p \in Pid |-> 0] /\ times' = [child |-> 0, parent |-> 0]
  /\ UNCHANGED osVars

(* get_process_user, the last question about the process.                  *)
ReadUser ==
  /\ pc = "user"
  /\ \E i \in Query(SubjectPid) : events' = Append(events, [event EXCEPT !.user = i])
  /\ pc' = "idle" /\ event' = EventOf(0)
  /\ snap' = [p \in Pid |-> 0] /\ times' = [child |-> 0, parent |-> 0]
  /\ UNCHANGED osVars

Enrich ==
  \/ ReadPath \/ ReadCmdline \/ Snapshot
  \/ ReadChildTime \/ ReadParentTime \/ RecordLineage \/ ReadUser

Next ==
  \/ \E i \in 1..MaxProcs, p \in Pid : Spawn(i, p)
  \/ \E i \in 1..MaxProcs : Exit(i) \/ Begin(i)
  \/ Enrich

Spec == Init /\ [][Next]_vars

-----------------------------------------------------------------------------
BuiltEvents == {events[k] : k \in DOMAIN events}

ParentOf(i) == procs[i].parent

(* The guard of get_process_lineage: if the process whose creation time    *)
(* was read is the one the snapshot saw, a recorded parent is the process  *)
(* that created it, however the parent's PID was reused meanwhile.         *)
(* Creation times must tell two creations apart.                           *)
GuardedParent ==
  \A e \in BuiltEvents :
    e.parent # 0 /\ e.timed = e.child => e.parent = ParentOf(e.child)

(* The event of a process that still runs when its event is complete is    *)
(* about that process in every field, and a grandparent that still runs is *)
(* the only one it can name.                                               *)
AboutTheSubject(e) ==
  /\ e.path \in {0, e.subject} /\ e.cmdline \in {0, e.subject}
  /\ e.user \in {0, e.subject} /\ e.child \in {0, e.subject}
  /\ e.parent \in {0, ParentOf(e.subject)}
  /\ e.grandparent # 0 /\ Alive(ParentOf(ParentOf(e.subject))) =>
       e.grandparent = ParentOf(ParentOf(e.subject))

SurvivorDescribed == \A e \in BuiltEvents : Alive(e.subject) => AboutTheSubject(e)

-----------------------------------------------------------------------------
(* The inductive invariant behind both.  Of the processes that had the PID *)
(* a process names as its parent's, only its creator was alive when it was *)
(* created; the others that are no younger are gone.                       *)
ProcessesInv ==
  /\ Len(procs) >= 1 /\ procs[1].up
  /\ \A i, j \in DOMAIN procs :
       procs[i].up /\ procs[j].up /\ procs[i].pid = procs[j].pid => i = j
  /\ \A i \in DOMAIN procs : 0 < procs[i].born /\ procs[i].born < clock
  /\ \A i, j \in DOMAIN procs : i < j => procs[i].born < procs[j].born
  /\ \A i \in DOMAIN procs :
       ParentOf(i) \in 1..i /\ procs[i].ppid = procs[ParentOf(i)].pid
  /\ \A i \in DOMAIN procs : i # 1 =>
       /\ procs[i].pid # procs[i].ppid /\ procs[i].pid # procs[1].pid
       /\ \A h \in 1..i - 1 : Holds(h, procs[i].ppid) => h = ParentOf(i)

(* Of the processes no younger than the child, the snapshot's holder of a  *)
(* PID is the only one that can still hold it.                             *)
SnapshotInv ==
  pc \in {"childTime", "parentTime", "guard"} =>
    /\ event.child \in DOMAIN procs /\ event.child # 1
    /\ snap[ParentPid] # 0
    /\ \A p \in Pid : \A h \in 1..event.child : Holds(h, p) => h = snap[p]

(* What the comparison of the creation times establishes.                  *)
TimesInv ==
  /\ pc \in {"parentTime", "guard"} =>
       /\ event.timed \in 0..Len(procs)
       /\ times.child = CreationTime(event.timed)
  /\ pc = "guard" /\ event.timed = event.child
       /\ times.parent # 0 /\ ~ (times.parent > times.child) =>
       snap[ParentPid] = ParentOf(event.child)

ParentInv(e) ==
  e.parent # 0 =>
    /\ e.child \in DOMAIN procs
    /\ e.timed = e.child => e.parent = ParentOf(e.child)

(* While the subject runs, nobody else can answer for its PID.             *)
SubjectInv(e) ==
  Alive(e.subject) => AboutTheSubject(e) /\ e.timed \in {0, e.subject}

EventsInv ==
  /\ pc # "idle" =>
       event.subject \in DOMAIN procs /\ event.subject # 1 /\ Len(events) < MaxEvents
  /\ pc = "idle" => event.subject = 0
  /\ pc # "user" => event.parent = 0 /\ event.grandparent = 0
  /\ ParentInv(event) /\ \A e \in BuiltEvents : ParentInv(e)
  /\ SubjectInv(event)
  /\ \A e \in BuiltEvents : e.subject \in DOMAIN procs /\ SubjectInv(e)

IInv == TypeOK /\ ProcessesInv /\ SnapshotInv /\ TimesInv /\ EventsInv

-----------------------------------------------------------------------------
(* What the documents say and the program does not keep.                   *)

(* What README.md promises: "a recycled PID never gets attributed to the   *)
(* wrong parent".  The child's own PID can be reused between the snapshot  *)
(* and the reading of its creation time.                                   *)
NeverWrongParent ==
  \A e \in BuiltEvents : e.parent # 0 => e.parent = ParentOf(e.child)
=============================================================================
