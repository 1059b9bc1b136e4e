------------------------------ MODULE Delivery -------------------------------
(***************************************************************************)
(* The live path of an event: on_event writes it to the local log, then    *)
(* send_event_http posts it to the console and waits for the answer, all   *)
(* on the one thread that receives the machine's process creations.  The   *)
(* console's POST /api/ingest stores it, statement by statement.           *)
(*                                                                         *)
(* The network loses requests and answers, the console crashes and comes   *)
(* back, and an agent that gives up does not recall what it sent.          *)
(***************************************************************************)
EXTENDS Naturals, Sequences, FiniteSets

CONSTANTS
  MaxEvents,   \* bound: process creations
  Hits,        \* Hits[e]: how many rules match event e
  MaxCrashes,  \* bound: console crashes
  MaxFaults    \* bound: log opens and database statements that fail

Event == 1..MaxEvents

ASSUME DeliveryAssumption ==
  /\ {MaxEvents, MaxCrashes, MaxFaults} \subseteq Nat
  /\ Hits \in [Event -> Nat]

VARIABLES
  config,      \* the agent's configured key: none, the console's, or another
  emitted,     \* events 1..emitted have been built
  pc,          \* what the agent's thread waits for
  logged,      \* events in the local log
  inbox,       \* requests that have reached the console
  answers,     \* answers on their way to the agent
  con,         \* what the console does: one request at a time
  job,         \* the event it stores, its row and the status to answer
  store,       \* the events table by id, with its alerts counted
  accepted,    \* events answered with 202
  crashes, faults

agentVars == <<config, emitted, pc, logged>>
conVars   == <<con, job, store, accepted>>
vars == <<agentVars, inbox, answers, conVars, crashes, faults>>

Row == [ev : Event, alerts : Nat]
NoJob == [ev |-> 0, row |-> 0, status |-> 0]

TypeOK ==
  /\ config \in {"none", "right", "wrong"}
  /\ emitted \in 0..MaxEvents /\ logged \subseteq Event
  /\ pc \in {"idle", "append", "resolve", "connect", "send", "receive"}
  /\ inbox \subseteq Event /\ answers \subseteq Event
  /\ con \in {"down", "ready", "insert", "alerts", "reply"}
  /\ job \in [ev : 0..MaxEvents, row : Nat, status : {0, 202, 400, 401}]
  /\ store \in Seq(Row) /\ accepted \subseteq Event
  /\ crashes \in 0..MaxCrashes /\ faults \in 0..MaxFaults

Init ==
  /\ config \in {"none", "right", "wrong"}
  /\ emitted = 0 /\ pc = "idle" /\ logged = {}
  /\ inbox = {} /\ answers = {}
  /\ con = "down" /\ job = NoJob /\ store = << >> /\ accepted = {}
  /\ crashes = 0 /\ faults = 0

-----------------------------------------------------------------------------
(* The agent.  get_network_config reads its config once: without a valid   *)
(* one nothing is pushed.                                                  *)
AfterLog == IF config = "none" THEN "idle" ELSE "resolve"

Capture ==
  /\ pc = "idle" /\ emitted < MaxEvents
  /\ emitted' = emitted + 1 /\ pc' = "append"
  /\ UNCHANGED <<config, logged, inbox, answers, conVars, crashes, faults>>

AppendUnlogged ==  \* pushed without having been logged
  /\ pc = "append" /\ pc' = AfterLog
  /\ UNCHANGED <<config, emitted, logged, inbox, answers, conVars, crashes, faults>>

(* append_event_line returns normally also when it cannot open the file.   *)
AppendLine ==
  /\ pc = "append" /\ pc' = AfterLog
  /\ \/ logged' = logged \cup {emitted} /\ UNCHANGED faults
     \/ faults < MaxFaults /\ faults' = faults + 1 /\ UNCHANGED logged
  /\ UNCHANGED <<config, emitted, inbox, answers, conVars, crashes>>

(* send_event_http gives up: any call failed, or its timeout passed.  The  *)
(* time to resolve a name is not limited (0), so only the resolver can end *)
(* that wait.                                                              *)
GiveUp(at) ==
  /\ pc = at /\ pc' = "idle"
  /\ answers' = answers \ {emitted}
  /\ UNCHANGED <<config, emitted, logged, inbox, conVars, crashes, faults>>

Resolve ==
  \/ GiveUp("resolve")
  \/ /\ pc = "resolve" /\ pc' = "connect"
     /\ UNCHANGED <<config, emitted, logged, inbox, answers, conVars, crashes, faults>>

Connect ==
  \/ GiveUp("connect")
  \/ /\ pc = "connect" /\ pc' = "send" /\ con # "down"
     /\ UNCHANGED <<config, emitted, logged, inbox, answers, conVars, crashes, faults>>

(* The request goes out; it may get lost, or arrive after all although the *)
(* agent gave up sending it.                                               *)
Send ==
  /\ pc = "send" /\ pc' \in {"receive", "idle"}
  /\ inbox' \in {inbox, IF con = "down" THEN inbox ELSE inbox \cup {emitted}}
  /\ UNCHANGED <<config, emitted, logged, answers, conVars, crashes, faults>>

ReceiveOrWait ==  \* without a receive timeout
  /\ pc = "receive" /\ emitted \in answers
  /\ pc' = "idle" /\ answers' = answers \ {emitted}
  /\ UNCHANGED <<config, emitted, logged, inbox, conVars, crashes, faults>>

ReceiveOrRetry ==  \* posts the event again when no answer comes
  /\ pc = "receive"
  /\ IF emitted \in answers THEN pc' = "idle" ELSE pc' = "resolve"
  /\ answers' = answers \ {emitted}
  /\ UNCHANGED <<config, emitted, logged, inbox, conVars, crashes, faults>>

(* The answer, which the agent ignores, or no answer for five seconds.     *)
Receive == GiveUp("receive")

-----------------------------------------------------------------------------
(* The console.                                                            *)
ConsoleStart ==
  /\ con = "down" /\ con' = "ready"
  /\ UNCHANGED <<agentVars, inbox, answers, job, store, accepted, crashes, faults>>

(* Connections die with the process; rows stay.                            *)
ConsoleCrash ==
  /\ con # "down" /\ crashes < MaxCrashes
  /\ con' = "down" /\ job' = NoJob /\ crashes' = crashes + 1
  /\ inbox' = {} /\ answers' = {}
  /\ UNCHANGED <<agentVars, store, accepted, faults>>

(* The handler of one request: 401 for any key but the console's.          *)
(* Requests on different connections are taken in any order.               *)
TakeRequest(e) ==
  /\ con = "ready" /\ e \in inbox
  /\ inbox' = inbox \ {e}
  /\ IF config = "right"
       THEN con' = "insert" /\ job' = [NoJob EXCEPT !.ev = e]
       ELSE con' = "reply" /\ job' = [NoJob EXCEPT !.ev = e, !.status = 401]
  /\ UNCHANGED <<agentVars, answers, store, accepted, crashes, faults>>

InsertEvent ==
  /\ con = "insert"
  /\ store' = Append(store, [ev |-> job.ev, alerts |-> 0])
  /\ job' = [job EXCEPT !.row = Len(store) + 1]
  /\ con' = "alerts"
  /\ UNCHANGED <<agentVars, inbox, answers, accepted, crashes, faults>>

InsertAlert ==
  /\ con = "alerts" /\ store[job.row].alerts < Hits[job.ev]
  /\ store' = [store EXCEPT ![job.row].alerts = @ + 1]
  /\ UNCHANGED <<agentVars, inbox, answers, con, job, accepted, crashes, faults>>

StoredAnyAlerts ==  \* answers before the last alert is stored
  /\ con = "alerts"
  /\ job' = [job EXCEPT !.status = 202] /\ con' = "reply"
  /\ UNCHANGED <<agentVars, inbox, answers, store, accepted, crashes, faults>>

Stored ==
  /\ con = "alerts" /\ store[job.row].alerts = Hits[job.ev]
  /\ job' = [job EXCEPT !.status = 202] /\ con' = "reply"
  /\ UNCHANGED <<agentVars, inbox, answers, store, accepted, crashes, faults>>

(* A statement throws: 400, whatever has been stored by then.              *)
IngestFails ==
  /\ \/ con = "insert"
     \/ con = "alerts" /\ store[job.row].alerts < Hits[job.ev]
  /\ faults < MaxFaults /\ faults' = faults + 1
  /\ job' = [job EXCEPT !.status = 400] /\ con' = "reply"
  /\ UNCHANGED <<agentVars, inbox, answers, store, accepted, crashes>>

(* An answer nobody waits for any more is dropped.                         *)
Reply ==
  /\ con = "reply" /\ con' = "ready" /\ job' = NoJob
  /\ accepted' = IF job.status = 202 THEN accepted \cup {job.ev} ELSE accepted
  /\ answers' = IF pc = "receive" /\ emitted = job.ev THEN answers \cup {job.ev} ELSE answers
  /\ UNCHANGED <<agentVars, inbox, store, crashes, faults>>

Handler == InsertEvent \/ InsertAlert \/ Stored \/ IngestFails \/ Reply \/ \E e \in Event : TakeRequest(e)

Next ==
  \/ Capture \/ AppendLine \/ Resolve \/ Connect \/ Send \/ Receive
  \/ ConsoleStart \/ ConsoleCrash \/ Handler

Spec == Init /\ [][Next]_vars

(* The agent's calls return: those of the network within their timeouts.   *)
(* Nothing is assumed of the console.                                      *)
AgentFairness == WF_vars(AppendLine) /\ WF_vars(Connect) /\ WF_vars(Send) /\ WF_vars(Receive)

-----------------------------------------------------------------------------
(* An event is stored at most once over HTTP, whichever answer was lost or *)
(* late: nothing is posted twice.                                          *)
PushedOnce == \A i, j \in DOMAIN store : store[i].ev = store[j].ev => i = j

(* A 202 stands for a stored event with all its alerts, across crashes and *)
(* failing statements.                                                     *)
AcceptedIsComplete ==
  \A e \in accepted : \E i \in DOMAIN store : store[i] = [ev |-> e, alerts |-> Hits[e]]

(* Why: an event is on its way to the console at one place at a time.      *)
HasRow(e) == \E i \in DOMAIN store : store[i].ev = e

OnePlace ==
  /\ \A e \in inbox : e <= emitted /\ job.ev # e /\ ~ HasRow(e)
  /\ job.ev <= emitted /\ \A i \in DOMAIN store : store[i].ev <= emitted
  /\ pc \in {"append", "resolve", "connect", "send"} =>
       emitted > 0 /\ emitted \notin inbox /\ job.ev # emitted /\ ~ HasRow(emitted)

JobInv ==
  /\ con \in {"insert", "alerts"} => job.ev # 0
  /\ con = "insert" => ~ HasRow(job.ev)
  /\ con = "alerts" => job.row \in DOMAIN store /\ store[job.row].ev = job.ev
  /\ con = "reply" => job.ev # 0
  /\ con = "reply" /\ job.status = 202 =>
       \E i \in DOMAIN store : store[i] = [ev |-> job.ev, alerts |-> Hits[job.ev]]
  /\ con \in {"down", "ready"} => job = NoJob

IInv == TypeOK /\ PushedOnce /\ AcceptedIsComplete /\ OnePlace /\ JobInv

(* "The local JSONL log is the durable record regardless": of all that was *)
(* posted to a console, the agent's log lacks no more events than faults   *)
(* there were, so only an event whose own append failed.                   *)
LogComesFirst ==
  Cardinality((inbox \cup {store[i].ev : i \in DOMAIN store}) \ logged) <= faults

(* Why: an event leaves the agent only after the attempt to write its line.*)
Unlogged == {e \in 1..emitted : e \notin logged /\ ~ (pc = "append" /\ e = emitted)}

LoggedInv == Cardinality(Unlogged) <= faults

(* "A dead/unreachable console must never hang the sensor: short timeouts  *)
(* (resolve, connect, send, receive)": the thread gets back to the next    *)
(* process creation, whatever the console does and wherever it crashes,    *)
(* unless a name lookup never returns.  That one has no time limit: the 0  *)
(* passed for it means none, against the comment, and nothing is assumed   *)
(* of it.                                                                  *)
OnlyLookupHangs == []<>(pc # "resolve") => (pc # "idle" ~> pc = "idle")
=============================================================================
