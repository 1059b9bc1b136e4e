-------------------------------- MODULE Ingest --------------------------------
(***************************************************************************)
(* The two ways of an event into one database: pushed by the agent         *)
(* (Delivery), and read from the agent's log, which an operator copies to  *)
(* the console ("Offline copy").  A copy empties the console's file and    *)
(* fills it again while the console ticks.                                 *)
(*                                                                         *)
(* Requests and ticks share Node's one thread: a tick runs to its end,     *)
(* statement by statement, while requests wait.  The file is measured in   *)
(* lines here (Tail has its bytes); the rows that ticks write are kept     *)
(* apart from those of requests, so that Delivery's store stays what it    *)
(* is.                                                                     *)
(***************************************************************************)
EXTENDS Delivery

CONSTANT MaxCopies  \* bound: copies of the log begun

ASSUME IngestAssumption == MaxCopies \in Nat

VARIABLES
  log,       \* the agent's log, line by line: the events of logged
  target,    \* lines a copy of it will have when it is complete
  lines,     \* lines the console's events.jsonl has
  offset,    \* ingest_state: lines read
  tick,      \* what the tick does: reads the lines base + 1..size it planned to
  imported,  \* the events table by id, rows stored by ticks
  copies,
  fails      \* statements of ticks that failed

fileVars == <<log, target, lines, copies>>
tickVars == <<offset, tick, imported>>
ingestVars == <<fileVars, tickVars, fails>>
allVars == <<vars, ingestVars>>

NoTick == [pc |-> "idle", base |-> 0, size |-> 0, pos |-> 0, end |-> 0]

IngestTypeOK ==
  /\ log \in Seq(Event) /\ target \in 0..Len(log) /\ lines \in 0..target
  /\ offset \in 0..Len(log)
  /\ tick \in [pc : {"idle", "read", "lines", "alerts"},
               base : Nat, size : Nat, pos : Nat, end : Nat]
  /\ imported \in Seq(Row) /\ copies \in 0..MaxCopies /\ fails \in 0..MaxFaults

IngestInit ==
  /\ Init
  /\ log = << >> /\ target = 0 /\ lines = 0 /\ offset = 0 /\ tick = NoTick
  /\ imported = << >> /\ copies = 0 /\ fails = 0

-----------------------------------------------------------------------------
(* The operator copies the log: the file is emptied, then filled.          *)
BeginCopy ==
  /\ lines = target /\ copies < MaxCopies /\ log # << >>
  /\ target' = Len(log) /\ lines' = 0 /\ copies' = copies + 1
  /\ UNCHANGED <<vars, log, tickVars, fails>>

CopyLine ==
  /\ lines < target /\ lines' = lines + 1
  /\ UNCHANGED <<vars, log, target, copies, tickVars, fails>>

-----------------------------------------------------------------------------
(* The tick.  It plans by the file's size and the stored offset ...        *)
StartsAt == IF lines < offset THEN 0 ELSE offset

BeginTick ==
  /\ con = "ready" /\ tick = NoTick /\ StartsAt < lines
  /\ tick' = [NoTick EXCEPT !.pc = "read", !.base = StartsAt, !.size = lines]
  /\ UNCHANGED <<vars, fileVars, offset, imported, fails>>

(* ... reads what is there of it by then ...                               *)
ReadFile ==
  /\ tick.pc = "read"
  /\ tick' = [tick EXCEPT !.pc = "lines", !.pos = tick.base,
                          !.end = IF lines < tick.size THEN lines ELSE tick.size]
  /\ UNCHANGED <<vars, fileVars, offset, imported, fails>>

(* ... and stores line after line by ingestEvent, like a request.          *)
LinesLeft == tick.pc = "lines" /\ tick.pos < tick.end

ImportEvent ==
  /\ LinesLeft
  /\ imported' = Append(imported, [ev |-> log[tick.pos + 1], alerts |-> 0])
  /\ tick' = [tick EXCEPT !.pc = IF Hits[log[tick.pos + 1]] = 0 THEN "lines" ELSE "alerts",
                          !.pos = @ + 1]
  /\ UNCHANGED <<vars, fileVars, offset, fails>>

ImportAlert ==
  LET row == Len(imported)
      alerts == imported[row].alerts + 1
  IN /\ tick.pc = "alerts"
     /\ imported' = [imported EXCEPT ![row].alerts = alerts]
     /\ tick' = [tick EXCEPT !.pc = IF alerts = Hits[imported[row].ev] THEN "lines" ELSE "alerts"]
     /\ UNCHANGED <<vars, fileVars, offset, fails>>

(* A statement throws: the catch in the loop goes on with the next line.   *)
ImportFails ==
  /\ LinesLeft \/ tick.pc = "alerts"
  /\ fails < MaxFaults /\ fails' = fails + 1
  /\ tick' = [tick EXCEPT !.pc = "lines", !.pos = IF LinesLeft THEN @ + 1 ELSE @]
  /\ UNCHANGED <<vars, fileVars, offset, imported>>

TickEnds == tick.pc = "lines" /\ ~ LinesLeft

SetOffsetToPlan ==  \* to the size the tick planned with
  /\ TickEnds /\ offset' = tick.size /\ tick' = NoTick
  /\ UNCHANGED <<vars, fileVars, imported, fails>>

SetOffsetKeepsBase ==  \* without the lines it has consumed
  /\ TickEnds /\ offset' = tick.base /\ tick' = NoTick
  /\ UNCHANGED <<vars, fileVars, imported, fails>>

SetOffset ==
  /\ TickEnds /\ offset' = tick.pos /\ tick' = NoTick
  /\ UNCHANGED <<vars, fileVars, imported, fails>>

SetOffsetFails ==
  /\ TickEnds /\ fails < MaxFaults /\ fails' = fails + 1 /\ tick' = NoTick
  /\ UNCHANGED <<vars, fileVars, offset, imported>>

Tick ==
  \/ BeginTick \/ ReadFile \/ ImportEvent \/ ImportAlert \/ ImportFails
  \/ SetOffset \/ SetOffsetFails

-----------------------------------------------------------------------------
AgentStep ==
  /\ Capture \/ AppendLine \/ Resolve \/ Connect \/ Send \/ Receive
  /\ log' = IF logged' = logged THEN log ELSE Append(log, emitted)
  /\ UNCHANGED <<target, lines, copies, tickVars, fails>>

(* A request is handled between two ticks.                                 *)
Serve == tick = NoTick /\ Handler /\ UNCHANGED ingestVars

(* The tick dies with the process, the offset and the rows stay.           *)
Crash == ConsoleCrash /\ tick' = NoTick /\ UNCHANGED <<fileVars, offset, imported, fails>>

IngestNext ==
  \/ AgentStep \/ (ConsoleStart /\ UNCHANGED ingestVars)
  \/ Serve \/ Crash \/ Tick \/ BeginCopy \/ CopyLine

IngestSpec == IngestInit /\ [][IngestNext]_allVars

(* Besides the agent's calls (a lookup need not return): a copy that was   *)
(* begun is completed, a console that runs handles its requests and ticks. *)
IngestFairSpec ==
  /\ IngestSpec
  /\ AgentFairness
  /\ WF_allVars(CopyLine) /\ WF_allVars(Serve) /\ WF_allVars(Tick)

-----------------------------------------------------------------------------
RowsOf(rows, e) == {i \in DOMAIN rows : rows[i].ev = e}

(* Lines 1..n of a log are recorded in the given rows.                     *)
RecordedIn(rows, seq, n) ==
  \A k \in 1..n : \E i \in DOMAIN rows : rows[i] = [ev |-> seq[k], alerts |-> Hits[seq[k]]]

Covered(n) == RecordedIn(imported, log, n)

(* The offset of the copy never passes a line that is not recorded, also   *)
(* if the file is emptied between a tick's plan and its read, because the  *)
(* tick counts what it has read and not what it has planned.               *)
TickInv ==
  /\ tick.pc = "read" => tick.base \in 0..Len(log) /\ tick.size \in 0..Len(log)
  /\ tick.pc \in {"lines", "alerts"} => tick.pos \in 0..Len(log) /\ tick.end \in 0..Len(log)
  /\ tick.pc = "alerts" =>
       /\ tick.pos > 0 /\ imported # << >> /\ imported[Len(imported)].ev = log[tick.pos]
       /\ imported[Len(imported)].alerts < Hits[log[tick.pos]]
  /\ fails = 0 =>
       /\ Covered(offset)
       /\ tick.pc = "read" => Covered(tick.base)
       /\ tick.pc = "lines" => Covered(tick.pos)
       /\ tick.pc = "alerts" => Covered(tick.pos - 1)

IngestInv == IngestTypeOK /\ TickInv /\ IInv

(* However pushes, copies and crashes come together, ticks store an event  *)
(* at most once for each copy of the log, each crash in the middle of a    *)
(* batch and each failing setOffset; PushedOnce adds at most one row by a  *)
(* request, since nothing recognises an event that is stored already.  A   *)
(* copy of a longer log goes on where the last one ended, unless a tick    *)
(* sees the file while it is shorter.                                      *)
RowsPerCopy ==
  \A e \in Event :
    Cardinality(RowsOf(imported, e)) <= copies + IF copies = 0 THEN 0 ELSE crashes + fails

Recorded(e) ==
  LET whole == [ev |-> e, alerts |-> Hits[e]]
  IN (\E i \in DOMAIN store : store[i] = whole) \/ (\E i \in DOMAIN imported : imported[i] = whole)

(* "The local JSONL log is the durable record regardless": whatever became *)
(* of its push, a logged event that is in a copy of the log is recorded    *)
(* with all its alerts once the console stays up, also if the file was     *)
(* being emptied and filled under a tick; unless a statement failed.       *)
CopyRecovers ==
  <>[](con # "down") =>
    \A e \in Event : (\E n \in 1..lines : log[n] = e) ~> (Recorded(e) \/ fails > 0)
=============================================================================
