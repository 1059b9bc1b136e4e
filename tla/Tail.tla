-------------------------------- MODULE Tail --------------------------------
(***************************************************************************)
(* The path from the agent's JSONL log to the console's database:          *)
(* append_event_line writes one line per event to events.jsonl, and each   *)
(* console process tails that file on a one-second timer, storing every    *)
(* event and its alerts and then the byte offset it has read to.           *)
(*                                                                         *)
(* The agent and the consoles are separate processes that share the file;  *)
(* consoles started on one data directory also share the database, in      *)
(* which each statement commits by itself (no transaction is opened).  So  *)
(* a step is one system call, one statement, or what the code computes     *)
(* between two of them, and any process may stop between two steps.        *)
(***************************************************************************)
EXTENDS EventLog

CONSTANTS
  Console,      \* console processes that share the data directory
  MaxStops,     \* bound: times the agent stops inside append_event_line
  MaxCrashes,   \* bound: times a console stops
  MaxTruncs,    \* bound: times the operator truncates events.jsonl
  MaxFaults     \* bound: database statements that fail (busy, disk full)

ASSUME TailAssumption ==
  /\ IsFiniteSet(Console)
  /\ {MaxStops, MaxCrashes, MaxTruncs, MaxFaults} \subseteq Nat

VARIABLES
  file,       \* events.jsonl, byte by byte (an absent file is an empty one)
  emitted,    \* events 1..emitted have been handed to append_event_line
  writing,    \* the event whose line is being written, 0 if none
  written,    \* how many bytes of that line are in the file
  logged,     \* events whose append_event_line wrote its whole line
  offset,     \* ingest_state.byte_offset
  store,      \* the events table by id; alerts counts the row's alert rows
  con,        \* the local state of each console's processNewData
  stops, crashes, truncs, faults

agentVars   == <<emitted, writing, written, logged>>
dbVars      == <<offset, store>>
budgetVars  == <<stops, crashes, truncs, faults>>
vars == <<file, agentVars, dbVars, con, budgetVars>>

(* A console between two ticks, or not running.                            *)
Fresh(pc) == [pc |-> pc, size |-> 0, base |-> 0, buf |-> << >>,
              pos |-> 0, consumed |-> 0, row |-> 0]

Row == [ev : Event, alerts : Nat]

ConsoleState ==
  [pc : {"down", "idle", "offset", "read", "lines", "alerts"},
   size : Nat, base : Nat, buf : Seq(Byte), pos : Nat, consumed : Nat, row : Nat]

TypeOK ==
  /\ file \in Seq(Byte)
  /\ emitted \in 0..MaxEvents /\ writing \in 0..emitted /\ written \in Nat
  /\ written <= IF writing = 0 THEN 0 ELSE Len(Body[writing])
  /\ logged \subseteq Event
  /\ offset \in Nat /\ store \in Seq(Row)
  /\ con \in [Console -> ConsoleState]
  /\ stops \in 0..MaxStops /\ crashes \in 0..MaxCrashes
  /\ truncs \in 0..MaxTruncs /\ faults \in 0..MaxFaults

Init ==
  /\ file = << >> /\ offset = 0 /\ store = << >>
  /\ emitted = 0 /\ writing = 0 /\ written = 0 /\ logged = {}
  /\ con = [c \in Console |-> Fresh("down")]
  /\ stops = 0 /\ crashes = 0 /\ truncs = 0 /\ faults = 0

-----------------------------------------------------------------------------
(* The agent.  g_mutex admits one caller at a time, so a line is begun     *)
(* only when none is being written; if the file cannot be opened the       *)
(* function returns and the event never reaches the log.                   *)
AgentAppendUnlocked ==  \* without the lock_guard
  /\ emitted < MaxEvents
  /\ emitted' = emitted + 1
  /\ writing' = emitted + 1
  /\ UNCHANGED <<file, written, logged, dbVars, con, budgetVars>>

AgentAppend ==
  /\ writing = 0 /\ emitted < MaxEvents
  /\ emitted' = emitted + 1
  /\ writing' \in {0, emitted + 1}
  /\ UNCHANGED <<file, written, logged, dbVars, con, budgetVars>>

(* The stream reaches the file in pieces of any length.                    *)
AgentWriteByteNoNewline ==  \* without << "\n"
  /\ writing # 0
  /\ written < Len(Body[writing])
  /\ file' = Append(file, Cell(writing, written + 1))
  /\ IF written + 1 < Len(Body[writing])
       THEN written' = written + 1 /\ UNCHANGED <<writing, logged>>
       ELSE written' = 0 /\ writing' = 0 /\ logged' = logged \cup {writing}
  /\ UNCHANGED <<emitted, dbVars, con, budgetVars>>

AgentWriteByte ==
  /\ writing # 0
  /\ IF written < Len(Body[writing])
       THEN /\ file' = Append(file, Cell(writing, written + 1))
            /\ written' = written + 1
            /\ UNCHANGED <<writing, logged>>
       ELSE /\ file' = Append(file, NewLine)
            /\ written' = 0 /\ writing' = 0
            /\ logged' = logged \cup {writing}
  /\ UNCHANGED <<emitted, dbVars, con, budgetVars>>

(* Ctrl+C or a crash ends the agent inside a write (or the disk fills and  *)
(* the stream drops the rest); the next agent run appends where this one   *)
(* left off.                                                               *)
AgentStop ==
  /\ writing # 0 /\ stops < MaxStops
  /\ writing' = 0 /\ written' = 0 /\ stops' = stops + 1
  /\ UNCHANGED <<file, emitted, logged, dbVars, con, crashes, truncs, faults>>

(* The operator rotates the log away.                                      *)
Truncate ==
  /\ truncs < MaxTruncs
  /\ file' = << >> /\ truncs' = truncs + 1
  /\ UNCHANGED <<agentVars, dbVars, con, stops, crashes, faults>>

-----------------------------------------------------------------------------
(* A console process.  An operator whose name its \* comment qualifies is a *)
(* plausible slip in the definition that follows it; no action uses it.    *)
SetConsole(c, s) == con' = [con EXCEPT ![c] = s]

(* openDb and startIngestor leave the stored tables as they are.           *)
ConsoleStart(c) ==
  /\ con[c].pc = "down"
  /\ SetConsole(c, Fresh("idle"))
  /\ UNCHANGED <<file, agentVars, dbVars, budgetVars>>

ConsoleCrash(c) ==
  /\ con[c].pc # "down" /\ crashes < MaxCrashes
  /\ SetConsole(c, Fresh("down"))
  /\ crashes' = crashes + 1
  /\ UNCHANGED <<file, agentVars, dbVars, stops, truncs, faults>>

(* A tick begins: fs.statSync.                                             *)
StatFile(c) ==
  /\ con[c].pc = "idle"
  /\ SetConsole(c, [con[c] EXCEPT !.pc = "offset", !.size = Len(file)])
  /\ UNCHANGED <<file, agentVars, dbVars, budgetVars>>

(* getOffset; a file shorter than the offset is read from the start again, *)
(* and a tick with nothing new ends here without storing an offset.        *)
GetOffset(c) ==
  LET from == IF con[c].size < offset THEN 0 ELSE offset IN
  /\ con[c].pc = "offset"
  /\ SetConsole(c, IF con[c].size <= from
                     THEN Fresh("idle")
                     ELSE [con[c] EXCEPT !.pc = "read", !.base = from])
  /\ UNCHANGED <<file, agentVars, dbVars, budgetVars>>

(* openSync and readSync of the size - base bytes the tick planned to      *)
(* read; what the file no longer holds stays zero.                         *)
ReadFileWholeText(c) ==  \* without slice(0, -1): the unfinished line counts
  LET base == con[c].base IN
  /\ con[c].pc = "read" /\ con[c].size <= Len(file)
  /\ SetConsole(c, [con[c] EXCEPT !.pc = "lines",
       !.buf = Append(SubSeq(file, base + 1, con[c].size), NewLine)])
  /\ UNCHANGED <<file, agentVars, dbVars, budgetVars>>

ReadFile(c) ==
  LET base == con[c].base IN
  /\ con[c].pc = "read"
  /\ SetConsole(c, [con[c] EXCEPT !.pc = "lines", !.pos = 0, !.consumed = 0,
       !.buf = [i \in 1..con[c].size - base |->
                  IF base + i <= Len(file) THEN file[base + i] ELSE Zero]])
  /\ UNCHANGED <<file, agentVars, dbVars, budgetVars>>

(* The next complete line of the buffer ends at its position q.            *)
EndsLine(c, q) ==
  /\ q \in con[c].pos + 1..Len(con[c].buf)
  /\ con[c].buf[q] = NewLine
  /\ \A i \in con[c].pos + 1..q - 1 : con[c].buf[i] # NewLine

LineTo(c, q) == SubSeq(con[c].buf, con[c].pos + 1, q - 1)

(* The loop counts a line's bytes before it looks at the line.             *)
PastLineNoNewline(c, q) ==  \* without the + 1
  [con[c] EXCEPT !.pos = q, !.consumed = @ + DecodedLength(LineTo(c, q))]

PastLine(c, q) ==
  [con[c] EXCEPT !.pos = q, !.consumed = @ + DecodedLength(LineTo(c, q)) + 1]

(* An empty line, or one JSON.parse throws on: counted and skipped.        *)
SkipLineNever(c, q) ==  \* a malformed line is tried again
  /\ con[c].pc = "lines" /\ EndsLine(c, q)
  /\ \A e \in Event : LineTo(c, q) # JsonLine(e)
  /\ UNCHANGED vars

SkipLine(c, q) ==
  /\ con[c].pc = "lines" /\ EndsLine(c, q)
  /\ \A e \in Event : LineTo(c, q) # JsonLine(e)
  /\ SetConsole(c, PastLine(c, q))
  /\ UNCHANGED <<file, agentVars, dbVars, budgetVars>>

(* ingestEvent stores the event, then matchEvent picks its alerts.         *)
StoreEvent(c, q, e) ==
  /\ con[c].pc = "lines" /\ EndsLine(c, q)
  /\ LineTo(c, q) = JsonLine(e)
  /\ store' = Append(store, [ev |-> e, alerts |-> 0])
  /\ SetConsole(c, [PastLine(c, q) EXCEPT
                      !.pc = IF Hits[e] = 0 THEN "lines" ELSE "alerts",
                      !.row = Len(store) + 1])
  /\ UNCHANGED <<file, agentVars, offset, budgetVars>>

(* ... or the INSERT throws, and the catch that is there for malformed     *)
(* lines skips this one too.                                               *)
StoreEventFailsBatch(c, q, e) ==  \* one catch around the loop over the lines
  /\ con[c].pc = "lines" /\ EndsLine(c, q)
  /\ LineTo(c, q) = JsonLine(e)
  /\ faults < MaxFaults /\ faults' = faults + 1
  /\ \E last \in q..Len(con[c].buf) :
       /\ con[c].buf[last] = NewLine
       /\ \A i \in last + 1..Len(con[c].buf) : con[c].buf[i] # NewLine
       /\ SetConsole(c, [con[c] EXCEPT !.pos = last, !.consumed = last])
  /\ UNCHANGED <<file, agentVars, dbVars, stops, crashes, truncs>>

StoreEventFails(c, q, e) ==
  /\ con[c].pc = "lines" /\ EndsLine(c, q)
  /\ LineTo(c, q) = JsonLine(e)
  /\ faults < MaxFaults /\ faults' = faults + 1
  /\ SetConsole(c, PastLine(c, q))
  /\ UNCHANGED <<file, agentVars, dbVars, stops, crashes, truncs>>

(* One alert of the stored event; after its last one the loop goes on.     *)
StoreAlert(c) ==
  LET r == con[c].row IN
  /\ con[c].pc = "alerts"
  /\ store' = [store EXCEPT ![r].alerts = @ + 1]
  /\ SetConsole(c, [con[c] EXCEPT
       !.pc = IF store[r].alerts + 1 = Hits[store[r].ev] THEN "lines" ELSE "alerts"])
  /\ UNCHANGED <<file, agentVars, offset, budgetVars>>

(* A failing alert INSERT abandons the event's remaining alerts.           *)
StoreAlertFails(c) ==
  /\ con[c].pc = "alerts"
  /\ faults < MaxFaults /\ faults' = faults + 1
  /\ SetConsole(c, [con[c] EXCEPT !.pc = "lines"])
  /\ UNCHANGED <<file, agentVars, dbVars, stops, crashes, truncs>>

NoMoreLines(c) == \A q \in con[c].pos + 1..Len(con[c].buf) : con[c].buf[q] # NewLine

(* setOffset, after the last complete line of the buffer.                  *)
SetOffsetToEnd(c) ==  \* past the unfinished line as well
  /\ con[c].pc = "lines" /\ NoMoreLines(c)
  /\ offset' = con[c].size
  /\ SetConsole(c, Fresh("idle"))
  /\ UNCHANGED <<file, agentVars, store, budgetVars>>

SetOffsetKeepsBase(c) ==  \* without + consumedBytes
  /\ con[c].pc = "lines" /\ NoMoreLines(c)
  /\ offset' = con[c].base
  /\ SetConsole(c, Fresh("idle"))
  /\ UNCHANGED <<file, agentVars, store, budgetVars>>

SetOffsetRelative(c) ==  \* without the offset the buffer was read from
  /\ con[c].pc = "lines" /\ NoMoreLines(c)
  /\ offset' = con[c].consumed
  /\ SetConsole(c, Fresh("idle"))
  /\ UNCHANGED <<file, agentVars, store, budgetVars>>

SetOffset(c) ==
  /\ con[c].pc = "lines" /\ NoMoreLines(c)
  /\ offset' = con[c].base + con[c].consumed
  /\ SetConsole(c, Fresh("idle"))
  /\ UNCHANGED <<file, agentVars, store, budgetVars>>

(* ... throws, the tick's catch logs it, and the next tick reads again.    *)
SetOffsetFails(c) ==
  /\ con[c].pc = "lines" /\ NoMoreLines(c)
  /\ faults < MaxFaults /\ faults' = faults + 1
  /\ SetConsole(c, Fresh("idle"))
  /\ UNCHANGED <<file, agentVars, dbVars, stops, crashes, truncs>>

-----------------------------------------------------------------------------
NextLine(c) ==
  \E q \in 1..Len(con[c].buf) :
    \/ SkipLine(c, q)
    \/ \E e \in Event : StoreEvent(c, q, e) \/ StoreEventFails(c, q, e)

Tick(c) ==
  \/ StatFile(c) \/ GetOffset(c) \/ ReadFile(c) \/ NextLine(c)
  \/ StoreAlert(c) \/ StoreAlertFails(c) \/ SetOffset(c) \/ SetOffsetFails(c)

Agent == AgentAppend \/ AgentWriteByte \/ AgentStop

Next ==
  \/ Agent \/ Truncate
  \/ \E c \in Console : ConsoleStart(c) \/ ConsoleCrash(c) \/ Tick(c)

Spec == Init /\ [][Next]_vars

(* The operating system goes on writing a stream that was begun, and       *)
(* setInterval keeps ticking in a console that runs.  Nothing makes the    *)
(* agent report an event or an operator start a console.                   *)
Fairness == WF_vars(AgentWriteByte) /\ \A c \in Console : WF_vars(Tick(c))

FairSpec == Spec /\ Fairness

-----------------------------------------------------------------------------
(* Vocabulary of the properties.                                           *)

(* Event e is stored with every alert its rules raise.                     *)
Recorded(e) == \E i \in DOMAIN store : store[i] = [ev |-> e, alerts |-> Hits[e]]

RowsOf(e) == {i \in DOMAIN store : store[i].ev = e}

(* No multi-byte character was cut short in the file, except the one that  *)
(* may be arriving at its end.                                             *)
Intact == \A i \in Broken(file) : i = Len(file)

(* The log was never truncated and no character was cut; nor did any       *)
(* statement fail.                                                         *)
WholeLog    == truncs = 0 /\ Intact
Undisturbed == WholeLog /\ faults = 0

AllAscii == \A e \in Event : \A i \in 1..Len(Body[e]) : Body[e][i] = "ascii"

Boundary(p) == p = 0 \/ (p \in DOMAIN file /\ file[p] = NewLine)

(* Whatever the console crashes, and however many consoles share the data  *)
(* directory: an event whose line ends before the stored offset is in the  *)
(* database with all its alerts, because processNewData stores the offset  *)
(* only after the rows.                                                    *)
NothingSkipped ==
  Undisturbed => \A e \in EventsUpTo(file, offset) : Recorded(e)

(* The stored offset is always the start of a line, so that no tick begins *)
(* inside an event ("+1 for the '\n'" in processNewData), also if           *)
(* statements fail.                                                        *)
OffsetOnBoundary == WholeLog => Boundary(offset)

(* A stop inside a line costs at most one further event, the one whose     *)
(* line is glued to the torn one: every other event the sink has logged is *)
(* a readable line ("Reopen-per-call keeps this simple and crash-safe").   *)
TornLosesOne == truncs = 0 => Cardinality(logged \ EventsIn(file)) <= stops

(* With one console an event is stored again only after a crash or a       *)
(* failed statement, also when the log is truncated in between; but a log  *)
(* with multi-byte characters must not be: an offset that lies inside one  *)
(* of the file that has grown anew goes astray like behind a cut one.      *)
RowsBounded ==
  WholeLog \/ AllAscii =>
    \A e \in Event : Cardinality(RowsOf(e)) <= 1 + crashes + faults

(* A statement that fails costs at most the event whose statement it was,  *)
(* however its batch is cut by crashes and read again: the catch inside    *)
(* the loop skips one line, and a failing setOffset none.                  *)
FaultLosesOne ==
  WholeLog =>
    Cardinality({e \in EventsUpTo(file, offset) : ~ Recorded(e)}) <= faults

(* With one console the stored offset never moves back unless the file was *)
(* truncated: "stat.size < offset" means what its comment says.            *)
NeverRewinds == [][(truncs' = 0 /\ Intact') => offset' >= offset]_vars

(* The pipeline implements the at-least-once log: an event is recorded     *)
(* only once its whole line is in the file, never out of an unfinished     *)
(* line, the middle of one or two torn ones; it is never forgotten; and    *)
(* the offset passes only recorded events.  Holds for a log that is not    *)
(* truncated, whose characters are not cut and whose statements succeed.   *)
Promise == INSTANCE AtLeastOnce WITH
  lines    <- EventsIn(file),
  recorded <- {e \in Event : Recorded(e)},
  acked    <- EventsUpTo(file, offset)

ImplementsAtLeastOnce == Promise!Spec

AllUp == \A c \in Console : con[c].pc # "down"

(* If the consoles stay up from some point on, every event with a line of  *)
(* its own is recorded: no torn or malformed line before it blocks it, and *)
(* only a failing statement or a truncation may cost it.                   *)
EveryLineRecorded ==
  <>[]AllUp =>
    \A e \in Event : e \in EventsIn(file) ~> (Recorded(e) \/ faults > 0 \/ truncs > 0)

(* ... and the consoles catch up: the offset settles behind the last       *)
(* newline, with only an unfinished line beyond it.                        *)
CatchesUp ==
  <>[]AllUp => <>[](\A p \in offset + 1..Len(file) : file[p] # NewLine)

-----------------------------------------------------------------------------
(* The inductive invariant behind NothingSkipped and FaultLosesOne: a      *)
(* tick's buffer is a copy of whole file bytes that starts where a line    *)
(* starts, its position moves from line to line, and what lies before the  *)
(* position is recorded, but for the events that failing statements have   *)
(* lost and the one whose alerts are being stored.                         *)
Covered(p, lost) == \A e \in EventsUpTo(file, p) : Recorded(e) \/ e \in lost

BufferIsFile(c) ==
  /\ con[c].base + Len(con[c].buf) <= Len(file)
  /\ \A i \in 1..Len(con[c].buf) : con[c].buf[i] = file[con[c].base + i]

PositionInv(c) ==
  /\ con[c].pos \in 0..Len(con[c].buf)
  /\ con[c].consumed = con[c].pos
  /\ Boundary(con[c].base + con[c].pos)

ConsoleInv(c, lost) ==
  /\ con[c].pc = "offset" => con[c].size <= Len(file)
  /\ con[c].pc = "read" =>
       /\ con[c].base < con[c].size /\ con[c].size <= Len(file)
       /\ Boundary(con[c].base) /\ Covered(con[c].base, lost)
  /\ con[c].pc \in {"lines", "alerts"} => BufferIsFile(c) /\ PositionInv(c)
  /\ con[c].pc = "lines" => Covered(con[c].base + con[c].pos, lost)
  /\ con[c].pc = "alerts" =>
       /\ con[c].row \in DOMAIN store
       /\ store[con[c].row].alerts < Hits[store[con[c].row].ev]
       /\ Covered(con[c].base + con[c].pos, lost \cup {store[con[c].row].ev})

(* Two consoles never add alerts to the same row.                          *)
RowsOwned ==
  \A c, d \in Console :
    con[c].pc = "alerts" /\ con[d].pc = "alerts" /\ con[c].row = con[d].row => c = d

LogInv(lost) ==
  /\ Boundary(offset) /\ Covered(offset, lost)
  /\ \A c \in Console : ConsoleInv(c, lost)
  /\ RowsOwned

IInv ==
  WholeLog => \E lost \in SUBSET Event : Cardinality(lost) <= faults /\ LogInv(lost)

-----------------------------------------------------------------------------
(* What the comments and the documents say and the program does not keep.  *)

(* tail.js starts over at an offset behind the end of the file because the *)
(* "file was truncated/rotated".  A cut character decodes to more bytes    *)
(* than it had, so the offset runs past the end of an untouched file too,  *)
(* and every tick stores the whole file again.                             *)
StartsOverOnlyTruncated ==
  truncs = 0 => \A c \in Console : con[c].pc = "read" => con[c].base = offset
=============================================================================
