# A verification of ReaperWatch

TLA+ models of ReaperWatch (the Windows process sensor, its console backend and
its dashboard), the TLC runs that check them on small instances and TLAPS proofs
of the properties that matter most for every size.

## The system

| Component | State it keeps | Operations | What makes it correct |
|---|---|---|---|
| Kernel ETW session (`etw_consumer.cpp`, `main.cpp`) | the machine's one kernel-logger session, which outlives its creator; `g_session` | stop stale, start, retry, install handler, open, trace, clean up; Ctrl+C on its own thread | ends with the agents, never blocks a new one, no agent listens to nothing |
| Enrichment (`process_monitor.cpp`) | none between events; reads the system once per field | path, command line, snapshot, two creation times, lineage, user | fields describe the process that was reported; a recycled PID is nobody's parent |
| Event sink (`event_sink.cpp`) | `events.jsonl` | append one line under a mutex | whole lines, in order, also across stops |
| HTTP sender, config (`http_sender.cpp`, `config.cpp`) | a configuration read once | resolve, connect, send, receive, give up | never blocks the sensor; nothing is stored twice |
| Tailing ingestor (`tail.js`) | `ingest_state.byte_offset` | stat, read, split, store, store offset, every second | no line is skipped, none is repeated without a crash, a bad one does not block |
| Ingest path, storage (`ingest.js`, `schema.sql`, `db.js`) | `events`, `alerts` | insert event, match, insert alerts, each committed by itself | an acknowledged event is stored with all its alerts |
| Ingest key (`ingestKey.js`) | `data/ingest.key` | check, read, generate, write | one key per console install, and a random one |
| API server, queries (`server.js`, `queries.js`) | none | one POST, five GETs | figures that the database had, for one time; lists of the newest rows |
| Detection (`matcher.js`, `rules.js`, `mitre.js`) | constant rules | run every rule | a rule means what its title says; a failing one does not stop the others |
| EQL engine (`eql.js`) | a parse cache | tokenize, parse, evaluate | the documented grammar and precedence, case-blind comparisons |
| Dashboard (`app.js`, `data.js`) | `DATA`, the banner, the Hunt view's query, rows and detail | refresh on a timer or button, run a query, click a row | current when the backend answers, marked when it does not; a query is drawn whole or not at all |

They meet in three places. The agent and the tailing ingestor share
`events.jsonl`, a file that only one writes and that the other reads at any
time. The agent and the server exchange one HTTP request per event. Everything
in the console, and every console started on the same data directory, shares the
SQLite database, without transactions. Inside the agent everything happens on
the thread that `ProcessTrace` calls back on, Ctrl+C excepted; inside the backend
everything happens on Node's one thread, so that requests and ticks do not
interleave within a process, but can stop between any two of their statements.

What is hard: processes that end between two steps and start again, a file read
while it is written, cut and rotated; PIDs that change hands while they are asked
about; a session every agent can stop; lost and late answers; refreshes that
overtake each other; one database written by two paths and read in several
statements. The hazards, each at its line, are listed in `PROJECT.json`
with the properties that cover them.

## The modules

Each component has a module with its state, one action per operation, its
properties and, where it is proved, its inductive invariant (`IInv`); an `MC`
module with small instances for TLC; and a `Proofs` module that extends it.

| Module | Models | MC | Proofs |
|---|---|---|---|
| `EventLog` | the bytes of `events.jsonl` and what Node's UTF-8 decoding makes of them | | |
| `Tail` | sink, tailing ingestor, ingest path, crashes and truncation | `MCTail` | `TailProofs` |
| `AtLeastOnce` | what the pipeline promises, without files or offsets | | |
| `Enrichment` | `build_process_event` against a running operating system | `MCEnrichment` | `EnrichmentProofs` |
| `KernelSession` | `collect_process_events` in several agents | `MCKernelSession` | `KernelSessionProofs` |
| `Delivery` | `on_event`, log, HTTP push and `POST /api/ingest` | | `IngestProofs` |
| `Ingest` | `Delivery` and the tail over one database, with copies of the log | `MCIngest` | `IngestProofs` |
| `IngestKey` | `loadOrCreateIngestKey` in several consoles | `MCIngestKey` | `IngestKeyProofs` |
| `Queries` | `getOverview` statement by statement, `listEvents`, `listAlerts` | `MCQueries` | `QueriesProofs` |
| `Mitre` | the tactics of the techniques | | |
| `Dashboard` | `refreshFromApi`, the banner, the Hunt view, a backend that comes, goes and hangs | `MCDashboard` | `DashboardProofs` |
| `Eql` | parser and evaluator | | |
| `Lexer` | `tokenize` | | |
| `Matcher` | the rules and `matchEvent` | | |
| `EqlGrammar` | the documented grammar, of conditions and of tokens | | |
| `Engine` | the query engine under every kind of input | `MCEql` | `EqlProofs` |
| `Writer` | how to write a parsed condition, for TLC only | `MCEql` | |

An operator whose name carries a `\*` comment, such as
`ReadFileWholeText(c) ==  \* without slice(0, -1): ...`, is no part of the
specification: it is the slip a programmer could make in the definition after
it. `PROJECT.json` ("mutants") pairs each with the property that must notice it.

### Tail

A step is one system call or one SQL statement. `StatFile` is `fs.statSync`,
`GetOffset` the SELECT with the two comparisons after it, `ReadFile` the read of
the planned number of bytes (zeros where the file has become shorter),
`StoreEvent`, `StoreAlert` and `SetOffset` the three kinds of statement.
`SkipLine` is a line `JSON.parse` rejects, and the `...Fails` actions are
statements that throw into the two catches. The agent writes byte by byte
(`AgentWriteByte`) and may stop inside a line (`AgentStop`). A byte is an event
and a position in its line, or a newline: JSON is abstracted to "exactly this
line parses". Only the UTF-8 class of a byte is kept, because `processNewData`
counts the bytes of the *decoded* line and a broken character decodes to three.

`Promise` maps `Tail` to `AtLeastOnce`: `lines` are the events with a line of
their own, `recorded` the events stored with all alerts, `acked` the lines
behind the stored offset. The mapping holds for a log that is not truncated and
whose characters are not cut, with statements that succeed, and is proved for
such a log (`ImplementsCorrect`).

### Enrichment

`procs` holds every process ever started; a PID belongs to the living one that
has it. A field of an event is modelled by the process it was read from, which
the agent cannot know and the properties compare. Hashes and signature belong to
the path. The creation clock advances by a member of `Tick` between creations:
`{1}` tells any two apart, `{0, 1}` does not.

### KernelSession

`StopSession` is what Windows does for `ControlTraceW` with the session's name,
so every agent stops whichever session runs. Sessions are numbered. Ctrl+C
before `SetConsoleCtrlHandler` ends the process at once (`EarlyCtrlC`); after it,
`on_ctrl_c` stops the session on its own thread (`HandledCtrlC`) and the process
ends some steps later (`Terminate`).

### Delivery

`config` is what `get_network_config` cached: nothing, the console's key, or
another. The agent's thread goes through the WinHTTP calls; each can fail or
time out (`GiveUp`), and a request can arrive although the sender gave up. The
console stores a request statement by statement; Node takes no other request
meanwhile. `accepted` is the history of 202 answers.

### Ingest

`Ingest` extends `Delivery` with the second way of an event into the database:
the operator copies the agent's log to the console (README.md, "Offline copy"),
where the tail reads it. Every action of `Delivery` is taken by one here
(`AgentStep`, `Serve`, `Crash`), and requests wait while a tick is running. The
bytes of `Tail` are lines here; a copy is `BeginCopy`, which empties the file,
and one `CopyLine` for each line, with ticks in between. Rows of ticks
(`imported`) are kept apart from rows of requests (`store`), which is what makes
`Ingest` a refinement of `Delivery` by the identity.

### IngestKey

`existsSync`, `readFileSync`, `randomBytes`, and the two halves of
`writeFileSync` (create or empty, then write) are steps of their own, between
which any other console may start or stop. Keys are numbered; 0
is the empty key. `Making` are the consoles that found no file and go on to make
a key, `Settled` a file that none of them will write any more.

### Queries

`Count` is one of the nine counting statements of `getOverview`, `ReadVolume`
and `ReadBreakdown` the two grouped ones; between them another console may store
an event (`StoreEvent`) or an alert. `start` is the history of the database the
request met. What a statement selects is a set of ids, and the chart and the
breakdown are sums over grouped rows as in the code; the properties count the
tables directly. Time is in parts of a day, rows carry the columns the
statements ask for. Lists are sequences of ids.

### Dashboard

A part of the page is abstracted to the number of events in the database it was
read from, an empty one (0) included. A refresh asks for all parts, each answered
at a time of its own, and
is applied atomically (no await between the assignments). A backend that goes
down cuts the fetches in flight; one that is busy (`Hang`) leaves them open, or
refuses them (`Refuse`, an HTTP error) while its statements fail. An event need not
name its host (`Named`), and then the host on the page stays.
In the Hunt view `RunQuery` is `renderHunt()` of Run, Enter and the example
chips, `Apply` contains the `renderHunt({ resetDetail: false })` of a refresh,
and `ClickRow` is the handler the rows get. A query is the set of events it
finds. An event whose row cannot be drawn makes `renderHunt` throw: the rows
stay, and in a refresh the catch shows the banner over data that has been
replaced. The other views are left out.

### Eql, Lexer, EqlGrammar, Matcher, Engine

The lexer is `tokenize`, over characters, and the parser the functions of
`parse()`, over tokens. Each parse function takes the tokens and a position and
gives a node and the position after it, or the position it throws at; a call that
recurses is an entry of a table of productions and positions (`Parser`), and a
`while` loop is a production that gives what the loop adds. `EqlGrammar` states
the grammar of the header comment by splitting spans of tokens: `Trees` gives the
set of trees of every span, without a position that is moved. It also says which
tokens a text can be cut into, by splitting. The evaluator is two functions over the finite sets of trees
`OperandNode` and `ConditionNode`, which contain the subtrees of their members.
Strings are short sequences over a few letters of both cases and a digit.
Regular expressions (`FoundAt`) have plain characters, `*` and `?` behind one,
optional groups and `\b`, which is what the rules and the examples use.

`Engine` is a state machine over its inputs: a text typed character by character,
a condition typed token by token, a parsed query with an event, or an event for
the rules. `Writer` writes a parsed condition with the fewest parentheses
(`ReadsAsWritten`); it is recursive and stays out of the modules that are proved about.

`Matcher` holds the eleven rules as the tokens of their queries, in the order of
`rules.js`, and `matchEvent`. A string of a rule is written in parts, of which
only those that decide are told from others; the regular expression of
`encoded_powershell` is `EncodedSwitch`. `EvalThrows` says where the
evaluator throws, which the matcher's `try` is there for.

## The runs

Bounds are the constants of each `.cfg`; every one is commented in its module.

| Run | Asks | Bounds |
|---|---|---|
| `tail_crash` | `TornLosesOne`, `RowsBounded`, `FaultLosesOne`, `NeverRewinds`, `EveryLineRecorded`, `CatchesUp`, types | 1 console, 3 events (one line of two bytes, 0 to 2 alerts), 2 crashes, 2 agent stops, 1 truncation, 1 failing statement |
| `tail_two` | `IInv`, `NothingSkipped`, `OffsetOnBoundary`, refinement of `AtLeastOnce` | 2 consoles, 3 events, a two-byte character, 1 crash, 1 agent stop |
| `lineage` | `IInv`, `GuardedParent`, `SurvivorDescribed` | 5 processes, 4 PIDs, 1 event |
| `session_agents` | `IInv`, `NoOrphanSession`, `NeverDeaf`, `StaleNeverBlocks` | 2 agents, 4 sessions, 2 Ctrl+C, 1 kill |
| `push` | `IngestInv`, `PushedOnce`, `AcceptedIsComplete`, `LogComesFirst`, `RowsPerCopy`, `OnlyLookupHangs`, `CopyRecovers` | 2 events (2 alerts and none), 1 crash, 1 fault of requests and 1 of ticks, 2 copies |
| `key_restarts` | `IInv`, `OneKeyEach`, `KeyStays` | 3 consoles, 4 keys |
| `page` | `SampleRowsMarked`, `BecomesCurrent` | 2 parts, 2 refreshes in flight, 3 database states from the empty one on, 2 events of which one names no host and one cannot be drawn, 3 query texts |
| `query` | `CutsIntoTokens`, `ParsesTheGrammar`, `ReadsAsWritten`, `CaseBlind`, `RulesMean`, `BadRuleContained` | all texts of up to 4 of 11 characters, 5 inside a string; all conditions of up to 5 tokens over 13, of up to 8 if the parser reads on; about 2,500 parsed queries, 21 events; about 450 events for the rules |
| `overview` | `CountsWithin`, `WindowsMeet`, `ChartsAgree`, `NewestFirst` | 2 events of 4 kinds, 2 alerts of 3 kinds, 2 ticks a day, 7 days, 2 clock values, lists of at most 1 |

`tail_two` has the `CONSTRAINT Intact`: behaviours are followed up to the first cut
character, which is what the refinement assumes. The two symmetric consoles may
be exchanged, because it is a safety property.

Why these are enough. In `tail_*` three events put one line before, one under and one behind
the point where a process stops; two crashes let a restarted console be stopped
again (and once is enough in `push`, whose ticks are measured in lines); two alerts are the least that can be cut in the middle; two bytes the
least that can be. A wrong parent takes a parent, a child and an impostor, and a
grandparent one more, next to the process that starts them all; the reuse of a
PID takes one PID less than processes. Two agents stop each other, at every step
of each, and find the place taken by the other's retry. Two copies are the least
of which the second can empty a file that was read. Two refreshes overtake each
other; two parts, one of them the host, are the two ways an answer is handled.
The events of `overview` stand at the edges: tomorrow, exactly 24 and 48 hours
ago, the first tick of the chart; two of them differ in every column. Four
characters hold a string with an escaped quote and no closing one, five a whole
one. Five tokens hold every operator and call, so that a parser that
throws too early is noticed; eight a chain of two different connectives, a
negated group, and a call with two patterns. The events for the rules meet every
condition of every rule, by each name, parent, directory and spelling it lists,
and miss it in one field each. Three consoles are one that makes a key while
another does, and one that finds the file. The proofs lift the bounds from the
invariants.

`CHECK_DEADLOCK FALSE` is set where the modelled system may really stop: an agent
listens for ever, waits for the next creation, or the inputs are all enumerated.

### What the documentation says and the code does not do

Three runs check one sentence of the documentation each and find it violated.
The quotations are in `PROJECT.json` under "findings".

- `tail_torn_utf8`: a character cut by a stop pushes the offset past the end of
  the file; from then on every tick stores the whole file again, until it has
  outgrown the offset.
- `lineage_pid_reuse`: the *child's* PID may be the reused one, and then the
  guard compares the creation times of two strangers.
- `page_fresh`: an empty database, or a newest event without a host, leaves the
  sample host up while the banner is hidden (`SampleIsMarked`).
  `SampleRowsMarked` is what holds of the rest of the page.

Other limits show in what the properties have to assume or allow:

- `TornLosesOne` allows one lost event per stop, the one glued to a torn line.
- `EveryLineRecorded` excepts failed statements and truncations altogether.
- `FaultLosesOne` allows one lost event per failing statement: the catch that is
  there for corrupt lines (README.md:73-74) skips an event whose INSERT throws
  (database busy, disk full) like one of them, and it is not tried again.
- `RowsPerCopy` allows a row per copy of the log, because a tick that sees the
  file emptied by a second copy, shorter than the offset, starts over and stores
  what it has stored before; and a row by a push next to those.
- `RowsBounded` allows one more row per crash: a restart in the middle of a batch
  stores, and alerts on, its events again, which `schema.sql:77-78` means to avoid.
  It also requires that a log with multi-byte characters is not truncated. A file
  that grows past the old offset between two ticks is read from that byte; where
  this is inside a character, the decoded text is longer than the bytes, the
  offset ends up behind the file, and the next ticks store the whole file again.
  Neither crash nor failure is needed: four events, one of them with a two-byte
  character, and one truncation are enough.
- A rotated log is recognised only while it is shorter than the old offset.
- `GuardedParent` fails with `Tick = {0, 1}`: an impostor created in the same
  clock tick is not younger. The grandparent is recorded without any guard.
- `NoOrphanSession` excludes kills, and Ctrl+C between `StartTraceW` and
  `SetConsoleCtrlHandler`, which leave the session behind. `StopStale` stops a
  session whoever listens to it; `NeverDeaf` is what remains to its consumer.
- `CopyRecovers` excepts failed statements, for the same reason as `FaultLosesOne`.
- `OnlyLookupHangs` excepts a name lookup that never returns: the resolve timeout
  that is set (`http_sender.cpp:47`) is 0, which is none, although the comment
  above it names resolve among the short timeouts that keep a dead console from
  hanging the sensor.
- `OneKeyEach` allows a key per console: of consoles that start together on a new
  data directory each may find no file (`ingestKey.js:18`), make a key and serve
  with it, and only the one written last persists. That is not "generated once
  per console install" (`ingestKey.js:4`).
- `KeyStays` says that a settled key file stays, also an empty one: a console
  stopped between creating and writing it (`ingestKey.js:22`) leaves it empty, and
  all later ones serve with the empty key, which no agent may be configured with.
- A sample event that is in the detail pane when the first refresh succeeds stays
  there without the banner.
- `LogComesFirst` allows an event to miss in the log for each fault: a log that
  cannot be opened is not reported (`event_sink.cpp:30-32`), and the event is pushed.
- `RulesMean` takes the first rule by the spellings of its expression; others that
  PowerShell takes (`-ec`, `-en`, `-enco`) are not found.
- `HuntCurrent` excepts a query that finds an event whose row cannot be drawn
  (`app.js:359` needs a user): every refresh then shows the banner over live
  data, and old rows under a status line that counts the new ones. A Run of such a
  query throws before it resets the detail pane (`app.js:338` says it resets it).
- `NewestFirst` is about limits that are not negative: SQLite takes a negative
  one for none, so `?limit=-1` returns every row.
- `BecomesCurrent` says nothing of the way there: a slow refresh can put an older
  state over a newer one until the next.

## Fairness

- `Tail`: the operating system completes a begun write (`WF(AgentWriteByte)`) and
  the timer keeps ticking (`WF(Tick)` per console). No console has to start and
  none has to stay up: the liveness properties are conditional on `<>[]AllUp`.
- `KernelSession`: `WF(Run)` per agent. `TraceEnds` is part of `Run`, because
  `ProcessTrace` returns when its session is gone; Ctrl+C, launches and kills are not.
- `Ingest`: the agent's calls with a timeout return (`AgentFairness`); a name
  lookup has none and need not (no `WF(Resolve)`). A copy that was
  begun is completed, and a console that runs handles its requests and its ticks
  (`WF(Serve)`, `WF(Tick)`), because Node's event loop goes on and `setInterval`
  keeps firing. No console has to start or stay up: `CopyRecovers` is conditional
  on `<>[](con # "down")`, `OnlyLookupHangs` on lookups that end, whatever with.
- `Dashboard`: the timer fires, a backend that is up and not hung answers, the
  page handles what arrives; it need not refuse anything. `BecomesCurrent` is conditional on
  `<>[](up /\ ~ hung)`, its second half also on a query that is no longer edited;
  the operator has to do nothing.

## The proofs

Everything is for any value of the constants that satisfies the modules'
assumptions (`TailAssumption` and the like, which TLC evaluates in the runs).

- **Tail.** `TypeCorrect`, and, for a whole log (`WholeLog`: no truncation, no
  cut character), `InvCorrect`, `FaultLosesOneCorrect`, `OffsetOnBoundaryCorrect`
  and, if also no statement fails (`Undisturbed`), `NothingSkippedCorrect`.
  `NothingSkipped` alone
  says nothing of a tick in progress. `IInv` adds that the buffer is a copy of
  the file at the place it was read from, that the position in it moves from
  line start to line start and equals the bytes counted, that everything before
  the position is recorded but for the event whose alerts are being stored and
  for a set `lost`, which has at most one member per failed statement, and
  that no two consoles share a row. The set is the invariant's own: no variable
  holds it, a failing `StoreEvent` or `StoreAlert` adds the event it was for.
  Since the file only grows, what holds of a
  prefix goes on holding; since `SetOffset` stores exactly base plus position,
  also an old tick of a slow console stores an offset that is covered.
- **Tail, torn lines.** `TornLosesOneCorrect`, for any character cuts and any
  faults. `TornInv` splits the logged events into those with a line of their own,
  the one being written, and the glued ones, of which each stop
  leaves at most one; and a new line starts behind a newline or behind a torn rest.
- **Tail, one console.** `NeverRewindsCorrect` and `RowsBoundedCorrect` assume
  `SingleConsole`: with two, a slow console does put back an older offset.
  The first rests on `OffsetHeld`: from its SELECT to its UPDATE a console's base
  is the stored offset. `RowsInv` behind the second says where an event can lie
  that has been stored `1 + crashes + faults` times (`Full`): nowhere in the file
  (`Clean`), or before the place from which the console reads on (`Behind`), and
  never in the unread part of a tick's buffer. A buffer read before a truncation
  shares no event with the new file (`OldBuffer`), because a line is written
  once; that is why truncations do not count in the bound. A crash or a failure
  raises the bound, after which no event is full.
- **Tail, refinement.** `ImplementsCorrect` is the refinement of `AtLeastOnce`, under `[]Undisturbed`:
  a byte completes at most one line (`OneMoreLine`), so an append is `Log` or a
  stutter; a stored row is of an event with a line of its own (`RowsHaveLines`),
  so a statement is `Record` or a stutter; and an offset is stored only over what
  `IInv` covers, so `SetOffset` is `Acknowledge`.
- **Enrichment.** `InvCorrect`, `GuardedParentCorrect` and
  `SurvivorDescribedCorrect`, assuming `FineClock`
  (0 is not in `Tick`). The argument: when a child was created, of all holders
  of its ppid only its creator was alive; the snapshot's parent is the only
  process no younger than the child that can still hold the PID; so a creation
  time not after the child's is the creator's. A process that is alive when its
  event is built was alive all along and had its PID to itself, so that every
  field that was read by the PID is its own (`SubjectInv`). The snapshot has, for
  every PID, the process no younger than the child that still holds it
  (`SnapshotInv`), which makes the grandparent right while that process lives.
- **KernelSession.** `InvCorrect`, `NoOrphanCorrect`. Without kills and early
  Ctrl+C every session has an agent that started it, still has its handle and
  has not been told to stop.
- **Delivery** (in `IngestProofs`). `InvCorrect`, `PushedOnceCorrect`,
  `AcceptedIsCompleteCorrect`, `LogComesFirstCorrect`.
  An event is with the agent, on the network, with the handler or stored, and in
  one of these places only. An event leaves the agent after the attempt to log it,
  so the posted events that the log lacks are among those whose append failed
  (`Unlogged`), and each of these is a fault.
- **Ingest.** `ImplementsDelivery`: every step is one of `Delivery` or leaves its
  variables alone, so that what is proved of it holds of the whole console
  (`PushedOnceStill`, `AcceptedIsCompleteStill`, `LogComesFirstStill`).
  `IngestInvCorrect`: what lies before the tick's position is recorded, and the
  position, not the plan, becomes the offset. `RowsPerCopyCorrect` adds
  `RowsInv`: either the console reads on in a file that it fits into, and what it
  has yet to come to may be stored once more (`ReadsOn`), or the file was emptied
  under it, or its tick failed or was lost, and every event may be (`StartsOver`);
  each change to the second is paid for by a copy, a crash or a failure.
- **Queries.** `CountsWithinCorrect`, `WindowsMeetCorrect`, `ChartsAgreeCorrect`,
  `NewestFirstCorrect`. While a request is
  served rows are only added (`Grows`), so a statement's selection contains the
  one of the request's start and is contained in that of now; the two windows
  partition the last 48 hours. A `reduce` over grouped rows (`Total`) is the size
  of the disjoint union of the groups, so that the classes of a table add up to
  the table (`ClassesAddUp`); `ChartsInv` carries the total of the chart, taken
  earlier, to the breakdown, taken later. A list is the only descending one of
  its rows (`Descending`), cut at the limit. The filters of `NewestFirst` are not
  empty, as an empty parameter filters nothing.
- **IngestKey.** `InvCorrect`, `OneKeyEachCorrect`, `KeyStaysCorrect`, for any
  number of consoles and any order of their steps. A console starts to make a key
  only while there is no file, and then nothing has been served; so the keys that
  were served and the consoles that are making one, counted together
  (`FileInv`), are never more than the consoles: a write turns one of the second
  into at most one of the first.
- **Dashboard.** `InvCorrect`, `SampleRowsMarkedCorrect`, whatever is stored when
  the page opens. The banner is hidden only by a refresh that replaced every part
  but the host and whose rows could be drawn, and rows of replaced events are not
  the sample's. `IInv` is `SampleRowsMarked` and the types of the page;
  the run checks the first of them.
- **Query engine.** `EngineParsesTheGrammar`: the parser takes the conditions of
  the grammar and no others and gives each its tree, for every vocabulary and
  every length; so the grammar has no two trees for one condition, `not` binds
  tighter than `and`, `and` tighter than `or`, and chains group from the left. The
  table of the parser and that of the grammar are functions defined by recursion,
  so both are shown to exist first: what a production gives at a position depends
  on the results behind it (`LocalProduce`, `ParserTable`), the trees of a span on
  shorter spans (`SameDerive`, `TreesGrammar`). Induction is over sets of
  positions from the last to the first (`Downwards`) or over sets of lengths
  (`Upwards`), which takes no operator as a parameter. `ParserSound`: what
  is taken has the tree that is given, and what a loop adds prolongs the list or
  the chain on its left (`ListOn`, `ChainOn`, by `ChainGrows`). `ParserComplete`:
  every tree of a span is given if the token behind the span cannot go on with it;
  its first part is taken, and from there the loop gets wherever it would get
  from the end of the span and adds the other parts (`GoesTo`). `EngineCaseBlind`: two events
  that differ in case only give the same step of the evaluator at every tree, and
  functions defined by the same recursion are the same, so that no induction over
  trees is needed. `EngineBadRuleContained`: the alerts are the rules that match,
  in their order, and a rule that fails matches nothing wherever it stands
  (`AlertsMoved`). `EngineCutsIntoTokens`: at every position that is no space the
  next token of the lexer is the only one a text can be read on with (`TokenCut`),
  so that by induction from the end of the text there is one reading or none,
  the lexer's (`TextCut`). For a string this takes another induction
  (`EndsWhere`): the lexer skips what follows a backslash, and by counting the
  backslashes before it (`EscNext`) the quote it stops at is the first that is
  not escaped and the text it keeps is what the literal stands for. A letter is
  no digit, quote, space, bracket, comma or operator (`LexerAssumption`), as in
  `isIdentStart`. Texts other than `""` and `"1"` are no numbers in this model,
  and lower case has no lower case (`EqlAssumption`).

## Only model-checked

Every safety property of a passing run is proved but two of `MCEql`:
`ReadsAsWritten`, which rests on the recursive `Writer` and on
induction over trees, and `RulesMean`, which is about the constant rules and the
events given to TLC. Liveness under
fairness is out of the proof system's reach: `EveryLineRecorded`, `CatchesUp`,
`NeverDeaf`, `StaleNeverBlocks`, `OnlyLookupHangs`, `CopyRecovers` and
`BecomesCurrent` are checked only.

## Not modelled

Most columns of the tables and the JSON layout; hashing, signatures and host
context; the parse cache; the views of the page that are functions of `DATA`,
with styles and sample data; vendored code, build files and the placeholders for
planned sensors. `PROJECT.json` gives the reason for each.

## Plan

Done, in this order: `EventLog` and `Tail` with `AtLeastOnce`, `Enrichment`,
`KernelSession`, `Delivery`, `IngestKey`, `Dashboard`, `Eql`; then `Ingest`,
`Queries` with `Mitre`, `Lexer`, `Matcher`, the Hunt view, and the refinement of
`AtLeastOnce`.

To be modelled next: `Signature`, the embedded signature, the fallback to the
catalog and the handles both hold; the rest of the syntax of regular expressions
in `Eql`.

Proved: the theorems above. To be proved next: `ReadsAsWritten`, with `Writer`
as a function over the trees of `Engine` and one lemma per production.
