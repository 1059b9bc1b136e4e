------------------------------ MODULE Dashboard ------------------------------
(***************************************************************************)
(* The browser console, its Hunt view, and the four reads it makes of the  *)
(* backend.  Every REFRESH_MS, and on each press of the refresh button,    *)
(* refreshFromApi asks for the parts of the page all at once.  When all    *)
(* are answered it replaces DATA, hides the "DEMO DATA" banner and renders *)
(* everything, the Hunt results by the query that is in its box by then;   *)
(* as soon as one fails it shows the banner and leaves DATA alone.         *)
(* Nothing keeps two refreshes from being in flight together, and no fetch *)
(* has a time limit.                                                       *)
(*                                                                         *)
(* A part is abstracted to the state of the database it was read from: the *)
(* number of events stored.  The host is that of the newest event          *)
(* (getHost): if there is no event, or it names no host, the one on the    *)
(* page stays.  Event 0 stands for the bundled sample; rows come newest    *)
(* first, so a set of them will do.                                        *)
(***************************************************************************)
EXTENDS Integers

CONSTANTS
  Refresh,      \* bound: refreshes in flight at once
  Part,         \* what a refresh fetches: overview, events, alerts, host
  Host,         \* the one of them answered by /api/host
  Events,       \* ... and by /api/events
  FirstStored,  \* events in the database when the page opens
  MaxStored,    \* bound: events ever stored
  Named,        \* events that name their host, which an event need not do
  Text,         \* what the query box may hold
  Example,      \* the texts of the example chips
  Hits(_),      \* Hits(q): the events that query q finds, none if it is no query
  Undrawable    \* events a row cannot be drawn of: they have no user

Event == 0..MaxStored

ASSUME DashboardAssumption ==
  /\ {Host, Events} \subseteq Part /\ Host # Events
  /\ FirstStored \in Nat /\ MaxStored \in Nat /\ FirstStored <= MaxStored
  /\ Named \subseteq 1..MaxStored
  /\ Example \subseteq Text /\ 0 \notin Undrawable

VARIABLES
  up,       \* the backend is running
  hung,     \* ... but busy with a tick, or kept from its database by another
  stored,   \* events in its database
  fetching, \* each refresh: "idle", "waiting", or "cut" when a fetch failed
  asked,    \* the parts a refresh has no answer for yet
  reply,    \* the answers it has
  shown,    \* DATA: the database state each part was read from ...
  live,     \* ... for the parts that are not the bundled sample any more
  banner,   \* the DEMO DATA banner is visible
  settled,  \* history: a refresh has succeeded or failed
  box,      \* the text in the query box
  table,    \* the events in the rows of the Hunt table
  detail    \* the event in the detail pane, if any

backend == <<up, hung, stored>>
fetches == <<fetching, asked, reply>>
page == <<shown, live, banner, settled>>
hunt == <<box, table, detail>>
vars == <<backend, fetches, page, hunt>>

Database == FirstStored..MaxStored

TypeOK ==
  /\ up \in BOOLEAN /\ hung \in BOOLEAN /\ stored \in Database
  /\ fetching \in [Refresh -> {"idle", "waiting", "cut"}]
  /\ asked \in [Refresh -> SUBSET Part]
  /\ reply \in [Refresh -> [Part -> Database]]
  /\ shown \in [Part -> Database] /\ live \subseteq Part
  /\ banner \in BOOLEAN /\ settled \in BOOLEAN
  /\ box \in Text /\ table \subseteq Event
  /\ detail \subseteq Event

(* What the query in the box finds in a DATA.events read at state n.       *)
Found(text, isLive, n) == Hits(text) \cap (IF isLive THEN 1..n ELSE {0})

Rows == Found(box, Events \in live, shown[Events])

NoReply == [p \in Part |-> FirstStored]

Init ==
  /\ up \in BOOLEAN /\ hung = FALSE /\ stored = FirstStored
  /\ fetching = [r \in Refresh |-> "idle"]
  /\ asked = [r \in Refresh |-> {}]
  /\ reply = [r \in Refresh |-> NoReply]
  /\ shown = NoReply /\ live = {}
  /\ banner = FALSE /\ settled = FALSE
  /\ box \in Text /\ table = Found(box, FALSE, 0)
  /\ detail = {}

-----------------------------------------------------------------------------
(* The backend: it stores events while it runs, answers each GET from the  *)
(* database as it is, and may stop and start.  While a tick has much to    *)
(* store it does not answer, while a statement fails it answers HTTP 500.  *)
Ingest ==
  /\ up /\ stored < MaxStored /\ stored' = stored + 1
  /\ UNCHANGED <<up, hung, fetches, page, hunt>>

Hang ==
  /\ up /\ hung' = ~ hung
  /\ UNCHANGED <<up, stored, fetches, page, hunt>>

Answer(r, p) ==
  /\ up /\ ~ hung /\ fetching[r] = "waiting" /\ p \in asked[r]
  /\ reply' = [reply EXCEPT ![r][p] = stored]
  /\ asked' = [asked EXCEPT ![r] = @ \ {p}]
  /\ UNCHANGED <<backend, fetching, page, hunt>>

Refuse(r) ==
  /\ up /\ hung /\ fetching[r] = "waiting" /\ asked[r] # {}
  /\ fetching' = [fetching EXCEPT ![r] = "cut"]
  /\ UNCHANGED <<backend, asked, reply, page, hunt>>

(* A stop cuts the fetches with no answer, and may cut answers on the way. *)
GoDown ==
  /\ up /\ up' = FALSE /\ hung' = FALSE
  /\ \E lost \in SUBSET Refresh :
       fetching' = [r \in Refresh |->
                      IF fetching[r] = "waiting" /\ (asked[r] # {} \/ r \in lost)
                      THEN "cut" ELSE fetching[r]]
  /\ UNCHANGED <<stored, asked, reply, page, hunt>>

ComeUp ==
  /\ ~ up /\ up' = TRUE
  /\ UNCHANGED <<hung, stored, fetches, page, hunt>>

-----------------------------------------------------------------------------
(* The Hunt view.  renderHunt replaces the rows, or throws before it does. *)
RenderHunt(rows) ==
  table' = IF rows \cap Undrawable = {} THEN rows ELSE table

EditQuery ==
  /\ box' \in Text \ {box}
  /\ UNCHANGED <<backend, fetches, page, table, detail>>

(* Run and Enter; an example chip writes its text into the box first.      *)
RunQuery(text) ==
  LET rows == Found(text, Events \in live, shown[Events])
  IN /\ box' = text /\ RenderHunt(rows)
     /\ detail' = IF rows \cap Undrawable = {} THEN {} ELSE detail
     /\ UNCHANGED <<backend, fetches, page>>

(* A row shows the event it was drawn of.                                  *)
ClickRow(e) ==
  /\ e \in table /\ detail' = {e}
  /\ UNCHANGED <<backend, fetches, page, box, table>>

-----------------------------------------------------------------------------
(* A refresh: on the timer or the button ...                               *)
StartRefresh(r) ==
  /\ fetching[r] = "idle"
  /\ fetching' = [fetching EXCEPT ![r] = "waiting"]
  /\ asked' = [asked EXCEPT ![r] = Part]
  /\ UNCHANGED <<backend, reply, page, hunt>>

HasHostname(r) == reply[r][Host] \in Named

Taken(r) == IF HasHostname(r) THEN Part ELSE Part \ {Host}

Finish(r) ==
  /\ fetching' = [fetching EXCEPT ![r] = "idle"]
  /\ asked' = [asked EXCEPT ![r] = {}]
  /\ reply' = [reply EXCEPT ![r] = NoReply]
  /\ settled' = TRUE
  /\ UNCHANGED <<backend, box>>

ApplyLeavesHunt(r) ==  \* the Hunt view is rendered by Run only
  /\ fetching[r] = "waiting" /\ asked[r] = {}
  /\ shown' = [p \in Part |-> IF p \in Taken(r) THEN reply[r][p] ELSE shown[p]]
  /\ live' = live \cup Taken(r) /\ banner' = FALSE
  /\ Finish(r) /\ UNCHANGED <<table, detail>>

(* ... all answered; rendering that throws ends in the catch as well ...   *)
Apply(r) ==
  /\ fetching[r] = "waiting" /\ asked[r] = {}
  /\ shown' = [p \in Part |-> IF p \in Taken(r) THEN reply[r][p] ELSE shown[p]]
  /\ live' = live \cup Taken(r)
  /\ LET rows == Found(box, TRUE, reply[r][Events])
     IN RenderHunt(rows) /\ banner' = (rows \cap Undrawable # {})
  /\ Finish(r) /\ UNCHANGED detail

FailSilently(r) ==  \* the sample data stays up, unmarked
  /\ fetching[r] = "cut" \/ (fetching[r] = "waiting" /\ ~ up /\ asked[r] # {})
  /\ Finish(r) /\ UNCHANGED <<shown, live, banner, table, detail>>

(* ... or one failed, or the backend is not there.                         *)
Fail(r) ==
  /\ fetching[r] = "cut" \/ (fetching[r] = "waiting" /\ ~ up /\ asked[r] # {})
  /\ banner' = TRUE
  /\ Finish(r) /\ UNCHANGED <<shown, live, table, detail>>

Operator ==
  \/ \E text \in Example \cup {box} : RunQuery(text)
  \/ EditQuery
  \/ \E e \in Event : ClickRow(e)

Next ==
  \/ Ingest \/ Hang \/ GoDown \/ ComeUp \/ Operator
  \/ \E r \in Refresh :
       \/ StartRefresh(r) \/ Apply(r) \/ Fail(r)
       \/ Refuse(r) \/ \E p \in Part : Answer(r, p)

Spec == Init /\ [][Next]_vars

(* setInterval keeps firing, a running backend answers, the page handles   *)
(* what its fetches bring.  Nothing says that the backend stays up, that   *)
(* it refuses anything, or that the operator does anything.                *)
FairSpec ==
  /\ Spec
  /\ \A r \in Refresh :
       /\ WF_vars(StartRefresh(r)) /\ WF_vars(Apply(r)) /\ WF_vars(Fail(r))
       /\ \A p \in Part : WF_vars(Answer(r, p))

-----------------------------------------------------------------------------
(* However refreshes overlap, and whatever is cut, refused or throws: once *)
(* one has ended, a page without the banner shows the sample in no part    *)
(* but the host, and in no row that an earlier rendering left behind.      *)
SampleRowsMarked == settled /\ ~ banner => Part \ {Host} \subseteq live /\ 0 \notin table

IInv == TypeOK /\ SampleRowsMarked

(* "If the backend answers, DATA is replaced with real telemetry ...; if   *)
(* not, the sample data stays up and a DEMO DATA banner makes that         *)
(* unambiguous": no part shows the sample without the banner.  The host of *)
(* a database that is empty, or whose newest event names none, does.       *)
SampleIsMarked == settled /\ ~ banner => live = Part

(* "A live connection is polled periodically to keep the console current": *)
(* once the backend stays up and answers, whatever refreshes were cut or   *)
(* hung before, the page comes to show the newest state of every part, the *)
(* host if the newest event names it; once the query in the box stays too, *)
(* also its rows, and no banner, unless an event it finds cannot be drawn. *)
Newest ==
  \A p \in Part : p # Host \/ stored \in Named => p \in live /\ shown[p] = stored

HuntCurrent ==
  LET rows == Found(box, TRUE, stored)
  IN rows \cap Undrawable = {} => table = rows /\ ~ banner

BecomesCurrent ==
  <>[](up /\ ~ hung) => /\ <>[]Newest
                        /\ <>[][box' = box]_vars => <>[]HuntCurrent
=============================================================================
