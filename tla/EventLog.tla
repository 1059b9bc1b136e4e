------------------------------ MODULE EventLog ------------------------------
(***************************************************************************)
(* The bytes of data/events.jsonl, the file through which the agent and    *)
(* the console's tailing ingestor meet: what one event's JSON line looks   *)
(* like to a reader that only knows byte positions, and what Node's        *)
(* Buffer.toString('utf8') makes of a piece of it.                         *)
(*                                                                         *)
(* The content of an event is abstracted to its identity and to the UTF-8  *)
(* class of each byte of its line; JSON syntax is abstracted to "these     *)
(* bytes are exactly the line of event e" (no proper prefix, proper suffix *)
(* or concatenation of compact JSON objects parses).                       *)
(***************************************************************************)
EXTENDS Naturals, Sequences, FiniteSets

CONSTANTS
  MaxEvents,  \* process launches the agent reports in one run of the model
  Body,       \* Body[e]: the UTF-8 class of each byte of event e's JSON line
  Hits        \* Hits[e]: how many detection rules match event e

Event == 1..MaxEvents

(* A lead byte opens a two-byte character, a cont byte completes it.       *)
Class == {"ascii", "lead", "cont"}

ASSUME LogAssumption ==
  /\ MaxEvents \in Nat
  /\ Body \in [Event -> Seq(Class)]
  /\ \A e \in Event : Body[e] # << >>
  /\ Hits \in [Event -> Nat]

(* One byte of the file: the at-th byte of event ev's line, the newline    *)
(* the sink writes after it, or the zero Buffer.alloc leaves where a read  *)
(* came back short.                                                        *)
Cell(e, i) == [ev |-> e, at |-> i]
NewLine    == [ev |-> 0, at |-> 0]
Zero       == [ev |-> 0, at |-> 1]

Byte == {NewLine, Zero} \cup
        {b \in [ev : Event, at : Nat \ {0}] : b.at <= Len(Body[b.ev])}

(* to_json_line: the bytes append_event_line writes before the newline.    *)
JsonLine(e) == [i \in 1..Len(Body[e]) |-> Cell(e, i)]

ClassOf(b) == IF b.ev = 0 THEN "ascii" ELSE Body[b.ev][b.at]

(* The positions of text whose byte is not part of a whole character.      *)
Broken(text) ==
  {i \in DOMAIN text :
     \/ /\ ClassOf(text[i]) = "lead"
        /\ ~ (i + 1 \in DOMAIN text /\ ClassOf(text[i + 1]) = "cont")
     \/ /\ ClassOf(text[i]) = "cont"
        /\ ~ (i - 1 \in DOMAIN text /\ ClassOf(text[i - 1]) = "lead")}

(* Buffer.byteLength(line, 'utf8') of a DECODED line: toString has turned  *)
(* every broken byte into U+FFFD, which encodes to three bytes.            *)
DecodedLength(line) == Len(line) + 2 * Cardinality(Broken(line))

(* Event e stands on a line of its own right after position a: a starts a  *)
(* line, the next bytes are exactly e's and a newline closes them.         *)
LineEnd(a, e) == a + Len(Body[e]) + 1

EventAt(bytes, a, e) ==
  /\ a = 0 \/ bytes[a] = NewLine
  /\ LineEnd(a, e) <= Len(bytes)
  /\ \A i \in 1..Len(Body[e]) : bytes[a + i] = Cell(e, i)
  /\ bytes[LineEnd(a, e)] = NewLine

(* The events on lines of their own that end at position p or before.      *)
EventsUpTo(bytes, p) ==
  {e \in Event : \E a \in 0..Len(bytes) : LineEnd(a, e) <= p /\ EventAt(bytes, a, e)}

EventsIn(bytes) == EventsUpTo(bytes, Len(bytes))
=============================================================================
