----------------------------- MODULE TailProofs -----------------------------
(* Theorems about Tail for every log, every set of consoles and every      *)
(* bound.                                                                  *)
EXTENDS Tail, FiniteSetTheorems, SequenceTheorems, TLAPS

(* A decoded line is at least as long as its bytes.                        *)
LEMMA DecodedLengthType ==
  ASSUME NEW text \in Seq(Byte)
  PROVE  DecodedLength(text) \in Nat
<1>1. IsFiniteSet(1..Len(text))
  BY FS_Interval
<1>2. Broken(text) \subseteq 1..Len(text)
  BY DEF Broken
<1>3. IsFiniteSet(Broken(text))
  BY <1>1, <1>2, FS_Subset
<1>4. Cardinality(Broken(text)) \in Nat
  BY <1>3, FS_CardinalityType
<1> QED
  BY <1>4 DEF DecodedLength

LEMMA SeqAppend ==
  ASSUME NEW S, NEW s \in Seq(S), NEW x \in S
  PROVE  /\ Append(s, x) \in Seq(S)
         /\ Len(Append(s, x)) = Len(s) + 1
         /\ \A i \in 1..Len(s) : Append(s, x)[i] = s[i]
         /\ Append(s, x)[Len(s) + 1] = x
  OBVIOUS

LEMMA SeqOfLength ==
  ASSUME NEW S, NEW n \in Int, NEW f \in [1..n -> S]
  PROVE  f \in Seq(S)
<1>1. CASE n \in Nat
  BY <1>1, SeqDef
<1>2. CASE n \notin Nat
  <2>1. 1..n = 1..0
    BY <1>2
  <2> QED
    BY <2>1, SeqDef
<1> QED
  BY <1>1, <1>2

LEMMA LineType ==
  ASSUME TypeOK, NEW c \in Console, NEW q \in 1..Len(con[c].buf), EndsLine(c, q)
  PROVE  /\ LineTo(c, q) \in Seq(Byte)
         /\ PastLine(c, q) \in ConsoleState
<1>1. con[c] \in ConsoleState
  BY DEF TypeOK
<1>2. LineTo(c, q) \in Seq(Byte)
  BY <1>1 DEF ConsoleState, LineTo, EndsLine
<1>3. DecodedLength(LineTo(c, q)) \in Nat
  BY <1>2, DecodedLengthType
<1>4. q \in Nat /\ con[c].consumed + DecodedLength(LineTo(c, q)) + 1 \in Nat
  BY <1>1, <1>3 DEF ConsoleState
<1>5. PastLine(c, q) \in ConsoleState
  BY <1>1, <1>4 DEF ConsoleState, PastLine
<1> QED
  BY <1>2, <1>5

LEMMA BoundTypes ==
  MaxStops \in Nat /\ MaxCrashes \in Nat /\ MaxTruncs \in Nat /\ MaxFaults \in Nat
BY TailAssumption

(* Every variable keeps its type.                                          *)
LEMMA TypeStep == TypeOK /\ [Next]_vars => TypeOK'
<1> SUFFICES ASSUME TypeOK, [Next]_vars PROVE TypeOK'
  OBVIOUS
<1>1. CASE AgentAppend
  <2>1. emitted' \in 0..MaxEvents /\ writing' \in 0..emitted' /\ written' = 0
    BY <1>1, LogAssumption DEF TypeOK, AgentAppend
  <2>2. writing' # 0 => Len(Body[writing']) \in Nat
    BY <2>1, LogAssumption DEF Event
  <2> QED
    BY <1>1, <2>1, <2>2 DEF TypeOK, AgentAppend, dbVars, budgetVars
<1>2. CASE AgentWriteByte
  <2>1. writing \in Event /\ Body[writing] \in Seq(Class)
    BY <1>2, LogAssumption DEF AgentWriteByte, TypeOK, Event
  <2>2. CASE written < Len(Body[writing])
    <3>1. Cell(writing, written + 1) \in Byte
      BY <2>1, <2>2 DEF Cell, Byte, TypeOK
    <3>a. file' = Append(file, Cell(writing, written + 1))
          /\ written' = written + 1 /\ writing' = writing
      BY <1>2, <2>2 DEF AgentWriteByte
    <3>2. file' \in Seq(Byte) /\ written' = written + 1 /\ writing' = writing
      BY <3>a, <3>1, SeqAppend DEF TypeOK
    <3>3. Len(Body[writing]) \in Nat /\ writing # 0
      BY <1>2, <2>1 DEF AgentWriteByte
    <3>4. written' \in Nat /\ written' <= IF writing' = 0 THEN 0 ELSE Len(Body[writing'])
      BY <2>2, <3>2, <3>3 DEF TypeOK
    <3> QED
      BY <1>2, <2>2, <3>2, <3>4 DEF TypeOK, AgentWriteByte, dbVars, budgetVars
  <2>3. CASE ~ (written < Len(Body[writing]))
    <3>0. file' = Append(file, NewLine) /\ NewLine \in Byte
      BY <1>2, <2>3 DEF AgentWriteByte, Byte
    <3>1. file' \in Seq(Byte)
      BY <3>0, SeqAppend DEF TypeOK
    <3>2. written' = 0 /\ writing' = 0 /\ logged' = logged \cup {writing}
      BY <1>2, <2>3 DEF AgentWriteByte
    <3> QED
      BY <1>2, <2>1, <3>1, <3>2 DEF TypeOK, AgentWriteByte, dbVars, budgetVars
  <2> QED
    BY <2>2, <2>3
<1>3. CASE AgentStop
  BY <1>3, BoundTypes DEF TypeOK, AgentStop, dbVars
<1>4. CASE Truncate
  BY <1>4, BoundTypes DEF TypeOK, Truncate, agentVars, dbVars
<1>5. ASSUME NEW c \in Console, ConsoleStart(c) \/ ConsoleCrash(c) \/ Tick(c)
      PROVE  TypeOK'
  <2>0. con[c] \in ConsoleState
    BY DEF TypeOK
  <2>a. Fresh("idle") \in ConsoleState /\ Fresh("down") \in ConsoleState
    BY DEF Fresh, ConsoleState
  <2>1. CASE ConsoleStart(c)
    BY <2>1, <2>a DEF TypeOK, ConsoleStart, SetConsole, agentVars, dbVars, budgetVars
  <2>2. CASE ConsoleCrash(c)
    BY <2>2, <2>a, BoundTypes DEF TypeOK, ConsoleCrash, SetConsole, agentVars, dbVars, budgetVars
  <2>3. CASE StatFile(c)
    <3>1. [con[c] EXCEPT !.pc = "offset", !.size = Len(file)] \in ConsoleState
      <4> DEFINE n == Len(file)
      <4>1. n \in Nat
        BY LenProperties DEF TypeOK
      <4> HIDE DEF n
      <4>2. [con[c] EXCEPT !.pc = "offset", !.size = n] \in ConsoleState
        BY <2>0, <4>1 DEF ConsoleState
      <4> QED
        BY <4>2 DEF n
    <3> QED
      BY <2>3, <3>1 DEF TypeOK, StatFile, SetConsole, agentVars, dbVars, budgetVars
  <2>4. CASE GetOffset(c)
    <3> DEFINE from == IF con[c].size < offset THEN 0 ELSE offset
    <3>0. from \in Nat
      BY <2>0 DEF TypeOK
    <3> HIDE DEF from
    <3>1. [con[c] EXCEPT !.pc = "read", !.base = from] \in ConsoleState
      BY <2>0, <3>0 DEF ConsoleState
    <3> USE DEF from
    <3> QED
      BY <2>4, <2>a, <3>1 DEF TypeOK, GetOffset, SetConsole, agentVars, dbVars, budgetVars
  <2>5. CASE ReadFile(c)
    <3> DEFINE b == [i \in 1..con[c].size - con[c].base |->
                       IF con[c].base + i <= Len(file) THEN file[con[c].base + i] ELSE Zero]
    <3>0. con[c].size - con[c].base \in Int
      BY <2>0 DEF ConsoleState
    <3>a. b \in [1..con[c].size - con[c].base -> Byte]
      <4>1. Zero \in Byte /\ con[c].base \in Nat /\ file \in Seq(Byte)
        BY <2>0 DEF ConsoleState, TypeOK, Byte
      <4> QED
        BY <3>0, <4>1
    <3>1. b \in Seq(Byte)
      BY <3>0, <3>a, SeqOfLength
    <3> HIDE DEF b
    <3>2. [con[c] EXCEPT !.pc = "lines", !.buf = b, !.pos = 0, !.consumed = 0] \in ConsoleState
      BY <2>0, <3>1 DEF ConsoleState
    <3> QED
      BY <2>5, <3>2 DEF b, TypeOK, ReadFile, SetConsole, agentVars, dbVars, budgetVars
  <2>6. ASSUME NEW q \in 1..Len(con[c].buf), SkipLine(c, q) PROVE TypeOK'
    <3>1. PastLine(c, q) \in ConsoleState
      BY <2>6, LineType DEF SkipLine
    <3> QED
      BY <2>6, <3>1 DEF TypeOK, SkipLine, SetConsole, agentVars, dbVars, budgetVars
  <2>7. ASSUME NEW q \in 1..Len(con[c].buf), NEW e \in Event, StoreEvent(c, q, e)
        PROVE  TypeOK'
    <3>1. PastLine(c, q) \in ConsoleState
      BY <2>7, LineType DEF StoreEvent
    <3> DEFINE pc == IF Hits[e] = 0 THEN "lines" ELSE "alerts"
    <3>a. pc \in {"lines", "alerts"} /\ Len(store) + 1 \in Nat
      BY DEF TypeOK
    <3> HIDE DEF pc
    <3>2. [PastLine(c, q) EXCEPT !.pc = pc, !.row = Len(store) + 1] \in ConsoleState
      BY <3>1, <3>a DEF ConsoleState
    <3> USE DEF pc
    <3>3. store' \in Seq(Row)
      BY <2>7 DEF TypeOK, StoreEvent, Row
    <3> QED
      BY <2>7, <3>2, <3>3 DEF TypeOK, StoreEvent, SetConsole, agentVars, budgetVars
  <2>8. ASSUME NEW q \in 1..Len(con[c].buf), NEW e \in Event, StoreEventFails(c, q, e)
        PROVE  TypeOK'
    <3>1. PastLine(c, q) \in ConsoleState
      BY <2>8, LineType DEF StoreEventFails
    <3> QED
      BY <2>8, <3>1, BoundTypes DEF TypeOK, StoreEventFails, SetConsole, agentVars, dbVars
  <2>9. CASE StoreAlert(c)
    <3> DEFINE r == con[c].row
               pc == IF store[r].alerts + 1 = Hits[store[r].ev] THEN "lines" ELSE "alerts"
    <3>1. store' \in Seq(Row)
      <4>1. store' = [store EXCEPT ![r].alerts = @ + 1]
        BY <2>9 DEF StoreAlert
      <4>2. CASE r \in DOMAIN store
        <5>0. store[r] \in Row
          BY <4>2, ElementOfSeq DEF TypeOK
        <5> DEFINE row == [store[r] EXCEPT !.alerts = @ + 1]
        <5>1. row \in Row
          BY <5>0 DEF Row
        <5>2. store' = [store EXCEPT ![r] = row]
          BY <4>1
        <5> HIDE DEF row
        <5> QED
          BY <4>2, <5>1, <5>2, ExceptSeq DEF TypeOK
      <4>3. CASE r \notin DOMAIN store
        <5>1. store' = store
          BY <4>1, <4>3, LenProperties DEF TypeOK
        <5> QED
          BY <5>1 DEF TypeOK
      <4> QED
        BY <4>2, <4>3
    <3>2. [con[c] EXCEPT !.pc = pc] \in ConsoleState
      BY <2>0 DEF ConsoleState
    <3> QED
      BY <2>9, <3>1, <3>2 DEF TypeOK, StoreAlert, SetConsole, agentVars, budgetVars
  <2>10. CASE StoreAlertFails(c)
    <3>1. [con[c] EXCEPT !.pc = "lines"] \in ConsoleState
      BY <2>0 DEF ConsoleState
    <3> QED
      BY <2>10, <3>1, BoundTypes DEF TypeOK, StoreAlertFails, SetConsole, agentVars, dbVars
  <2>11. CASE SetOffset(c)
    <3>1. con[c].base + con[c].consumed \in Nat
      BY <2>0 DEF ConsoleState
    <3> QED
      BY <2>11, <2>a, <3>1 DEF TypeOK, SetOffset, SetConsole, agentVars, budgetVars
  <2>12. CASE SetOffsetFails(c)
    BY <2>12, <2>a, BoundTypes DEF TypeOK, SetOffsetFails, SetConsole, agentVars, dbVars
  <2> QED
    BY <1>5, <2>1, <2>2, <2>3, <2>4, <2>5, <2>6, <2>7, <2>8, <2>9, <2>10, <2>11, <2>12
    DEF Tick, NextLine
<1>6. CASE UNCHANGED vars
  BY <1>6 DEF TypeOK, vars, agentVars, dbVars, budgetVars
<1> QED
  BY <1>1, <1>2, <1>3, <1>4, <1>5, <1>6 DEF Next, Agent

(* Type correctness, for every log and every number of consoles.           *)
THEOREM TypeCorrect == Spec => []TypeOK
<1>1. Init => TypeOK
  BY LogAssumption, TailAssumption DEF Init, TypeOK, Fresh, ConsoleState, Event
<1> QED
  BY <1>1, TypeStep, PTL DEF Spec

-----------------------------------------------------------------------------
(* Lines.                                                                  *)

LEMMA BodyType ==
  ASSUME NEW e \in Event
  PROVE  /\ Body[e] \in Seq(Class) /\ Len(Body[e]) \in Nat \ {0}
         /\ \A i : Cell(e, i) # NewLine
<1>1. Body[e] \in Seq(Class) /\ Body[e] # << >> /\ e # 0
  BY LogAssumption DEF Event
<1>2. Len(Body[e]) \in Nat \ {0}
  BY <1>1, EmptySeq
<1> QED
  BY <1>1, <1>2 DEF Cell, NewLine

(* Appending a byte leaves the events before the old end as they were.     *)
LEMMA AppendKeepsEvents ==
  ASSUME NEW bytes \in Seq(Byte), NEW x \in Byte, NEW p \in 0..Len(bytes)
  PROVE  EventsUpTo(Append(bytes, x), p) = EventsUpTo(bytes, p)
<1> DEFINE more == Append(bytes, x)
<1>1. /\ Len(more) = Len(bytes) + 1 /\ Len(bytes) \in Nat
      /\ \A i \in 1..Len(bytes) : more[i] = bytes[i]
  BY SeqAppend
<1> HIDE DEF more
<1>2. ASSUME NEW e \in Event, NEW a \in Nat, LineEnd(a, e) <= p
      PROVE  EventAt(more, a, e) <=> EventAt(bytes, a, e)
  <2>1. Len(Body[e]) \in Nat \ {0}
    BY BodyType
  <2>2. /\ a \in Nat /\ a + Len(Body[e]) + 1 <= Len(bytes)
        /\ LineEnd(a, e) = a + Len(Body[e]) + 1
    BY <1>2, <2>1 DEF LineEnd
  <2>3. a = 0 \/ more[a] = bytes[a]
    BY <1>1, <2>1, <2>2
  <2>4. \A i \in 1..Len(Body[e]) : more[a + i] = bytes[a + i]
    BY <1>1, <2>1, <2>2
  <2>5. more[LineEnd(a, e)] = bytes[LineEnd(a, e)] /\ LineEnd(a, e) <= Len(more)
    BY <1>1, <2>1, <2>2
  <2> QED
    BY <2>2, <2>3, <2>4, <2>5 DEF EventAt
<1>3. ASSUME NEW e \in Event, NEW a \in Nat, LineEnd(a, e) <= p
      PROVE  a \in 0..Len(bytes) /\ a \in 0..Len(more)
  <2>1. Len(Body[e]) \in Nat \ {0}
    BY BodyType
  <2> QED
    BY <1>1, <1>3, <2>1 DEF LineEnd
<1>4. EventsUpTo(more, p) \subseteq EventsUpTo(bytes, p)
  BY <1>1, <1>2, <1>3 DEF EventsUpTo
<1>5. EventsUpTo(bytes, p) \subseteq EventsUpTo(more, p)
  BY <1>1, <1>2, <1>3 DEF EventsUpTo
<1> QED
  BY <1>4, <1>5 DEF more

LEMMA EventsGrow ==
  ASSUME NEW bytes \in Seq(Byte), NEW x \in Byte
  PROVE  EventsIn(bytes) \subseteq EventsIn(Append(bytes, x))
<1>1. Len(bytes) \in Nat /\ Len(Append(bytes, x)) = Len(bytes) + 1 /\ Append(bytes, x) \in Seq(Byte)
  BY SeqAppend
<1>2. EventsUpTo(Append(bytes, x), Len(bytes)) = EventsIn(bytes)
  BY <1>1, AppendKeepsEvents DEF EventsIn
<1>3. \A e \in Event, a \in Nat :
        LineEnd(a, e) <= Len(bytes) => LineEnd(a, e) <= Len(Append(bytes, x))
  BY <1>1, BodyType DEF LineEnd
<1>4. EventsUpTo(Append(bytes, x), Len(bytes)) \subseteq EventsIn(Append(bytes, x))
  BY <1>1, <1>3 DEF EventsUpTo, EventsIn
<1> QED
  BY <1>2, <1>4

LEMMA NoEventsAtStart ==
  ASSUME NEW bytes \in Seq(Byte)
  PROVE  EventsUpTo(bytes, 0) = {}
<1> SUFFICES ASSUME NEW e \in Event, NEW a \in 0..Len(bytes), LineEnd(a, e) <= 0
             PROVE  FALSE
  BY DEF EventsUpTo
<1>1. Len(Body[e]) \in Nat \ {0}
  BY BodyType
<1>2. a \in Nat
  OBVIOUS
<1> QED
  BY <1>1, <1>2 DEF LineEnd

(* Between two line boundaries p and r with no newline in between there is *)
(* one line: an event that ends at r or before ends at p or before, or is  *)
(* exactly that line.                                                      *)
LEMMA OneLine ==
  ASSUME NEW bytes \in Seq(Byte), NEW p \in Nat, NEW r \in p + 1..Len(bytes),
         p = 0 \/ bytes[p] = NewLine,
         \A i \in p + 1..r - 1 : bytes[i] # NewLine,
         NEW e \in EventsUpTo(bytes, r)
  PROVE  \/ e \in EventsUpTo(bytes, p)
         \/ /\ LineEnd(p, e) = r
            /\ \A i \in 1..Len(Body[e]) : bytes[p + i] = Cell(e, i)
<1>1. e \in Event
  BY DEF EventsUpTo
<1> DEFINE n == Len(Body[e])
<1>2. n \in Nat \ {0} /\ \A i : Cell(e, i) # NewLine
  BY <1>1, BodyType
<1>3. PICK a \in 0..Len(bytes) : LineEnd(a, e) <= r /\ EventAt(bytes, a, e)
  BY DEF EventsUpTo
<1>4. /\ a \in Nat /\ Len(bytes) \in Nat /\ r \in Nat
      /\ LineEnd(a, e) = a + n + 1
      /\ a = 0 \/ bytes[a] = NewLine
      /\ \A i \in 1..n : bytes[a + i] = Cell(e, i)
      /\ bytes[a + n + 1] = NewLine
  BY <1>3 DEF EventAt, LineEnd
<1> HIDE DEF n
<1>5. CASE LineEnd(a, e) <= p
  BY <1>1, <1>3, <1>5 DEF EventsUpTo
<1>6. CASE ~ (LineEnd(a, e) <= p)
  <2>1. a + n + 1 = r
    <3>1. a + n + 1 \in p + 1..r
      BY <1>2, <1>3, <1>4, <1>6
    <3> QED
      BY <1>4, <3>1
  <2>2. ~ (a < p)
    <3> SUFFICES ASSUME a < p PROVE FALSE
      OBVIOUS
    <3>1. p - a \in 1..n /\ bytes[p] = NewLine
      BY <1>2, <1>4, <2>1
    <3>2. bytes[a + (p - a)] = Cell(e, p - a)
      BY <1>4, <3>1
    <3>3. a + (p - a) = p
      BY <1>4
    <3> QED
      BY <1>2, <3>1, <3>2, <3>3
  <2>3. ~ (a > p)
    <3> SUFFICES ASSUME a > p PROVE FALSE
      OBVIOUS
    <3>1. a \in p + 1..r - 1 /\ bytes[a] = NewLine
      BY <1>2, <1>4, <2>1
    <3> QED
      BY <3>1
  <2>4. a = p
    BY <1>4, <2>2, <2>3
  <2> QED
    BY <1>4, <2>1, <2>4 DEF n
<1> QED
  BY <1>5, <1>6

(* A line cut out of an intact file decodes to as many bytes as it has.    *)
LEMMA WholeCharacters ==
  ASSUME NEW p \in Nat, NEW r \in p + 1..Len(file),
         file \in Seq(Byte), Intact,
         p = 0 \/ file[p] = NewLine, file[r] = NewLine,
         NEW line \in Seq(Byte), Len(line) = r - 1 - p,
         \A i \in 1..Len(line) : line[i] = file[p + i]
  PROVE  DecodedLength(line) = r - 1 - p
<1>0. Len(file) \in Nat /\ DOMAIN file = 1..Len(file) /\ DOMAIN line = 1..Len(line)
      /\ r \in Nat
  BY LenProperties
<1>1. ASSUME NEW i \in Broken(line) PROVE FALSE
  <2>1. i \in 1..Len(line) /\ p + i \in 1..Len(file) /\ p + i < r
    BY <1>0, <1>1 DEF Broken
  <2>a. p + i # Len(file)
    <3> SUFFICES ASSUME p + i = Len(file) PROVE FALSE
      OBVIOUS
    <3>1. Len(file) < r /\ r \in p + 1..Len(file) /\ Len(file) \in Nat
      BY <1>0, <2>1
    <3> QED
      BY <3>1
  <2>2. line[i] = file[p + i]
    BY <2>1
  <2>3. ClassOf(NewLine) = "ascii"
    BY DEF ClassOf, NewLine
  <2>4. CASE /\ ClassOf(line[i]) = "lead"
             /\ ~ (i + 1 \in DOMAIN line /\ ClassOf(line[i + 1]) = "cont")
    <3>1. ~ (ClassOf(file[p + i + 1]) = "cont")
      <4>1. CASE i + 1 \in 1..Len(line)
        <5>1. line[i + 1] = file[p + (i + 1)] /\ p + (i + 1) = p + i + 1
          BY <2>1, <4>1
        <5> QED
          BY <1>0, <2>4, <4>1, <5>1
      <4>2. CASE i + 1 \notin 1..Len(line)
        <5>1. p + i + 1 = r
          BY <1>0, <2>1, <4>2
        <5> QED
          BY <2>3, <5>1
      <4> QED
        BY <4>1, <4>2
    <3>2. p + i \in Broken(file)
      BY <1>0, <2>1, <2>2, <2>4, <3>1 DEF Broken
    <3> QED
      BY <2>a, <3>2 DEF Intact
  <2>5. CASE /\ ClassOf(line[i]) = "cont"
             /\ ~ (i - 1 \in DOMAIN line /\ ClassOf(line[i - 1]) = "lead")
    <3>1. ~ (p + i - 1 \in DOMAIN file /\ ClassOf(file[p + i - 1]) = "lead")
      <4>1. CASE i - 1 \in 1..Len(line)
        <5>1. line[i - 1] = file[p + (i - 1)] /\ p + (i - 1) = p + i - 1
          BY <2>1, <4>1
        <5> QED
          BY <1>0, <2>5, <4>1, <5>1
      <4>2. CASE i - 1 \notin 1..Len(line)
        <5>1. p + i - 1 = p
          BY <1>0, <2>1, <4>2
        <5> QED
          BY <1>0, <2>3, <5>1
      <4> QED
        BY <4>1, <4>2
    <3>2. p + i \in Broken(file)
      BY <1>0, <2>1, <2>2, <2>5, <3>1 DEF Broken
    <3> QED
      BY <2>a, <3>2 DEF Intact
  <2> QED
    BY <1>1, <2>4, <2>5 DEF Broken
<1>2. Broken(line) = {}
  BY <1>1
<1>3. Cardinality(Broken(line)) = 0
  BY <1>2, FS_EmptySet
<1> QED
  BY <1>0, <1>3 DEF DecodedLength

(* If the file is intact after a byte more, it was before.                 *)
LEMMA IntactBefore ==
  ASSUME file \in Seq(Byte), NEW x \in Byte, file' = Append(file, x), Intact'
  PROVE  Intact
<1>1. /\ Len(file') = Len(file) + 1 /\ Len(file) \in Nat
      /\ DOMAIN file = 1..Len(file) /\ DOMAIN file' = 1..Len(file) + 1
      /\ \A i \in 1..Len(file) : file'[i] = file[i]
  BY SeqAppend, LenProperties
<1> SUFFICES ASSUME NEW i \in Broken(file), i # Len(file) PROVE FALSE
  BY DEF Intact
<1>2. i \in 1..Len(file) /\ i + 1 \in 1..Len(file)
  BY <1>1 DEF Broken
<1>3. i \in Broken(file')
  <2>1. file'[i] = file[i] /\ file'[i + 1] = file[i + 1]
    BY <1>1, <1>2
  <2>2. ASSUME i - 1 \in DOMAIN file'
        PROVE  i - 1 \in DOMAIN file /\ file'[i - 1] = file[i - 1]
    <3>0. Len(file) \in Nat /\ i - 1 \in 1..Len(file) + 1
      BY <1>1, <2>2
    <3>1. i - 1 \in 1..Len(file)
      BY <3>0, <1>2
    <3> QED
      BY <1>1, <3>1
  <2>3. i \in DOMAIN file'
    <3>1. Len(file) \in Nat /\ DOMAIN file' = 1..Len(file) + 1
      BY <1>1
    <3> QED
      BY <1>2, <3>1
  <2> QED
    BY <1>1, <1>2, <2>1, <2>2, <2>3 DEF Broken
<1>4. i # Len(file')
  <2>1. Len(file) \in Nat /\ Len(file') = Len(file) + 1
    BY <1>1
  <2> QED
    BY <2>1, <1>2
<1> QED
  BY <1>3, <1>4 DEF Intact

-----------------------------------------------------------------------------
(* The invariant, step by step.                                            *)

LEMMA ConsoleUpdate ==
  ASSUME TypeOK, NEW c \in Console, NEW s, SetConsole(c, s)
  PROVE  con'[c] = s /\ \A d \in Console : d # c => con'[d] = con[d]
BY DEF TypeOK, SetConsole

LEMMA BufferType ==
  ASSUME TypeOK, NEW c \in Console
  PROVE  /\ con[c].buf \in Seq(Byte) /\ Len(con[c].buf) \in Nat
         /\ con[c].base \in Nat /\ con[c].pos \in Nat /\ con[c].size \in Nat
         /\ con[c].consumed \in Nat /\ con[c].row \in Nat
         /\ file \in Seq(Byte) /\ Len(file) \in Nat /\ offset \in Nat
<1>1. con[c] \in ConsoleState /\ file \in Seq(Byte) /\ offset \in Nat
  BY DEF TypeOK
<1>2. con[c].buf \in Seq(Byte)
  BY <1>1 DEF ConsoleState
<1> QED
  BY <1>1, <1>2, LenProperties DEF ConsoleState

LEMMA BoundaryInFile ==
  ASSUME TypeOK, NEW p \in Nat, Boundary(p)
  PROVE  p \in 0..Len(file)
<1>1. DOMAIN file = 1..Len(file) /\ Len(file) \in Nat
  BY LenProperties DEF TypeOK
<1> QED
  BY <1>1 DEF Boundary

(* A byte more in the file moves no boundary.                              *)
LEMMA BoundaryStays ==
  ASSUME TypeOK, NEW x \in Byte, file' = Append(file, x), NEW p \in Nat, Boundary(p)
  PROVE  Boundary(p)' /\ EventsUpTo(file, p)' = EventsUpTo(file, p)
<1>1. file \in Seq(Byte) /\ Len(file) \in Nat /\ DOMAIN file = 1..Len(file)
  BY LenProperties DEF TypeOK
<1>2. /\ Len(file') = Len(file) + 1
      /\ \A i \in 1..Len(file) : file'[i] = file[i]
      /\ DOMAIN file' = 1..Len(file) + 1
  BY <1>1, SeqAppend, LenProperties
<1>3. p \in 0..Len(file)
  BY BoundaryInFile
<1>4. EventsUpTo(file', p) = EventsUpTo(file, p)
  BY <1>1, <1>3, AppendKeepsEvents
<1>5. CASE p = 0
  BY <1>4, <1>5 DEF Boundary
<1>6. CASE p # 0
  <2>1. p \in 1..Len(file) /\ file[p] = NewLine
    BY <1>1, <1>3, <1>6 DEF Boundary
  <2>2. p \in DOMAIN file' /\ file'[p] = NewLine
    BY <1>1, <1>2, <2>1
  <2> QED
    BY <1>4, <2>2 DEF Boundary
<1> QED
  BY <1>5, <1>6

(* A byte more in the file disturbs nothing.                               *)
LEMMA AppendStep ==
  ASSUME TypeOK, NEW lost, LogInv(lost), NEW x \in Byte, file' = Append(file, x),
         UNCHANGED <<offset, store, con>>
  PROVE  LogInv(lost)'
<1>1. file \in Seq(Byte) /\ Len(file) \in Nat /\ DOMAIN file = 1..Len(file)
  BY LenProperties DEF TypeOK
<1>2. /\ Len(file') = Len(file) + 1
      /\ \A i \in 1..Len(file) : file'[i] = file[i]
      /\ DOMAIN file' = 1..Len(file) + 1
  BY <1>1, SeqAppend, LenProperties
<1>4. /\ Boundary(offset) /\ Covered(offset, lost)
      /\ \A c \in Console : ConsoleInv(c, lost)
      /\ RowsOwned
  BY DEF LogInv
<1>5. \A p \in Nat :
        Boundary(p) => Boundary(p)' /\ EventsUpTo(file, p)' = EventsUpTo(file, p)
  BY BoundaryStays
<1>6. \A e : Recorded(e)' <=> Recorded(e)
  BY DEF Recorded
<1>7. (Boundary(offset) /\ Covered(offset, lost))'
  <2>1. offset \in Nat
    BY DEF TypeOK
  <2> QED
    BY <2>1, <1>4, <1>5, <1>6 DEF Covered
<1>8. ASSUME NEW c \in Console PROVE ConsoleInv(c, lost)'
  <2>1. /\ con[c].base \in Nat /\ con[c].base + con[c].pos \in Nat
        /\ con[c].size \in Nat /\ Len(con[c].buf) \in Nat
    BY BufferType
  <2>2. ConsoleInv(c, lost)
    BY <1>4
  <2>3. con[c].size <= Len(file) => con[c].size <= Len(file')
    BY <1>1, <1>2, <2>1
  <2>4. CASE con[c].pc = "read"
    <3>1. Boundary(con[c].base) /\ Covered(con[c].base, lost)
      BY <2>2, <2>4 DEF ConsoleInv
    <3>2. Boundary(con[c].base)' /\ Covered(con[c].base, lost)'
      BY <2>1, <3>1, <1>5, <1>6 DEF Covered
    <3> QED
      BY <2>2, <2>3, <2>4, <3>2 DEF ConsoleInv
  <2>5. CASE con[c].pc \in {"lines", "alerts"}
    <3>1. BufferIsFile(c) /\ PositionInv(c)
      BY <2>2, <2>5 DEF ConsoleInv
    <3>2. BufferIsFile(c)'
      <4>1. \A i \in 1..Len(con[c].buf) : con[c].base + i \in 1..Len(file)
        BY <1>1, <2>1, <3>1, SMTT(30) DEF BufferIsFile
      <4>2. con[c].base + Len(con[c].buf) <= Len(file')
        BY <1>1, <1>2, <2>1, <3>1 DEF BufferIsFile
      <4> QED
        BY <1>2, <3>1, <4>1, <4>2 DEF BufferIsFile
    <3>3. /\ Boundary(con[c].base + con[c].pos)'
          /\ EventsUpTo(file, con[c].base + con[c].pos)'
             = EventsUpTo(file, con[c].base + con[c].pos)
      BY <2>1, <3>1, <1>5 DEF PositionInv
    <3>4. PositionInv(c)'
      BY <3>1, <3>3 DEF PositionInv
    <3>5. Covered(con[c].base + con[c].pos, lost) => Covered(con[c].base + con[c].pos, lost)'
      BY <3>3, <1>6 DEF Covered
    <3> QED
      BY <2>2, <2>5, <3>2, <3>3, <3>4, <3>5, <1>6 DEF ConsoleInv, Covered
  <2> QED
    BY <2>2, <2>3, <2>4, <2>5 DEF ConsoleInv
<1>9. RowsOwned'
  BY <1>4 DEF RowsOwned
<1> QED
  BY <1>7, <1>8, <1>9 DEF LogInv

(* A step of one console, in which no event stops being recorded and the   *)
(* rows the other consoles work on stay as they are, keeps what is known   *)
(* of the others.                                                          *)
LEMMA OtherConsoles ==
  ASSUME TypeOK, NEW lost, NEW c \in Console, NEW d \in Console, d # c,
         ConsoleInv(d, lost), con'[d] = con[d], file' = file,
         \A e \in Event : Recorded(e) => Recorded(e)',
         con[d].pc = "alerts" =>
           con[d].row \in DOMAIN store' /\ store'[con[d].row] = store[con[d].row]
  PROVE  ConsoleInv(d, lost)'
<1>1. \A p : Boundary(p)' <=> Boundary(p)
  BY DEF Boundary
<1>2. \A p : EventsUpTo(file, p)' = EventsUpTo(file, p) /\ EventsUpTo(file, p) \subseteq Event
  BY DEF EventsUpTo
<1>3. \A p : Covered(p, lost) => Covered(p, lost)'
  BY <1>2 DEF Covered
<1>4. (BufferIsFile(d)' <=> BufferIsFile(d)) /\ (PositionInv(d)' <=> PositionInv(d))
  BY <1>1 DEF BufferIsFile, PositionInv
<1>5. con[d].pc = "alerts" => ConsoleInv(d, lost)'
  BY <1>2, <1>4 DEF ConsoleInv, Covered
<1>6. con[d].pc # "alerts" => ConsoleInv(d, lost)'
  BY <1>1, <1>3, <1>4 DEF ConsoleInv
<1> QED
  BY <1>5, <1>6

(* What LogInv needs after a console's step that leaves file, store and    *)
(* offset alone and ends outside the alert loop.                           *)
LEMMA LocalStep ==
  ASSUME TypeOK, NEW lost, LogInv(lost), WholeLog, NEW c \in Console, NEW s,
         SetConsole(c, s), s.pc # "alerts",
         file' = file, store' = store, offset' = offset,
         ConsoleInv(c, lost)'
  PROVE  LogInv(lost)'
<1>1. /\ Boundary(offset) /\ Covered(offset, lost)
      /\ \A d \in Console : ConsoleInv(d, lost)
      /\ RowsOwned
  BY DEF LogInv
<1>2. con'[c] = s /\ \A d \in Console : d # c => con'[d] = con[d]
  BY ConsoleUpdate
<1>3. \A e : Recorded(e)' <=> Recorded(e)
  BY DEF Recorded
<1>4. (Boundary(offset) /\ Covered(offset, lost))'
  BY <1>1, <1>3 DEF Boundary, Covered, EventsUpTo
<1>5. ASSUME NEW d \in Console, d # c PROVE ConsoleInv(d, lost)'
  <2>1. con[d].pc = "alerts" =>
          con[d].row \in DOMAIN store' /\ store'[con[d].row] = store[con[d].row]
    BY <1>1, <1>5 DEF ConsoleInv
  <2> QED
    BY <1>1, <1>2, <1>3, <1>5, <2>1, OtherConsoles
<1>6. RowsOwned'
  BY <1>1, <1>2 DEF RowsOwned
<1> QED
  BY <1>4, <1>5, <1>6 DEF LogInv

(* The next line of a console's buffer is a line of the file, of as many   *)
(* bytes as it decodes to; behind it the position is a boundary again, and *)
(* only an event that is this line comes to lie before the position.       *)
LEMMA NextLineInFile ==
  ASSUME TypeOK, NEW lost, WholeLog, NEW c \in Console, ConsoleInv(c, lost), con[c].pc = "lines",
         NEW q \in 1..Len(con[c].buf), EndsLine(c, q)
  PROVE  /\ q \in con[c].pos + 1..Len(con[c].buf)
         /\ con[c].consumed + DecodedLength(LineTo(c, q)) + 1 = q
         /\ Boundary(con[c].base + q)
         /\ \A e \in EventsUpTo(file, con[c].base + q) :
              Recorded(e) \/ e \in lost \/ LineTo(c, q) = JsonLine(e)
<1> DEFINE buf == con[c].buf
           base == con[c].base
           pos == con[c].pos
           line == LineTo(c, q)
<1>1. /\ buf \in Seq(Byte) /\ Len(buf) \in Nat /\ base \in Nat /\ pos \in Nat
      /\ file \in Seq(Byte) /\ Len(file) \in Nat
  BY BufferType
<1>2. BufferIsFile(c) /\ PositionInv(c) /\ Covered(base + pos, lost)
  BY DEF ConsoleInv
<1>3. /\ q \in pos + 1..Len(buf) /\ buf[q] = NewLine
      /\ \A i \in pos + 1..q - 1 : buf[i] # NewLine
  BY DEF EndsLine
<1>4. /\ base + Len(buf) <= Len(file)
      /\ \A i \in 1..Len(buf) : buf[i] = file[base + i]
  BY <1>2 DEF BufferIsFile
<1>5. con[c].consumed = pos /\ (base + pos = 0 \/ file[base + pos] = NewLine)
  BY <1>2 DEF PositionInv, Boundary
<1>6. line = SubSeq(buf, pos + 1, q - 1)
  BY DEF LineTo
<1> HIDE DEF buf, base, pos, line
<1>7. /\ line \in Seq(Byte) /\ Len(line) = q - 1 - pos /\ Len(line) \in Nat
      /\ \A i \in 1..Len(line) : line[i] = buf[pos + i]
  <2>1. pos + 1 \in Int /\ q - 1 \in Int /\ q \in Int
    BY <1>1, <1>3
  <2>2. \A i \in pos + 1..q - 1 : buf[i] \in Byte
    BY <1>1, <1>3, ElementOfSeq
  <2>3. /\ line \in Seq(Byte)
        /\ Len(line) = IF pos + 1 <= q - 1 THEN q - 1 - (pos + 1) + 1 ELSE 0
        /\ \A i \in 1..q - 1 - (pos + 1) + 1 : line[i] = buf[pos + 1 + i - 1]
    BY <1>6, <2>1, <2>2, SubSeqProperties
  <2>4. Len(line) = q - 1 - pos /\ Len(line) \in Nat
    BY <1>1, <1>3, <2>1, <2>3
  <2>5. ASSUME NEW i \in 1..Len(line) PROVE line[i] = buf[pos + i]
    <3>1. i \in 1..q - 1 - (pos + 1) + 1 /\ pos + 1 + i - 1 = pos + i
      BY <1>1, <2>1, <2>4
    <3> QED
      BY <2>3, <3>1
  <2> QED
    BY <2>3, <2>4, <2>5
<1>8. PICK p \in Nat : p = base + pos
  BY <1>1
<1>9. PICK r \in Nat : r = base + q
  BY <1>1, <1>3
<1>10. r \in p + 1..Len(file)
  BY <1>1, <1>3, <1>4, <1>8, <1>9
<1>11. file[r] = NewLine /\ (p = 0 \/ file[p] = NewLine)
  BY <1>3, <1>4, <1>5, <1>8, <1>9
<1>12. Len(line) = r - 1 - p
  BY <1>1, <1>3, <1>7, <1>8, <1>9
<1>13. ASSUME NEW i \in 1..Len(line) PROVE line[i] = file[p + i]
  <2>1. pos + i \in 1..Len(buf) /\ base + (pos + i) = p + i
    BY <1>1, <1>3, <1>7, <1>8
  <2>2. line[i] = buf[pos + i]
    BY <1>7
  <2> QED
    BY <1>4, <2>1, <2>2
<1>14. con[c].consumed + DecodedLength(line) + 1 = q
  <2>1. Intact
    BY DEF WholeLog
  <2>2. DecodedLength(line) = r - 1 - p
    BY <1>1, <1>7, <1>10, <1>11, <1>12, <1>13, <2>1, WholeCharacters
  <2> QED
    BY <1>1, <1>3, <1>5, <1>8, <1>9, <2>2
<1>15. Boundary(r)
  <2>1. DOMAIN file = 1..Len(file)
    BY <1>1, LenProperties
  <2>2. r \in 1..Len(file)
    BY <1>1, <1>10
  <2> QED
    BY <1>11, <2>1, <2>2 DEF Boundary
<1>16. ASSUME NEW e \in EventsUpTo(file, r)
       PROVE  Recorded(e) \/ e \in lost \/ line = JsonLine(e)
  <2>0. e \in Event
    BY DEF EventsUpTo
  <2>1. ASSUME NEW i \in p + 1..r - 1 PROVE file[i] # NewLine
    <3>1. /\ i - base \in pos + 1..q - 1 /\ i - base \in 1..Len(buf)
          /\ base + (i - base) = i
      <4>1. i \in Int /\ p + 1 <= i /\ i <= r - 1
        OBVIOUS
      <4>2. q \in Nat
        BY <1>1, <1>3
      <4> QED
        BY <1>1, <1>3, <1>8, <1>9, <4>1, <4>2, SMTT(30)
    <3> QED
      BY <1>3, <1>4, <3>1
  <2>2. \/ e \in EventsUpTo(file, p)
        \/ /\ LineEnd(p, e) = r
           /\ \A i \in 1..Len(Body[e]) : file[p + i] = Cell(e, i)
    BY <1>1, <1>10, <1>11, <2>1, OneLine
  <2>3. CASE e \in EventsUpTo(file, p)
    BY <1>2, <1>8, <2>3 DEF Covered
  <2>4. CASE /\ LineEnd(p, e) = r
             /\ \A i \in 1..Len(Body[e]) : file[p + i] = Cell(e, i)
    <3>1. Len(Body[e]) \in Nat
      BY <2>0, BodyType
    <3>2. Len(line) = Len(Body[e])
      <4>1. p + Len(Body[e]) + 1 = r
        BY <2>4 DEF LineEnd
      <4> QED
        BY <1>12, <3>1, <4>1
    <3>3. line = [i \in 1..Len(line) |-> line[i]]
      BY <1>7, LenProperties
    <3>4. \A i \in 1..Len(line) : line[i] = Cell(e, i)
      BY <1>13, <2>4, <3>2
    <3> QED
      BY <3>2, <3>3, <3>4 DEF JsonLine
  <2> QED
    BY <2>2, <2>3, <2>4
<1> QED
  BY <1>3, <1>9, <1>14, <1>15, <1>16 DEF buf, base, pos, line

(* Rows are only added, and an alert is only added to a row that lacks it: *)
(* what is recorded stays recorded.                                        *)
LEMMA StoredStays ==
  ASSUME TypeOK, NEW x \in Row, store' = Append(store, x)
  PROVE  /\ \A e : Recorded(e) => Recorded(e)'
         /\ \A i \in DOMAIN store : i \in DOMAIN store' /\ store'[i] = store[i]
         /\ Len(store) + 1 \in DOMAIN store' /\ store'[Len(store) + 1] = x
         /\ Len(store) + 1 \notin DOMAIN store
<1>1. store \in Seq(Row) /\ Len(store) \in Nat /\ DOMAIN store = 1..Len(store)
  BY LenProperties DEF TypeOK
<1>2. store' \in Seq(Row) /\ Len(store') = Len(store) + 1
  BY <1>1, SeqAppend
<1>3. DOMAIN store' = 1..Len(store) + 1
  BY <1>2, LenProperties
<1>4. \A i \in DOMAIN store : i \in DOMAIN store' /\ store'[i] = store[i]
  BY <1>1, <1>3, SeqAppend
<1>5. Len(store) + 1 \in DOMAIN store' /\ store'[Len(store) + 1] = x
  BY <1>1, <1>3, SeqAppend
<1>6. Len(store) + 1 \notin DOMAIN store
  BY <1>1
<1> QED
  BY <1>4, <1>5, <1>6 DEF Recorded

LEMMA AlertStays ==
  ASSUME TypeOK, NEW r \in DOMAIN store, store[r].alerts < Hits[store[r].ev],
         store' = [store EXCEPT ![r].alerts = @ + 1]
  PROVE  /\ \A e : Recorded(e) => Recorded(e)'
         /\ \A i \in DOMAIN store : i \in DOMAIN store' /\ (i # r => store'[i] = store[i])
         /\ store'[r] = [ev |-> store[r].ev, alerts |-> store[r].alerts + 1]
<1>1. store[r] \in Row
  BY ElementOfSeq, LenProperties DEF TypeOK
<1>2. /\ DOMAIN store' = DOMAIN store
      /\ \A i \in DOMAIN store : i # r => store'[i] = store[i]
      /\ store'[r] = [store[r] EXCEPT !.alerts = @ + 1]
  OBVIOUS
<1>3. store'[r] = [ev |-> store[r].ev, alerts |-> store[r].alerts + 1]
  BY <1>1, <1>2 DEF Row
<1>4. ASSUME NEW e, Recorded(e) PROVE Recorded(e)'
  <2>1. PICK i \in DOMAIN store : store[i] = [ev |-> e, alerts |-> Hits[e]]
    BY <1>4 DEF Recorded
  <2>2. store[r].alerts \in Nat /\ store[r].ev \in Event
    BY <1>1 DEF Row
  <2>3. i # r
    <3> SUFFICES ASSUME i = r PROVE FALSE
      OBVIOUS
    <3>1. store[r].ev = e /\ store[r].alerts = Hits[e]
      BY <2>1
    <3> QED
      BY <2>2, <3>1
  <2> QED
    BY <1>2, <2>1, <2>3 DEF Recorded
<1> QED
  BY <1>2, <1>3, <1>4

(* What the loop has done with a line leaves the console in a good state,  *)
(* provided everything before its new position is recorded.                *)
LEMMA PastLineGood ==
  ASSUME TypeOK, NEW lost, WholeLog, NEW c \in Console, ConsoleInv(c, lost), con[c].pc = "lines",
         NEW q \in 1..Len(con[c].buf), EndsLine(c, q),
         file' = file, con'[c].base = con[c].base, con'[c].buf = con[c].buf,
         con'[c].pos = q,
         con'[c].consumed = con[c].consumed + DecodedLength(LineTo(c, q)) + 1
  PROVE  BufferIsFile(c)' /\ PositionInv(c)'
<1>1. /\ con[c].consumed + DecodedLength(LineTo(c, q)) + 1 = q
      /\ Boundary(con[c].base + q)
  BY NextLineInFile
<1>2. BufferIsFile(c)'
  BY DEF ConsoleInv, BufferIsFile
<1>3. q \in 0..Len(con[c].buf)
  BY BufferType
<1>4. Boundary(con[c].base + q)'
  BY <1>1 DEF Boundary
<1> QED
  BY <1>1, <1>2, <1>3, <1>4 DEF PositionInv

LEMMA PastLineFields ==
  ASSUME TypeOK, NEW c \in Console, NEW q
  PROVE  PastLine(c, q) =
           [pc |-> con[c].pc, size |-> con[c].size, base |-> con[c].base,
            buf |-> con[c].buf, pos |-> q,
            consumed |-> con[c].consumed + DecodedLength(LineTo(c, q)) + 1,
            row |-> con[c].row]
<1>1. con[c] \in ConsoleState
  BY DEF TypeOK
<1> DEFINE n == con[c].consumed + DecodedLength(LineTo(c, q)) + 1
<1>2. PastLine(c, q) = [con[c] EXCEPT !.pos = q, !.consumed = n]
  BY DEF PastLine
<1> HIDE DEF n
<1>3. PastLine(c, q) =
        [pc |-> con[c].pc, size |-> con[c].size, base |-> con[c].base,
         buf |-> con[c].buf, pos |-> q, consumed |-> n, row |-> con[c].row]
  BY <1>1, <1>2 DEF ConsoleState
<1> QED
  BY <1>3 DEF n

LEMMA JsonLineInjective ==
  ASSUME NEW e \in Event, NEW f \in Event, JsonLine(f) = JsonLine(e)
  PROVE  f = e
<1>1. 1 \in 1..Len(Body[f]) /\ 1 \in 1..Len(Body[e])
  BY BodyType
<1>2. JsonLine(f)[1] = Cell(f, 1) /\ JsonLine(e)[1] = Cell(e, 1)
  BY <1>1 DEF JsonLine
<1> QED
  BY <1>2 DEF Cell

LEMMA StoreEventStep ==
  ASSUME TypeOK, NEW lost, LogInv(lost), WholeLog, NEW c \in Console,
         NEW q \in 1..Len(con[c].buf), NEW e \in Event, StoreEvent(c, q, e)
  PROVE  LogInv(lost)'
<1> DEFINE x == [ev |-> e, alerts |-> 0]
           s == [PastLine(c, q) EXCEPT
                   !.pc = IF Hits[e] = 0 THEN "lines" ELSE "alerts",
                   !.row = Len(store) + 1]
<1>1. /\ con[c].pc = "lines" /\ EndsLine(c, q) /\ LineTo(c, q) = JsonLine(e)
      /\ store' = Append(store, x) /\ file' = file /\ offset' = offset
      /\ SetConsole(c, s)
  BY DEF StoreEvent
<1>2. x \in Row /\ Hits[e] \in Nat
  BY LogAssumption DEF Row
<1>3. /\ \A f : Recorded(f) => Recorded(f)'
      /\ \A i \in DOMAIN store : i \in DOMAIN store' /\ store'[i] = store[i]
      /\ Len(store) + 1 \in DOMAIN store' /\ store'[Len(store) + 1] = x
      /\ Len(store) + 1 \notin DOMAIN store
  BY <1>1, <1>2, StoredStays
<1>4. con'[c] = s /\ \A d \in Console : d # c => con'[d] = con[d]
  BY <1>1, ConsoleUpdate
<1>5. /\ s.pc = IF Hits[e] = 0 THEN "lines" ELSE "alerts"
      /\ s.row = Len(store) + 1 /\ s.base = con[c].base /\ s.buf = con[c].buf /\ s.pos = q
      /\ s.consumed = con[c].consumed + DecodedLength(LineTo(c, q)) + 1
  BY PastLineFields
<1> HIDE DEF s
<1>6. /\ Boundary(offset) /\ Covered(offset, lost)
      /\ \A d \in Console : ConsoleInv(d, lost)
      /\ RowsOwned
  BY DEF LogInv
<1>7. (Boundary(offset) /\ Covered(offset, lost))'
  BY <1>1, <1>3, <1>6 DEF Boundary, Covered, EventsUpTo
<1>8. ConsoleInv(c, lost)'
  <2>1. BufferIsFile(c)' /\ PositionInv(c)'
    BY <1>1, <1>4, <1>5, <1>6, PastLineGood
  <2>2. \A f \in EventsUpTo(file, con[c].base + q) :
          Recorded(f) \/ f \in lost \/ LineTo(c, q) = JsonLine(f)
    BY <1>1, <1>6, NextLineInFile
  <2>4. \A f \in EventsUpTo(file, con[c].base + q) : Recorded(f) \/ f \in lost \/ f = e
    BY <1>1, <2>2, JsonLineInjective DEF EventsUpTo
  <2>5. \A f \in EventsUpTo(file', con'[c].base + con'[c].pos) : Recorded(f)' \/ f \in lost \/ f = e
    BY <1>1, <1>3, <1>4, <1>5, <2>4
  <2>6. CASE Hits[e] = 0
    <3>1. Recorded(e)'
      BY <1>3, <2>6 DEF Recorded
    <3> QED
      BY <1>4, <1>5, <2>1, <2>5, <2>6, <3>1 DEF ConsoleInv, Covered
  <2>7. CASE Hits[e] # 0
    <3>1. con'[c].pc = "alerts" /\ con'[c].row = Len(store) + 1
      BY <1>4, <1>5, <2>7
    <3>2. store'[con'[c].row].alerts < Hits[store'[con'[c].row].ev]
      BY <1>2, <1>3, <2>7, <3>1
    <3>3. con'[c].row \in DOMAIN store' /\ store'[con'[c].row].ev = e
      BY <1>3, <3>1
    <3> QED
      BY <2>1, <2>5, <3>1, <3>2, <3>3 DEF ConsoleInv, Covered
  <2> QED
    BY <2>6, <2>7
<1>9. ASSUME NEW d \in Console, d # c PROVE ConsoleInv(d, lost)'
  <2>1. con[d].pc = "alerts" =>
          con[d].row \in DOMAIN store' /\ store'[con[d].row] = store[con[d].row]
    BY <1>3, <1>6, <1>9 DEF ConsoleInv
  <2> QED
    BY <1>1, <1>3, <1>4, <1>6, <1>9, <2>1, OtherConsoles
<1>10. RowsOwned'
  <2>1. \A d \in Console : con[d].pc = "alerts" => con[d].row # Len(store) + 1
    BY <1>3, <1>6 DEF ConsoleInv
  <2> QED
    BY <1>4, <1>5, <1>6, <2>1 DEF RowsOwned
<1> QED
  BY <1>7, <1>8, <1>9, <1>10 DEF LogInv

LEMMA StoreAlertStep ==
  ASSUME TypeOK, NEW lost, LogInv(lost), WholeLog, NEW c \in Console, StoreAlert(c)
  PROVE  LogInv(lost)'
<1> DEFINE r == con[c].row
           s == [con[c] EXCEPT
             !.pc = IF store[r].alerts + 1 = Hits[store[r].ev] THEN "lines" ELSE "alerts"]
<1>1. /\ con[c].pc = "alerts" /\ SetConsole(c, s)
      /\ store' = [store EXCEPT ![r].alerts = @ + 1] /\ file' = file /\ offset' = offset
  BY DEF StoreAlert
<1>2. /\ Boundary(offset) /\ Covered(offset, lost)
      /\ \A d \in Console : ConsoleInv(d, lost)
      /\ RowsOwned
  BY DEF LogInv
<1>3. /\ r \in DOMAIN store /\ store[r].alerts < Hits[store[r].ev]
      /\ BufferIsFile(c) /\ PositionInv(c)
      /\ \A e \in EventsUpTo(file, con[c].base + con[c].pos) :
           Recorded(e) \/ e \in lost \/ e = store[r].ev
  BY <1>1, <1>2 DEF ConsoleInv, Covered
<1>4. con'[c] = s /\ \A d \in Console : d # c => con'[d] = con[d]
  BY <1>1, ConsoleUpdate
<1>5. /\ s.pc = IF store[r].alerts + 1 = Hits[store[r].ev] THEN "lines" ELSE "alerts"
      /\ s.row = r /\ s.base = con[c].base /\ s.buf = con[c].buf
      /\ s.pos = con[c].pos /\ s.consumed = con[c].consumed
  <2>1. con[c] \in ConsoleState
    BY DEF TypeOK
  <2> QED
    BY <2>1 DEF ConsoleState
<1>6. store[r].alerts \in Nat /\ store[r].ev \in Event /\ Hits[store[r].ev] \in Nat
  <2>1. store[r] \in Row
    BY <1>3, ElementOfSeq, LenProperties DEF TypeOK
  <2> QED
    BY <2>1, LogAssumption DEF Row
<1> HIDE DEF r, s
<1>7. /\ \A e : Recorded(e) => Recorded(e)'
      /\ \A i \in DOMAIN store : i \in DOMAIN store' /\ (i # r => store'[i] = store[i])
      /\ store'[r] = [ev |-> store[r].ev, alerts |-> store[r].alerts + 1]
  BY <1>1, <1>3, AlertStays
<1>8. (Boundary(offset) /\ Covered(offset, lost))'
  BY <1>1, <1>2, <1>7 DEF Boundary, Covered, EventsUpTo
<1>9. ConsoleInv(c, lost)'
  <2>1. BufferIsFile(c)' /\ PositionInv(c)'
    BY <1>1, <1>3, <1>4, <1>5 DEF BufferIsFile, PositionInv, Boundary
  <2>2. \A e \in EventsUpTo(file', con'[c].base + con'[c].pos) :
          Recorded(e)' \/ e \in lost \/ e = store[r].ev
    BY <1>1, <1>3, <1>4, <1>5, <1>7
  <2>3. CASE store[r].alerts + 1 = Hits[store[r].ev]
    <3>0. PICK f \in Event : f = store[r].ev
      BY <1>6
    <3>1. Recorded(f)'
      BY <1>3, <1>7, <2>3, <3>0 DEF Recorded
    <3>2. con'[c].pc = "lines"
      BY <1>4, <1>5, <2>3
    <3>3. Covered(con[c].base + con[c].pos, lost)'
      BY <2>2, <3>0, <3>1 DEF Covered
    <3> QED
      BY <2>1, <3>2, <3>3 DEF ConsoleInv
  <2>4. CASE store[r].alerts + 1 # Hits[store[r].ev]
    <3>1. con'[c].pc = "alerts" /\ con'[c].row = r
      BY <1>4, <1>5, <2>4
    <3>2. store'[r].alerts < Hits[store'[r].ev] /\ store'[r].ev = store[r].ev
      BY <1>3, <1>6, <1>7, <2>4
    <3>3. r \in DOMAIN store'
      BY <1>3, <1>7
    <3> QED
      BY <2>1, <2>2, <3>1, <3>2, <3>3 DEF ConsoleInv, Covered
  <2> QED
    BY <2>3, <2>4
<1>10. ASSUME NEW d \in Console, d # c PROVE ConsoleInv(d, lost)'
  <2>1. con[d].pc = "alerts" => con[d].row \in DOMAIN store /\ con[d].row # r
    BY <1>1, <1>2, <1>10 DEF ConsoleInv, RowsOwned, r
  <2> QED
    BY <1>1, <1>2, <1>4, <1>7, <1>10, <2>1, OtherConsoles
<1>11. RowsOwned'
  BY <1>1, <1>2, <1>4, <1>5 DEF RowsOwned, r
<1> QED
  BY <1>8, <1>9, <1>10, <1>11 DEF LogInv

LEMMA StatFileStep ==
  ASSUME TypeOK, NEW lost, LogInv(lost), WholeLog, NEW c \in Console, StatFile(c)
  PROVE  LogInv(lost)'
<1> DEFINE s == [con[c] EXCEPT !.pc = "offset", !.size = Len(file)]
<1>1. SetConsole(c, s) /\ file' = file /\ store' = store /\ offset' = offset
  BY DEF StatFile, dbVars
<1>2. s.pc = "offset" /\ s.size = Len(file)
  BY DEF TypeOK, ConsoleState
<1>3. con'[c] = s
  BY <1>1, ConsoleUpdate
<1> HIDE DEF s
<1>4. Len(file) \in Nat
  BY LenProperties DEF TypeOK
<1>5. ConsoleInv(c, lost)'
  BY <1>1, <1>2, <1>3, <1>4 DEF ConsoleInv
<1> QED
  BY <1>1, <1>2, <1>5, LocalStep

LEMMA GetOffsetStep ==
  ASSUME TypeOK, NEW lost, LogInv(lost), WholeLog, NEW c \in Console, GetOffset(c)
  PROVE  LogInv(lost)'
<1> DEFINE from == IF con[c].size < offset THEN 0 ELSE offset
           t == [con[c] EXCEPT !.pc = "read", !.base = from]
           s == IF con[c].size <= from THEN Fresh("idle") ELSE t
<1>1. /\ con[c].pc = "offset"
      /\ SetConsole(c, s) /\ file' = file /\ store' = store /\ offset' = offset
  BY DEF GetOffset, dbVars
<1>2. t.pc = "read" /\ t.base = from /\ t.size = con[c].size
  BY DEF TypeOK, ConsoleState
<1>3. con'[c] = s
  BY <1>1, ConsoleUpdate
<1>4. con[c].size <= Len(file) /\ Boundary(offset) /\ Covered(offset, lost)
  BY <1>1 DEF LogInv, ConsoleInv
<1>5. con[c].size \in Nat /\ offset \in Nat /\ file \in Seq(Byte)
  BY BufferType
<1>6. Boundary(from) /\ Covered(from, lost)
  <2>1. Boundary(0) /\ Covered(0, lost)
    BY <1>5, NoEventsAtStart DEF Boundary, Covered
  <2> QED
    BY <1>4, <2>1
<1>7. from \in Nat
  BY <1>5
<1>8. CASE con[c].size <= from
  <2>1. s = Fresh("idle")
    BY <1>8
  <2>2. s.pc = "idle"
    BY <2>1 DEF Fresh
  <2> HIDE DEF s
  <2>3. ConsoleInv(c, lost)'
    BY <1>3, <2>2 DEF ConsoleInv
  <2> QED
    BY <1>1, <2>2, <2>3, LocalStep
<1>9. CASE ~ (con[c].size <= from)
  <2>1. s = t
    BY <1>9
  <2> HIDE DEF s, t
  <2>2. s.pc = "read" /\ s.base = from /\ s.size = con[c].size
    BY <1>2, <2>1
  <2>3. from < con[c].size
    BY <1>5, <1>7, <1>9
  <2> HIDE DEF from
  <2>5. Boundary(con[c].base)' /\ Covered(con[c].base, lost)'
    BY <1>1, <1>3, <1>6, <2>2 DEF Boundary, Covered, EventsUpTo, Recorded
  <2>6. ConsoleInv(c, lost)'
    BY <1>1, <1>3, <1>4, <2>2, <2>3, <2>5 DEF ConsoleInv
  <2> QED
    BY <1>1, <2>2, <2>6, LocalStep
<1> QED
  BY <1>8, <1>9

LEMMA ReadFileStep ==
  ASSUME TypeOK, NEW lost, LogInv(lost), WholeLog, NEW c \in Console, ReadFile(c)
  PROVE  LogInv(lost)'
<1> DEFINE n == con[c].size - con[c].base
           b == [i \in 1..n |-> IF con[c].base + i <= Len(file)
                                  THEN file[con[c].base + i] ELSE Zero]
           s == [con[c] EXCEPT !.pc = "lines", !.buf = b, !.pos = 0, !.consumed = 0]
<1>1. /\ con[c].pc = "read"
      /\ SetConsole(c, s) /\ file' = file /\ store' = store /\ offset' = offset
  BY DEF ReadFile, dbVars
<1>2. /\ s.pc = "lines" /\ s.buf = b /\ s.base = con[c].base
      /\ s.pos = 0 /\ s.consumed = 0
  <2>1. con[c] \in ConsoleState
    BY DEF TypeOK
  <2> HIDE DEF b
  <2> QED
    BY <2>1 DEF ConsoleState
<1>3. con'[c] = s
  BY <1>1, ConsoleUpdate
<1>4. /\ con[c].base < con[c].size /\ con[c].size <= Len(file)
      /\ Boundary(con[c].base) /\ Covered(con[c].base, lost)
  BY <1>1 DEF LogInv, ConsoleInv
<1>5. con[c].base \in Nat /\ con[c].size \in Nat /\ Len(file) \in Nat
  BY BufferType
<1>6. n \in Nat /\ Len(b) = n /\ con[c].base + n <= Len(file)
  BY <1>4, <1>5
<1>7. \A i \in 1..n : b[i] = file[con[c].base + i]
  BY <1>4, <1>5
<1> HIDE DEF b, n, s
<1>8. BufferIsFile(c)'
  BY <1>1, <1>2, <1>3, <1>6, <1>7 DEF BufferIsFile
<1>9. con[c].base + 0 = con[c].base
  BY <1>5
<1>10. Boundary(con[c].base + con[c].pos)'
  BY <1>1, <1>2, <1>3, <1>4, <1>9 DEF Boundary
<1>11. 0 \in 0..Len(b)
  BY <1>6
<1>12. PositionInv(c)'
  BY <1>2, <1>3, <1>10, <1>11 DEF PositionInv
<1>13. Covered(con[c].base + con[c].pos, lost)'
  BY <1>1, <1>2, <1>3, <1>4, <1>9 DEF Covered, EventsUpTo, Recorded
<1>14. ConsoleInv(c, lost)'
  BY <1>2, <1>3, <1>8, <1>12, <1>13 DEF ConsoleInv
<1> QED
  BY <1>1, <1>2, <1>14, LocalStep

(* A line is passed without being stored: it is no event's, or its event   *)
(* is lost.                                                                *)
LEMMA PassLineStep ==
  ASSUME TypeOK, NEW lost, LogInv(lost), WholeLog, NEW c \in Console,
         NEW q \in 1..Len(con[c].buf), con[c].pc = "lines", EndsLine(c, q),
         \A e \in Event : LineTo(c, q) = JsonLine(e) => e \in lost,
         SetConsole(c, PastLine(c, q)), UNCHANGED <<file, offset, store>>
  PROVE  LogInv(lost)'
<1> DEFINE s == PastLine(c, q)
<1>1. SetConsole(c, s) /\ file' = file /\ store' = store /\ offset' = offset
  OBVIOUS
<1>2. /\ s.pc = "lines" /\ s.buf = con[c].buf /\ s.base = con[c].base /\ s.pos = q
      /\ s.consumed = con[c].consumed + DecodedLength(LineTo(c, q)) + 1
  BY PastLineFields
<1>3. con'[c] = s
  BY <1>1, ConsoleUpdate
<1> HIDE DEF s
<1>4. ConsoleInv(c, lost)
  BY DEF LogInv
<1>5. BufferIsFile(c)' /\ PositionInv(c)'
  BY <1>1, <1>2, <1>3, <1>4, PastLineGood
<1>6. \A e \in EventsUpTo(file, con[c].base + q) : Recorded(e) \/ e \in lost
  BY <1>4, NextLineInFile DEF EventsUpTo
<1>7. Covered(con[c].base + con[c].pos, lost)'
  BY <1>1, <1>2, <1>3, <1>6 DEF Covered, EventsUpTo, Recorded
<1>8. ConsoleInv(c, lost)'
  BY <1>2, <1>3, <1>5, <1>7 DEF ConsoleInv
<1> QED
  BY <1>1, <1>2, <1>8, LocalStep

LEMMA SkipLineStep ==
  ASSUME TypeOK, NEW lost, LogInv(lost), WholeLog, NEW c \in Console,
         NEW q \in 1..Len(con[c].buf), SkipLine(c, q)
  PROVE  LogInv(lost)'
<1>1. /\ con[c].pc = "lines" /\ EndsLine(c, q)
      /\ \A e \in Event : LineTo(c, q) # JsonLine(e)
      /\ SetConsole(c, PastLine(c, q)) /\ UNCHANGED <<file, offset, store>>
  BY DEF SkipLine, dbVars
<1> QED
  BY <1>1, PassLineStep

(* What is known of a log survives one more lost event.                    *)
LEMMA OneMoreLost ==
  ASSUME NEW lost, LogInv(lost), NEW e
  PROVE  LogInv(lost \cup {e})
<1>1. \A p : Covered(p, lost) => Covered(p, lost \cup {e})
  BY DEF Covered
<1>2. \A p, x : Covered(p, lost \cup {x}) => Covered(p, (lost \cup {e}) \cup {x})
  BY DEF Covered
<1>3. \A c \in Console : ConsoleInv(c, lost) => ConsoleInv(c, lost \cup {e})
  BY <1>1, <1>2 DEF ConsoleInv
<1> QED
  BY <1>1, <1>3 DEF LogInv

(* A failing INSERT of an event loses that event ...                       *)
LEMMA StoreEventFailsStep ==
  ASSUME TypeOK, NEW lost, LogInv(lost), WholeLog, NEW c \in Console,
         NEW q \in 1..Len(con[c].buf), NEW e \in Event, StoreEventFails(c, q, e)
  PROVE  LogInv(lost \cup {e})'
<1>1. /\ con[c].pc = "lines" /\ EndsLine(c, q) /\ LineTo(c, q) = JsonLine(e)
      /\ SetConsole(c, PastLine(c, q)) /\ UNCHANGED <<file, offset, store>>
  BY DEF StoreEventFails, dbVars
<1>2. LogInv(lost \cup {e})
  BY OneMoreLost
<1>3. \A f \in Event : LineTo(c, q) = JsonLine(f) => f \in lost \cup {e}
  BY <1>1, JsonLineInjective
<1> QED
  BY <1>1, <1>2, <1>3, PassLineStep

(* ... and a failing INSERT of an alert the event the alert belongs to.    *)
LEMMA StoreAlertFailsStep ==
  ASSUME TypeOK, NEW lost, LogInv(lost), WholeLog, NEW c \in Console, StoreAlertFails(c)
  PROVE  \E e \in Event : LogInv(lost \cup {e})'
<1> DEFINE s == [con[c] EXCEPT !.pc = "lines"]
<1>1. /\ con[c].pc = "alerts" /\ SetConsole(c, s)
      /\ file' = file /\ store' = store /\ offset' = offset
  BY DEF StoreAlertFails, dbVars
<1>2. ConsoleInv(c, lost) /\ con[c].row \in DOMAIN store
  BY <1>1 DEF LogInv, ConsoleInv
<1>3. PICK e \in Event : e = store[con[c].row].ev
  <2>1. store[con[c].row] \in Row
    BY <1>2, ElementOfSeq, LenProperties DEF TypeOK
  <2> QED
    BY <2>1 DEF Row
<1>4. s.pc = "lines" /\ s.buf = con[c].buf /\ s.base = con[c].base
      /\ s.pos = con[c].pos /\ s.consumed = con[c].consumed
  BY DEF TypeOK, ConsoleState
<1>5. con'[c] = s
  BY <1>1, ConsoleUpdate
<1> HIDE DEF s
<1>6. /\ BufferIsFile(c) /\ PositionInv(c)
      /\ Covered(con[c].base + con[c].pos, lost \cup {e})
  BY <1>1, <1>2, <1>3 DEF ConsoleInv
<1>7. BufferIsFile(c)' /\ PositionInv(c)'
  BY <1>1, <1>4, <1>5, <1>6 DEF BufferIsFile, PositionInv, Boundary
<1>8. Covered(con[c].base + con[c].pos, lost \cup {e})'
  BY <1>1, <1>4, <1>5, <1>6 DEF Covered, EventsUpTo, Recorded
<1>9. ConsoleInv(c, lost \cup {e})'
  BY <1>4, <1>5, <1>7, <1>8 DEF ConsoleInv
<1>10. LogInv(lost \cup {e})
  BY OneMoreLost
<1>11. LogInv(lost \cup {e})'
  BY <1>1, <1>4, <1>9, <1>10, LocalStep
<1> QED
  BY <1>3, <1>11

LEMMA SetOffsetStep ==
  ASSUME TypeOK, NEW lost, LogInv(lost), WholeLog, NEW c \in Console, SetOffset(c)
  PROVE  LogInv(lost)'
<1>1. /\ con[c].pc = "lines" /\ offset' = con[c].base + con[c].consumed
      /\ SetConsole(c, Fresh("idle")) /\ file' = file /\ store' = store
  BY DEF SetOffset
<1>2. /\ \A d \in Console : ConsoleInv(d, lost)
      /\ RowsOwned
  BY DEF LogInv
<1>3. con'[c] = Fresh("idle") /\ \A d \in Console : d # c => con'[d] = con[d]
  BY <1>1, ConsoleUpdate
<1>4. con'[c].pc = "idle"
  BY <1>3 DEF Fresh
<1>5. /\ offset' = con[c].base + con[c].pos
      /\ Boundary(con[c].base + con[c].pos) /\ Covered(con[c].base + con[c].pos, lost)
  BY <1>1, <1>2 DEF ConsoleInv, PositionInv
<1>6. (Boundary(offset) /\ Covered(offset, lost))'
  BY <1>1, <1>5 DEF Boundary, Covered, EventsUpTo, Recorded
<1>7. ConsoleInv(c, lost)'
  BY <1>4 DEF ConsoleInv
<1>8. ASSUME NEW d \in Console, d # c PROVE ConsoleInv(d, lost)'
  <2>1. con[d].pc = "alerts" =>
          con[d].row \in DOMAIN store' /\ store'[con[d].row] = store[con[d].row]
    BY <1>1, <1>2, <1>8 DEF ConsoleInv
  <2>2. \A e : Recorded(e) => Recorded(e)'
    BY <1>1 DEF Recorded
  <2> QED
    BY <1>1, <1>2, <1>3, <1>8, <2>1, <2>2, OtherConsoles
<1>9. RowsOwned'
  BY <1>2, <1>3, <1>4 DEF RowsOwned
<1> QED
  BY <1>6, <1>7, <1>8, <1>9 DEF LogInv

(* A console that starts, stops or gives up a tick knows nothing.          *)
LEMMA FreshStep ==
  ASSUME TypeOK, NEW lost, LogInv(lost), WholeLog, NEW c \in Console, NEW pc \in {"idle", "down"},
         SetConsole(c, Fresh(pc)), UNCHANGED <<file, offset, store>>
  PROVE  LogInv(lost)'
<1>1. Fresh(pc).pc = pc
  BY DEF Fresh
<1>2. con'[c] = Fresh(pc)
  BY ConsoleUpdate
<1>3. ConsoleInv(c, lost)'
  BY <1>1, <1>2 DEF ConsoleInv
<1> QED
  BY <1>1, <1>3, LocalStep

(* The file grows by a byte, is truncated or stays as it is.               *)
LEMMA FileStep ==
  ASSUME TypeOK, [Next]_vars
  PROVE  \/ file' = file /\ truncs' = truncs
         \/ \E x \in Byte :
              file' = Append(file, x) /\ UNCHANGED <<offset, store, con, truncs, faults>>
         \/ truncs' = truncs + 1
<1>1. CASE AgentAppend
  BY <1>1 DEF AgentAppend, budgetVars
<1>2. CASE AgentWriteByte
  <2>1. UNCHANGED <<offset, store, con, truncs, faults>>
    BY <1>2 DEF AgentWriteByte, dbVars, budgetVars
  <2>2. CASE written < Len(Body[writing])
    <3>1. writing \in Event
      BY <1>2, LogAssumption DEF AgentWriteByte, TypeOK, Event
    <3>2. Cell(writing, written + 1) \in Byte
      BY <2>2, <3>1, BodyType DEF Cell, Byte, TypeOK
    <3> QED
      BY <1>2, <2>1, <2>2, <3>2 DEF AgentWriteByte
  <2>3. CASE ~ (written < Len(Body[writing]))
    BY <1>2, <2>1, <2>3 DEF AgentWriteByte, Byte
  <2> QED
    BY <2>2, <2>3
<1>3. CASE AgentStop
  BY <1>3 DEF AgentStop
<1>4. CASE Truncate
  BY <1>4 DEF Truncate
<1>5. ASSUME NEW c \in Console, ConsoleStart(c) \/ ConsoleCrash(c) \/ Tick(c)
      PROVE  file' = file /\ truncs' = truncs
  BY <1>5 DEF ConsoleStart, ConsoleCrash, Tick, StatFile, GetOffset, ReadFile, NextLine,
     SkipLine, StoreEvent, StoreEventFails, StoreAlert, StoreAlertFails, SetOffset,
     SetOffsetFails, budgetVars
<1>6. CASE UNCHANGED vars
  BY <1>6 DEF vars, budgetVars
<1> QED
  BY <1>1, <1>2, <1>3, <1>4, <1>5, <1>6 DEF Next, Agent

(* A whole log was whole before the step.                                  *)
LEMMA WholeLogBefore ==
  ASSUME TypeOK, [Next]_vars, WholeLog'
  PROVE  /\ WholeLog
         /\ \/ file' = file
            \/ \E x \in Byte :
                 file' = Append(file, x) /\ UNCHANGED <<offset, store, con, truncs, faults>>
<1>1. truncs \in Nat /\ truncs' = 0 /\ Intact' /\ file \in Seq(Byte)
  BY BoundTypes DEF TypeOK, WholeLog
<1>2. CASE file' = file /\ truncs' = truncs
  BY <1>1, <1>2 DEF WholeLog, Intact
<1>3. ASSUME NEW x \in Byte, file' = Append(file, x), UNCHANGED <<offset, store, con, truncs, faults>>
      PROVE  WholeLog
  BY <1>1, <1>3, IntactBefore DEF WholeLog
<1>4. CASE truncs' = truncs + 1
  BY <1>1, <1>4
<1> QED
  BY <1>2, <1>3, <1>4, FileStep

LEMMA SubsetsFinite ==
  ASSUME NEW S \in SUBSET Event
  PROVE  IsFiniteSet(S) /\ Cardinality(S) \in Nat
<1>1. IsFiniteSet(Event)
  BY LogAssumption, FS_Interval DEF Event
<1> QED
  BY <1>1, FS_Subset, FS_CardinalityType

(* A step in which no statement fails loses nothing, and one that fails at *)
(* most one event.                                                         *)
LEMMA LogStep ==
  ASSUME TypeOK, [Next]_vars, WholeLog', NEW lost \in SUBSET Event, LogInv(lost)
  PROVE  \/ LogInv(lost)' /\ faults' \in {faults, faults + 1}
         \/ faults' = faults + 1 /\ \E e \in Event : LogInv(lost \cup {e})'
<1>1. WholeLog /\ file \in Seq(Byte)
  BY WholeLogBefore DEF TypeOK
<1>2. ASSUME file' # file PROVE LogInv(lost)' /\ faults' = faults
  <2>1. PICK x \in Byte :
          file' = Append(file, x) /\ UNCHANGED <<offset, store, con, truncs, faults>>
    BY <1>2, WholeLogBefore
  <2> QED
    BY <2>1, AppendStep
<1>3. ASSUME UNCHANGED <<file, offset, store, con, faults>> PROVE LogInv(lost)' /\ faults' = faults
  BY <1>3 DEF LogInv, Boundary, Covered, Recorded, EventsUpTo, ConsoleInv, BufferIsFile,
              PositionInv, RowsOwned
<1>4. ASSUME file' = file, Agent \/ Truncate
      PROVE  LogInv(lost)' /\ faults' = faults
  <2>1. UNCHANGED <<offset, store, con, faults>>
    BY <1>4 DEF Agent, Truncate, AgentAppend, AgentWriteByte, AgentStop, dbVars, budgetVars
  <2> QED
    BY <1>3, <1>4, <2>1
<1>5. ASSUME NEW c \in Console, ConsoleStart(c) \/ ConsoleCrash(c)
      PROVE  LogInv(lost)' /\ faults' = faults
  BY <1>1, <1>5, FreshStep DEF ConsoleStart, ConsoleCrash, dbVars, budgetVars
<1>6. ASSUME NEW c \in Console, StatFile(c) \/ GetOffset(c) \/ ReadFile(c) \/ StoreAlert(c) \/ SetOffset(c)
      PROVE  LogInv(lost)' /\ faults' = faults
  <2>1. faults' = faults
    BY <1>6 DEF StatFile, GetOffset, ReadFile, StoreAlert, SetOffset, budgetVars
  <2> QED
    BY <1>1, <1>6, <2>1, StatFileStep, GetOffsetStep, ReadFileStep, StoreAlertStep, SetOffsetStep
<1>7. ASSUME NEW c \in Console, NEW q \in 1..Len(con[c].buf),
             SkipLine(c, q) \/ \E e \in Event : StoreEvent(c, q, e)
      PROVE  LogInv(lost)' /\ faults' = faults
  <2>1. faults' = faults
    BY <1>7 DEF SkipLine, StoreEvent, budgetVars
  <2> QED
    BY <1>1, <1>7, <2>1, SkipLineStep, StoreEventStep
<1>8. ASSUME NEW c \in Console, NEW q \in 1..Len(con[c].buf), NEW e \in Event, StoreEventFails(c, q, e)
      PROVE  faults' = faults + 1 /\ \E f \in Event : LogInv(lost \cup {f})'
  <2>1. faults' = faults + 1
    BY <1>8 DEF StoreEventFails
  <2> QED
    BY <1>1, <1>8, <2>1, StoreEventFailsStep
<1>9. ASSUME NEW c \in Console, StoreAlertFails(c)
      PROVE  faults' = faults + 1 /\ \E f \in Event : LogInv(lost \cup {f})'
  <2>1. faults' = faults + 1
    BY <1>9 DEF StoreAlertFails
  <2> QED
    BY <1>1, <1>9, <2>1, StoreAlertFailsStep
<1>10. ASSUME NEW c \in Console, SetOffsetFails(c)
       PROVE  LogInv(lost)' /\ faults' = faults + 1
  <2>1. faults' = faults + 1 /\ SetConsole(c, Fresh("idle")) /\ UNCHANGED <<file, offset, store>>
    BY <1>10 DEF SetOffsetFails, dbVars
  <2> QED
    BY <1>1, <2>1, FreshStep
<1>11. CASE UNCHANGED vars
  BY <1>3, <1>11 DEF vars, dbVars, budgetVars
<1>12. ASSUME NEW c \in Console, Tick(c)
       PROVE  \/ LogInv(lost)' /\ faults' \in {faults, faults + 1}
              \/ faults' = faults + 1 /\ \E e \in Event : LogInv(lost \cup {e})'
  BY <1>6, <1>7, <1>8, <1>9, <1>10, <1>12 DEF Tick, NextLine
<1> QED
  BY <1>2, <1>4, <1>5, <1>11, <1>12 DEF Next

(* The stored offset passes recorded lines and at most one lost event for  *)
(* each statement that failed, step by step.                               *)
LEMMA InvStep == TypeOK /\ IInv /\ [Next]_vars => IInv'
<1> SUFFICES ASSUME TypeOK, IInv, [Next]_vars, WholeLog'
             PROVE  \E lost \in SUBSET Event : Cardinality(lost) <= faults' /\ LogInv(lost)'
  BY DEF IInv
<1>1. faults \in Nat
  BY BoundTypes DEF TypeOK
<1>2. PICK lost \in SUBSET Event : Cardinality(lost) <= faults /\ LogInv(lost)
  BY WholeLogBefore DEF IInv
<1>3. IsFiniteSet(lost) /\ Cardinality(lost) \in Nat
  BY SubsetsFinite
<1>4. CASE LogInv(lost)' /\ faults' \in {faults, faults + 1}
  BY <1>1, <1>2, <1>3, <1>4
<1>5. ASSUME NEW e \in Event, faults' = faults + 1, LogInv(lost \cup {e})'
      PROVE  \E more \in SUBSET Event : Cardinality(more) <= faults' /\ LogInv(more)'
  <2>1. Cardinality(lost \cup {e}) <= Cardinality(lost) + 1
    <3>1. Cardinality(lost \cup {e})
            = IF e \in lost THEN Cardinality(lost) ELSE Cardinality(lost) + 1
      BY <1>3, FS_AddElement
    <3> QED
      BY <1>3, <3>1
  <2>2. Cardinality(lost \cup {e}) \in Nat
    BY SubsetsFinite
  <2>3. Cardinality(lost \cup {e}) <= faults'
    BY <1>1, <1>2, <1>3, <1>5, <2>1, <2>2
  <2> QED
    BY <1>5, <2>3
<1> QED
  BY <1>2, <1>4, <1>5, LogStep

LEMMA InvInit == Init => IInv
<1> SUFFICES ASSUME Init PROVE IInv
  OBVIOUS
<1>1. Covered(0, {})
  BY NoEventsAtStart, EmptySeq DEF Init, Covered
<1>2. \A c \in Console : con[c].pc = "down"
  BY DEF Init, Fresh
<1>3. \A c \in Console : ConsoleInv(c, {})
  BY <1>2 DEF ConsoleInv
<1>4. RowsOwned
  BY <1>2 DEF RowsOwned
<1>5. Boundary(offset) /\ Covered(offset, {})
  BY <1>1 DEF Init, Boundary
<1>6. Cardinality({}) <= faults
  BY FS_EmptySet DEF Init
<1> QED
  BY <1>3, <1>4, <1>5, <1>6 DEF IInv, LogInv

(* A tick's buffer, its position and the stored offset fit the file, and   *)
(* what they have passed is recorded but for the lost events.              *)
THEOREM InvCorrect == Spec => []IInv
BY InvInit, InvStep, TypeCorrect, PTL DEF Spec

(* Where no statement failed nothing is lost.                              *)
LEMMA NothingLost ==
  ASSUME IInv, Undisturbed
  PROVE  LogInv({})
<1>1. PICK lost \in SUBSET Event : Cardinality(lost) <= 0 /\ LogInv(lost)
  BY DEF IInv, Undisturbed
<1>2. IsFiniteSet(lost) /\ Cardinality(lost) = 0
  BY <1>1, SubsetsFinite
<1>3. lost = {}
  BY <1>2, FS_EmptySet
<1> QED
  BY <1>1, <1>3

(* No event before the stored offset is missing from the database: for     *)
(* every content of the log, any number of consoles and of crashes.        *)
THEOREM NothingSkippedCorrect == Spec => []NothingSkipped
<1>1. IInv => NothingSkipped
  BY NothingLost DEF LogInv, NothingSkipped, Covered
<1> QED
  BY <1>1, InvCorrect, PTL

(* The stored offset is always the start of a line, also if statements     *)
(* fail.                                                                   *)
THEOREM OffsetOnBoundaryCorrect == Spec => []OffsetOnBoundary
<1>1. IInv => OffsetOnBoundary
  BY DEF IInv, LogInv, OffsetOnBoundary
<1> QED
  BY <1>1, InvCorrect, PTL

(* The events before the stored offset that are missing from the database  *)
(* are no more than the statements that failed, whatever crashes and       *)
(* however many consoles read the log at once.                             *)
THEOREM FaultLosesOneCorrect == Spec => []FaultLosesOne
<1>1. ASSUME TypeOK, IInv PROVE FaultLosesOne
  <2> DEFINE missing == {e \in EventsUpTo(file, offset) : ~ Recorded(e)}
  <2> SUFFICES ASSUME WholeLog PROVE Cardinality(missing) <= faults
    BY DEF FaultLosesOne
  <2>1. PICK lost \in SUBSET Event : Cardinality(lost) <= faults /\ LogInv(lost)
    BY <1>1 DEF IInv
  <2>2. missing \subseteq lost
    BY <2>1 DEF LogInv, Covered
  <2>3. IsFiniteSet(lost) /\ Cardinality(lost) \in Nat
    BY SubsetsFinite
  <2>4. Cardinality(missing) <= Cardinality(lost) /\ Cardinality(missing) \in Nat
    BY <2>2, <2>3, FS_Subset, FS_CardinalityType
  <2>5. faults \in Nat
    BY <1>1, BoundTypes DEF TypeOK
  <2> QED
    BY <2>1, <2>3, <2>4, <2>5
<1> QED
  BY <1>1, TypeCorrect, InvCorrect, PTL

-----------------------------------------------------------------------------
(* The log and the agent's stops.                                          *)

(* The file ends in the bytes of the line that is being written.  The      *)
(* events that were logged and cannot be read, and the one that will be if *)
(* its line does not begin where a line may begin, cost a stop each.       *)
LineStart == Len(file) - written

Glued == IF Boundary(LineStart) THEN 0 ELSE 1

Unreadable == logged \ EventsIn(file)

TornInv ==
  truncs = 0 =>
    /\ written <= Len(file)
    /\ \A i \in 1..written : file[LineStart + i] = Cell(writing, i)
    /\ Cardinality(Unreadable) + Glued <= stops

LEMMA UnreadableCard ==
  ASSUME NEW A \in SUBSET Event, NEW B \in SUBSET Event
  PROVE  /\ Cardinality(A) \in Nat
         /\ B \subseteq A => Cardinality(B) <= Cardinality(A)
         /\ \A e \in Event : B \subseteq A \cup {e} => Cardinality(B) <= Cardinality(A) + 1
<1>1. IsFiniteSet(A) /\ Cardinality(A) \in Nat /\ Cardinality(B) \in Nat
  BY SubsetsFinite
<1>2. B \subseteq A => Cardinality(B) <= Cardinality(A)
  BY <1>1, FS_Subset
<1>3. ASSUME NEW e \in Event, B \subseteq A \cup {e} PROVE Cardinality(B) <= Cardinality(A) + 1
  <2>1. /\ IsFiniteSet(A \cup {e})
        /\ Cardinality(A \cup {e}) = IF e \in A THEN Cardinality(A) ELSE Cardinality(A) + 1
    BY <1>1, FS_AddElement
  <2>2. Cardinality(B) <= Cardinality(A \cup {e})
    BY <1>3, <2>1, FS_Subset
  <2> QED
    BY <1>1, <2>1, <2>2
<1> QED
  BY <1>1, <1>2, <1>3

(* The bytes of a line that began where a line may begin, and its newline, *)
(* are a readable line.                                                    *)
LEMMA LineComplete ==
  ASSUME TypeOK, writing # 0, written = Len(Body[writing]), file' = Append(file, NewLine),
         written <= Len(file), Boundary(LineStart),
         \A i \in 1..written : file[LineStart + i] = Cell(writing, i)
  PROVE  writing \in EventsIn(file')
<1> DEFINE a == Len(file) - written
           n == Len(Body[writing])
<1>1. writing \in Event /\ file \in Seq(Byte) /\ NewLine \in Byte
  BY LogAssumption DEF TypeOK, Event, Byte
<1>2. n \in Nat \ {0} /\ n = written
  BY <1>1, BodyType
<1>3. /\ Len(file) \in Nat /\ Len(file') = Len(file) + 1
      /\ \A i \in 1..Len(file) : file'[i] = file[i]
      /\ file'[Len(file) + 1] = NewLine
  BY <1>1, SeqAppend
<1>4. a \in Nat /\ a + n = Len(file) /\ a \in 0..Len(file')
  BY <1>2, <1>3
<1>5. a = 0 \/ file'[a] = NewLine
  BY <1>1, <1>3, LenProperties DEF Boundary, LineStart
<1>6. \A i \in 1..n : file'[a + i] = Cell(writing, i)
  <2> SUFFICES ASSUME NEW i \in 1..n PROVE file'[a + i] = Cell(writing, i)
    OBVIOUS
  <2>1. file[a + i] = Cell(writing, i)
    BY <1>2 DEF LineStart
  <2> HIDE DEF a, n
  <2>2. a + i \in 1..Len(file)
    BY <1>2, <1>3, <1>4
  <2> QED
    BY <1>3, <2>1, <2>2
<1> HIDE DEF a
<1>7. LineEnd(a, writing) = Len(file')
  BY <1>2, <1>3, <1>4 DEF LineEnd
<1>8. LineEnd(a, writing) <= Len(file') /\ file'[LineEnd(a, writing)] = NewLine
  BY <1>3, <1>7
<1>9. EventAt(file', a, writing)
  BY <1>5, <1>6, <1>8 DEF EventAt
<1> QED
  BY <1>1, <1>4, <1>8, <1>9 DEF EventsIn, EventsUpTo

LEMMA TornStep == TypeOK /\ TornInv /\ [Next]_vars => TornInv'
<1> SUFFICES ASSUME TypeOK, TornInv, [Next]_vars, truncs' = 0
             PROVE  /\ written' <= Len(file')
                    /\ \A i \in 1..written' : file'[LineStart' + i] = Cell(writing', i)
                    /\ Cardinality(Unreadable') + Glued' <= stops'
  BY DEF TornInv
<1>0. /\ truncs \in Nat /\ stops \in Nat /\ written \in Nat
      /\ file \in Seq(Byte) /\ Len(file) \in Nat
  BY BoundTypes, LenProperties DEF TypeOK
<1>1. truncs = 0 /\ ~ Truncate
  BY <1>0, FileStep DEF Truncate
<1>2. /\ written <= Len(file)
      /\ \A i \in 1..written : file[LineStart + i] = Cell(writing, i)
      /\ Cardinality(Unreadable) + Glued <= stops
  BY <1>1 DEF TornInv
<1>3. Unreadable \in SUBSET Event /\ Cardinality(Unreadable) \in Nat /\ Glued \in {0, 1}
      /\ Glued' \in {0, 1}
  BY UnreadableCard DEF TypeOK, Unreadable, Glued
<1>4. CASE AgentAppend
  <2>1. written = 0 /\ UNCHANGED <<file, written, logged, stops>>
    BY <1>4 DEF AgentAppend, TypeOK, budgetVars
  <2>2. UNCHANGED <<Unreadable, Glued>>
    BY <2>1 DEF Unreadable, Glued, LineStart, EventsIn, EventsUpTo, EventAt, Boundary
  <2> QED
    BY <1>0, <1>2, <2>1, <2>2
<1>5. CASE AgentWriteByte
  <2>1. writing \in Event /\ writing # 0 /\ UNCHANGED stops
    BY <1>5, LogAssumption DEF AgentWriteByte, TypeOK, Event, budgetVars
  <2>2. Len(Body[writing]) \in Nat /\ written <= Len(Body[writing])
    BY <2>1, BodyType DEF TypeOK
  <2>3. CASE written < Len(Body[writing])
    <3> DEFINE x == Cell(writing, written + 1)
    <3>1. x \in Byte
      BY <2>1, <2>3, BodyType DEF Cell, Byte, TypeOK
    <3>2. /\ file' = Append(file, x) /\ written' = written + 1
          /\ UNCHANGED <<writing, logged>>
      BY <1>5, <2>3 DEF AgentWriteByte
    <3> HIDE DEF x
    <3>3. /\ Len(file') = Len(file) + 1
          /\ \A i \in 1..Len(file) : file'[i] = file[i]
          /\ file'[Len(file) + 1] = x
      BY <1>0, <3>1, <3>2, SeqAppend
    <3>4. LineStart' = LineStart /\ LineStart \in Nat
      BY <1>0, <1>2, <3>2, <3>3 DEF LineStart
    <3>5. ASSUME NEW i \in 1..written' PROVE file'[LineStart' + i] = Cell(writing', i)
      <4>1. CASE i = written + 1
        <5>1. LineStart + i = Len(file) + 1
          BY <1>0, <4>1 DEF LineStart
        <5> QED
          BY <3>2, <3>3, <3>4, <4>1, <5>1 DEF x
      <4>2. CASE i # written + 1
        <5>1. i \in 1..written /\ LineStart + i \in 1..Len(file)
          BY <1>0, <1>2, <3>2, <4>2 DEF LineStart
        <5> QED
          BY <1>2, <3>2, <3>3, <3>4, <5>1
      <4> QED
        BY <4>1, <4>2
    <3>6. Unreadable' \subseteq Unreadable
      <4>1. EventsIn(file) \subseteq EventsIn(file')
        BY <1>0, <3>1, <3>2, EventsGrow
      <4> QED
        BY <3>2, <4>1 DEF Unreadable, EventsIn, EventsUpTo, EventAt
    <3>7. Cardinality(Unreadable') <= Cardinality(Unreadable) /\ Cardinality(Unreadable') \in Nat
      BY <1>3, <3>6, UnreadableCard
    <3>8. Glued' <= Glued
      <4>1. Boundary(LineStart) => Boundary(LineStart)'
        BY <3>1, <3>2, <3>4, BoundaryStays
      <4> QED
        BY <4>1 DEF Glued
    <3>9. written' <= Len(file')
      BY <1>0, <1>2, <3>2, <3>3
    <3>10. Cardinality(Unreadable') + Glued' <= stops'
      BY <1>0, <1>2, <1>3, <2>1, <3>7, <3>8
    <3> QED
      BY <3>5, <3>9, <3>10
  <2>4. CASE ~ (written < Len(Body[writing]))
    <3>1. /\ written = Len(Body[writing]) /\ file' = Append(file, NewLine)
          /\ written' = 0 /\ writing' = 0 /\ logged' = logged \cup {writing}
      BY <1>0, <1>5, <2>2, <2>4 DEF AgentWriteByte
    <3>2. NewLine \in Byte
      BY DEF Byte
    <3>3. /\ Len(file') = Len(file) + 1 /\ file' \in Seq(Byte)
          /\ file'[Len(file) + 1] = NewLine
      BY <1>0, <3>1, <3>2, SeqAppend
    <3>4. Glued' = 0
      <4>1. LineStart' = Len(file) + 1 /\ LineStart' \in DOMAIN file'
        BY <1>0, <3>1, <3>3, LenProperties DEF LineStart
      <4> QED
        BY <3>3, <4>1 DEF Glued, Boundary
    <3>a. EventsIn(file) \subseteq EventsIn(file')
      BY <1>0, <3>1, <3>2, EventsGrow
    <3>5. EventsIn(file)' = EventsIn(file') /\ EventsIn(file) \subseteq EventsIn(file')
      BY <3>a DEF EventsIn, EventsUpTo, EventAt
    <3>6. CASE Boundary(LineStart)
      <4>1. writing \in EventsIn(file')
        BY <1>2, <2>1, <3>1, <3>6, LineComplete
      <4>2. Unreadable' \subseteq Unreadable
        BY <3>1, <3>5, <4>1 DEF Unreadable
      <4>3. Cardinality(Unreadable') <= Cardinality(Unreadable) /\ Cardinality(Unreadable') \in Nat
        BY <1>3, <4>2, UnreadableCard
      <4> QED
        BY <1>0, <1>2, <1>3, <2>1, <3>1, <3>3, <3>4, <4>3
    <3>7. CASE ~ Boundary(LineStart)
      <4>1. Glued = 1
        BY <3>7 DEF Glued
      <4>2. Unreadable' \subseteq Unreadable \cup {writing}
        BY <3>1, <3>5 DEF Unreadable
      <4>a. Unreadable' \in SUBSET Event
        BY <1>3, <2>1, <4>2
      <4>3. Cardinality(Unreadable') <= Cardinality(Unreadable) + 1 /\ Cardinality(Unreadable') \in Nat
        BY <1>3, <2>1, <4>2, <4>a, UnreadableCard
      <4> QED
        BY <1>0, <1>2, <1>3, <2>1, <3>1, <3>3, <3>4, <4>1, <4>3
    <3> QED
      BY <3>6, <3>7
  <2> QED
    BY <2>3, <2>4
<1>6. CASE AgentStop
  <2>1. /\ written' = 0 /\ stops' = stops + 1
        /\ UNCHANGED <<file, logged>>
    BY <1>6 DEF AgentStop
  <2>2. UNCHANGED Unreadable
    BY <2>1 DEF Unreadable, EventsIn, EventsUpTo, EventAt
  <2> QED
    BY <1>0, <1>2, <1>3, <2>1, <2>2
<1>7. ASSUME UNCHANGED <<file, agentVars, stops>>
      PROVE  /\ written' <= Len(file')
             /\ \A i \in 1..written' : file'[LineStart' + i] = Cell(writing', i)
             /\ Cardinality(Unreadable') + Glued' <= stops'
  <2>1. UNCHANGED <<file, written, writing, logged, stops>>
    BY <1>7 DEF agentVars
  <2>2. UNCHANGED <<Unreadable, Glued, LineStart>>
    BY <2>1 DEF Unreadable, Glued, LineStart, EventsIn, EventsUpTo, EventAt, Boundary
  <2> QED
    BY <1>2, <2>1, <2>2
<1>8. ASSUME NEW c \in Console, ConsoleStart(c) \/ ConsoleCrash(c) \/ Tick(c)
      PROVE  UNCHANGED <<file, agentVars, stops>>
  BY <1>8 DEF ConsoleStart, ConsoleCrash, Tick, StatFile, GetOffset, ReadFile, NextLine,
     SkipLine, StoreEvent, StoreEventFails, StoreAlert, StoreAlertFails, SetOffset,
     SetOffsetFails, budgetVars
<1>9. CASE UNCHANGED vars
  BY <1>7, <1>9 DEF vars, budgetVars
<1> QED
  BY <1>1, <1>4, <1>5, <1>6, <1>7, <1>8, <1>9 DEF Next, Agent

(* A stop of the agent inside a line costs at most one further event: for  *)
(* every content of the lines and however the stops fall.                  *)
THEOREM TornLosesOneCorrect == Spec => []TornLosesOne
<1>1. Init => TornInv
  <2> SUFFICES ASSUME Init PROVE TornInv
    OBVIOUS
  <2>1. Unreadable = {} /\ Glued = 0 /\ written = 0 /\ stops = 0 /\ Len(file) = 0
    BY DEF Init, Unreadable, Glued, LineStart, Boundary
  <2> QED
    BY <2>1, FS_EmptySet DEF TornInv
<1>2. ASSUME TypeOK, TornInv PROVE TornLosesOne
  <2> SUFFICES ASSUME truncs = 0 PROVE Cardinality(Unreadable) <= stops
    BY DEF TornLosesOne, Unreadable
  <2>1. Cardinality(Unreadable) + Glued <= stops
    BY <1>2 DEF TornInv
  <2>2. Cardinality(Unreadable) \in Nat /\ Glued \in {0, 1} /\ stops \in Nat
    BY <1>2, UnreadableCard, BoundTypes DEF TypeOK, Unreadable, Glued
  <2> QED
    BY <2>1, <2>2
<1> QED
  BY <1>1, <1>2, TornStep, TypeCorrect, PTL DEF Spec

-----------------------------------------------------------------------------
(* One console.                                                            *)

SingleConsole == \A c, d \in Console : c = d

(* Between a tick's reading of the offset and its storing of one nobody    *)
(* else stores an offset.                                                  *)
OffsetHeld ==
  \A c \in Console :
    /\ con[c].pc = "offset" => offset <= con[c].size
    /\ con[c].pc \in {"read", "lines", "alerts"} => con[c].base = offset

LEMMA OffsetHeldStep ==
  ASSUME SingleConsole, TypeOK, IInv, WholeLog => OffsetHeld, [Next]_vars, WholeLog'
  PROVE  OffsetHeld' /\ offset' >= offset
<1>1. WholeLog /\ OffsetHeld /\ Boundary(offset) /\ ~ Truncate
  <2>1. truncs \in Nat /\ truncs' = 0
    BY BoundTypes DEF TypeOK, WholeLog
  <2> QED
    BY <2>1, WholeLogBefore DEF IInv, LogInv, Truncate, WholeLog
<1>2. offset \in Nat /\ offset \in 0..Len(file) /\ Len(file) \in Nat
  BY <1>1, BoundaryInFile, LenProperties DEF TypeOK
<1>3. ASSUME UNCHANGED <<offset, con>> PROVE OffsetHeld' /\ offset' >= offset
  BY <1>1, <1>2, <1>3 DEF OffsetHeld
<1>4. CASE Agent
  BY <1>3, <1>4 DEF Agent, AgentAppend, AgentWriteByte, AgentStop, dbVars
<1>5. CASE UNCHANGED vars
  BY <1>3, <1>5 DEF vars, dbVars
<1>6. ASSUME NEW c \in Console, ConsoleStart(c) \/ ConsoleCrash(c) \/ Tick(c)
      PROVE  OffsetHeld' /\ offset' >= offset
  <2>1. /\ con[c].pc = "offset" => offset <= con[c].size
        /\ con[c].pc \in {"read", "lines", "alerts"} => con[c].base = offset
        /\ con[c] \in ConsoleState
    BY <1>1 DEF OffsetHeld, TypeOK
  <2>2. ASSUME UNCHANGED offset,
               con'[c].pc = "offset" => offset <= con'[c].size,
               con'[c].pc \in {"read", "lines", "alerts"} => con'[c].base = offset
        PROVE  OffsetHeld' /\ offset' >= offset
    BY <1>2, <2>2 DEF OffsetHeld, SingleConsole
  <2>3. ASSUME UNCHANGED offset, NEW pc \in {"idle", "down"}, SetConsole(c, Fresh(pc))
        PROVE  OffsetHeld' /\ offset' >= offset
    <3>1. con'[c].pc = pc
      BY <2>3, ConsoleUpdate DEF Fresh
    <3> QED
      BY <2>2, <2>3, <3>1
  <2>4. ASSUME UNCHANGED offset, NEW s, SetConsole(c, s), con[c].pc \in {"lines", "alerts"},
               s.pc \in {"lines", "alerts"}, s.base = con[c].base
        PROVE  OffsetHeld' /\ offset' >= offset
    <3>1. con'[c] = s
      BY <2>4, ConsoleUpdate
    <3> QED
      BY <2>1, <2>2, <2>4, <3>1
  <2>5. CASE ConsoleStart(c) \/ ConsoleCrash(c) \/ SetOffsetFails(c)
    BY <2>3, <2>5 DEF ConsoleStart, ConsoleCrash, SetOffsetFails, dbVars
  <2>6. CASE StatFile(c)
    <3> DEFINE s == [con[c] EXCEPT !.pc = "offset", !.size = Len(file)]
    <3>1. SetConsole(c, s) /\ UNCHANGED offset
      BY <2>6 DEF StatFile, dbVars
    <3>2. s.pc = "offset" /\ s.size = Len(file)
      BY <2>1 DEF ConsoleState
    <3> HIDE DEF s
    <3>3. con'[c] = s
      BY <3>1, ConsoleUpdate
    <3> QED
      BY <1>2, <2>2, <3>1, <3>2, <3>3
  <2>7. CASE GetOffset(c)
    <3> DEFINE s == [con[c] EXCEPT !.pc = "read", !.base = offset]
    <3>1. con[c].pc = "offset" /\ UNCHANGED offset /\ con[c].size \in Nat
          /\ ~ (con[c].size < offset)
      BY <1>2, <2>1, <2>7 DEF GetOffset, ConsoleState, dbVars
    <3>2. SetConsole(c, Fresh("idle")) \/ SetConsole(c, s)
      BY <2>7, <3>1 DEF GetOffset
    <3>3. s.pc = "read" /\ s.base = offset
      BY <2>1 DEF ConsoleState
    <3> HIDE DEF s
    <3>4. SetConsole(c, s) => con'[c] = s
      BY ConsoleUpdate
    <3> QED
      BY <2>2, <2>3, <3>1, <3>2, <3>3, <3>4
  <2>8. CASE ReadFile(c)
    <3> DEFINE b == [i \in 1..con[c].size - con[c].base |->
                       IF con[c].base + i <= Len(file) THEN file[con[c].base + i] ELSE Zero]
               s == [con[c] EXCEPT !.pc = "lines", !.buf = b, !.pos = 0, !.consumed = 0]
    <3>1. con[c].pc = "read" /\ SetConsole(c, s) /\ UNCHANGED offset
      BY <2>8 DEF ReadFile, dbVars
    <3> HIDE DEF b
    <3>2. s.pc = "lines" /\ s.base = con[c].base
      BY <2>1 DEF ConsoleState
    <3> HIDE DEF s
    <3>3. con'[c] = s
      BY <3>1, ConsoleUpdate
    <3> QED
      BY <2>1, <2>2, <3>1, <3>2, <3>3
  <2>9. ASSUME NEW q \in 1..Len(con[c].buf),
               SkipLine(c, q) \/ \E e \in Event : StoreEventFails(c, q, e)
        PROVE  OffsetHeld' /\ offset' >= offset
    <3>1. con[c].pc = "lines" /\ SetConsole(c, PastLine(c, q)) /\ UNCHANGED offset
      BY <2>9 DEF SkipLine, StoreEventFails, dbVars
    <3>2. PastLine(c, q).pc = "lines" /\ PastLine(c, q).base = con[c].base
      BY <3>1, PastLineFields
    <3> QED
      BY <2>4, <3>1, <3>2
  <2>10. ASSUME NEW q \in 1..Len(con[c].buf), NEW e \in Event, StoreEvent(c, q, e)
         PROVE  OffsetHeld' /\ offset' >= offset
    <3> DEFINE pc == IF Hits[e] = 0 THEN "lines" ELSE "alerts"
               s == [PastLine(c, q) EXCEPT !.pc = pc, !.row = Len(store) + 1]
    <3>1. con[c].pc = "lines" /\ SetConsole(c, s) /\ UNCHANGED offset
      BY <2>10 DEF StoreEvent
    <3>2. pc \in {"lines", "alerts"}
      OBVIOUS
    <3> HIDE DEF pc
    <3>3. s.pc = pc /\ s.base = con[c].base
      BY PastLineFields
    <3> HIDE DEF s
    <3> QED
      BY <2>4, <3>1, <3>2, <3>3
  <2>11. CASE StoreAlert(c) \/ StoreAlertFails(c)
    <3> DEFINE pc == IF store[con[c].row].alerts + 1 = Hits[store[con[c].row].ev]
                       THEN "lines" ELSE "alerts"
    <3>1. con[c].pc = "alerts" /\ UNCHANGED offset
          /\ \E x \in {"lines", "alerts"} : SetConsole(c, [con[c] EXCEPT !.pc = x])
      <4>1. CASE StoreAlert(c)
        <5>1. SetConsole(c, [con[c] EXCEPT !.pc = pc])
          BY <4>1 DEF StoreAlert
        <5>2. pc \in {"lines", "alerts"}
          OBVIOUS
        <5> HIDE DEF pc
        <5> QED
          BY <4>1, <5>1, <5>2 DEF StoreAlert
      <4>2. CASE StoreAlertFails(c)
        BY <4>2 DEF StoreAlertFails, dbVars
      <4> QED
        BY <2>11, <4>1, <4>2
    <3>2. PICK x \in {"lines", "alerts"} : SetConsole(c, [con[c] EXCEPT !.pc = x])
      BY <3>1
    <3> DEFINE s == [con[c] EXCEPT !.pc = x]
    <3>3. s.pc = x /\ s.base = con[c].base
      BY <2>1 DEF ConsoleState
    <3> HIDE DEF s
    <3>4. SetConsole(c, s)
      BY <3>2 DEF s
    <3> QED
      BY <2>4, <3>1, <3>3, <3>4
  <2>12. CASE SetOffset(c)
    <3>1. con[c].base = offset /\ con[c].consumed \in Nat /\ offset' = offset + con[c].consumed
      BY <2>1, <2>12 DEF SetOffset, ConsoleState
    <3>2. con'[c].pc = "idle"
      BY <2>12, ConsoleUpdate DEF SetOffset, Fresh
    <3>3. OffsetHeld'
      BY <3>2 DEF OffsetHeld, SingleConsole
    <3> QED
      BY <1>2, <3>1, <3>3
  <2> QED
    BY <1>6, <2>5, <2>6, <2>7, <2>8, <2>9, <2>10, <2>11, <2>12 DEF Tick, NextLine
<1> QED
  BY <1>1, <1>4, <1>5, <1>6 DEF Next

(* One console never moves the stored offset back, whatever its statements *)
(* and its crashes, unless the file was truncated or a character was cut.  *)
THEOREM NeverRewindsCorrect ==
  ASSUME SingleConsole
  PROVE  Spec => NeverRewinds
<1>1. Init => (WholeLog => OffsetHeld)
  BY DEF Init, OffsetHeld, Fresh
<1>2. TypeOK /\ IInv /\ (WholeLog => OffsetHeld) /\ [Next]_vars => (WholeLog => OffsetHeld)'
  BY OffsetHeldStep
<1>3. TypeOK /\ IInv /\ (WholeLog => OffsetHeld) /\ [Next]_vars
        => [(truncs' = 0 /\ Intact') => offset' >= offset]_vars
  BY OffsetHeldStep DEF WholeLog
<1> QED
  BY <1>1, <1>2, <1>3, TypeCorrect, InvCorrect, PTL DEF Spec, NeverRewinds

-----------------------------------------------------------------------------
(* How often one console stores an event.                                  *)

Spent == crashes + faults

(* What may have been stored twice, so that it must not be stored again.   *)
Full(e) == Cardinality(RowsOf(e)) > Spent

(* The line of event e was begun, or will never be.                        *)
Begun(e) == e <= emitted /\ (e = writing => written > 0)

Reading(c) == con[c].pc \in {"lines", "alerts"}

Reach(c) ==
  CASE Reading(c)           -> con[c].base + con[c].pos
    [] con[c].pc = "read"   -> con[c].base
    [] OTHER                -> offset

(* Every line is written once, in one place: its first byte shows where.   *)
BytesInv ==
  /\ \A i \in 1..Len(file) : file[i] # Zero
  /\ \A e \in Event : \A i, j \in 1..Len(file) :
       file[i] = Cell(e, 1) /\ file[j] = Cell(e, 1) => i = j
  /\ \A e \in Event : \A i \in 1..Len(file) : file[i] = Cell(e, 1) => Begun(e)
  /\ \A i \in DOMAIN store : Begun(store[i].ev)

BufferInv(c) ==
  Reading(c) =>
    /\ \A e \in Event : \A i, j \in 1..Len(con[c].buf) :
         con[c].buf[i] = Cell(e, 1) /\ con[c].buf[j] = Cell(e, 1) => i = j
    /\ \A e \in Event : \A i \in 1..Len(con[c].buf) : con[c].buf[i] = Cell(e, 1) => Begun(e)

(* The buffer holds bytes of the file as it is, or of one that is gone.    *)
SameBuffer(c) ==
  \A i \in 1..Len(con[c].buf) : con[c].buf[i] # Zero =>
    con[c].base + i <= Len(file) /\ file[con[c].base + i] = con[c].buf[i]

OldBuffer(c) ==
  \A e \in Event : \A i \in 1..Len(con[c].buf), j \in 1..Len(file) :
    ~ (con[c].buf[i] = Cell(e, 1) /\ file[j] = Cell(e, 1))

(* No event of the file is full ...                                        *)
Clean == \A e \in Event : Full(e) => \A i \in 1..Len(file) : file[i] # Cell(e, 1)

(* ... or those that are lie where the console never reads again.          *)
Behind(c) ==
  /\ Reach(c) <= Len(file)
  /\ con[c].pc = "offset" => offset <= con[c].size
  /\ Reading(c) => SameBuffer(c)
  /\ \A e \in Event : Full(e) =>
       \A i \in 1..Len(file) : file[i] = Cell(e, 1) => i <= Reach(c)

OnceInv(c) ==
  /\ BufferInv(c)
  /\ Reading(c) =>
       /\ con[c].consumed = con[c].pos /\ con[c].pos <= Len(con[c].buf)
       /\ SameBuffer(c) \/ OldBuffer(c)
       /\ \A e \in Event : Full(e) =>
            \A i \in 1..Len(con[c].buf) : i > con[c].pos => con[c].buf[i] # Cell(e, 1)
  /\ Clean \/ Behind(c)

NoneTooOften == \A e \in Event : Cardinality(RowsOf(e)) <= Spent + 1

RowsInv ==
  WholeLog \/ AllAscii =>
    BytesInv /\ NoneTooOften /\ \A c \in Console : OnceInv(c)

LEMMA RowsOfType ==
  ASSUME TypeOK, NEW e
  PROVE  IsFiniteSet(RowsOf(e)) /\ Cardinality(RowsOf(e)) \in Nat
<1>1. RowsOf(e) \subseteq 1..Len(store)
  BY LenProperties DEF RowsOf, TypeOK
<1>2. IsFiniteSet(1..Len(store))
  BY FS_Interval
<1> QED
  BY <1>1, <1>2, FS_Subset, FS_CardinalityType

LEMMA SpentType ==
  ASSUME TypeOK
  PROVE  Spent \in Nat
BY BoundTypes DEF TypeOK, Spent

LEMMA RowsOfAppend ==
  ASSUME TypeOK, NEW x \in Row, store' = Append(store, x)
  PROVE  \A e : Cardinality(RowsOf(e))'
                  = IF x.ev = e THEN Cardinality(RowsOf(e)) + 1 ELSE Cardinality(RowsOf(e))
<1> SUFFICES ASSUME NEW e
             PROVE  Cardinality(RowsOf(e))'
                      = IF x.ev = e THEN Cardinality(RowsOf(e)) + 1 ELSE Cardinality(RowsOf(e))
  OBVIOUS
<1>1. /\ DOMAIN store' = DOMAIN store \cup {Len(store) + 1} /\ Len(store) + 1 \notin DOMAIN store
      /\ \A i \in DOMAIN store : store'[i] = store[i]
      /\ store'[Len(store) + 1] = x
  <2>1. store \in Seq(Row) /\ DOMAIN store = 1..Len(store) /\ Len(store) \in Nat
    BY LenProperties DEF TypeOK
  <2>2. /\ store' \in Seq(Row) /\ Len(store') = Len(store) + 1
        /\ \A i \in 1..Len(store) : store'[i] = store[i]
        /\ store'[Len(store) + 1] = x
    BY <2>1, SeqAppend
  <2>3. DOMAIN store' = 1..Len(store) + 1
    BY <2>2, LenProperties
  <2>4. 1..Len(store) + 1 = (1..Len(store)) \cup {Len(store) + 1}
        /\ Len(store) + 1 \notin 1..Len(store)
    BY <2>1
  <2> QED
    BY <2>1, <2>2, <2>3, <2>4
<1>2. CASE x.ev = e
  <2>1. RowsOf(e)' = RowsOf(e) \cup {Len(store) + 1}
    BY <1>1, <1>2 DEF RowsOf
  <2>2. Len(store) + 1 \notin RowsOf(e)
    BY <1>1 DEF RowsOf
  <2>3. Cardinality(RowsOf(e) \cup {Len(store) + 1}) = Cardinality(RowsOf(e)) + 1
    BY <2>2, RowsOfType, FS_AddElement
  <2> QED
    BY <1>2, <2>1, <2>3
<1>3. CASE x.ev # e
  <2>1. RowsOf(e)' = RowsOf(e)
    BY <1>1, <1>3 DEF RowsOf
  <2> QED
    BY <1>3, <2>1
<1> QED
  BY <1>2, <1>3

(* Only an event with a row is full.                                       *)
LEMMA FullHasRow ==
  ASSUME TypeOK, BytesInv, NEW e, Full(e)
  PROVE  Begun(e)
<1>1. RowsOf(e) # {}
  <2> SUFFICES ASSUME RowsOf(e) = {} PROVE FALSE
    OBVIOUS
  <2>1. Cardinality(RowsOf(e)) = 0
    BY FS_EmptySet
  <2> QED
    BY <2>1, SpentType DEF Full
<1> QED
  BY <1>1 DEF RowsOf, BytesInv

(* The rows stay and no more is spent than before: nothing gets full.  If  *)
(* something is spent nothing is full any more.                            *)
LEMMA FullStep ==
  ASSUME TypeOK, NoneTooOften, \A e : RowsOf(e)' = RowsOf(e), Spent' \in {Spent, Spent + 1}
  PROVE  /\ NoneTooOften'
         /\ \A e \in Event : Full(e)' => Full(e)
         /\ Spent' = Spent + 1 => \A e \in Event : ~ Full(e)'
<1>1. Spent \in Nat /\ \A e : Cardinality(RowsOf(e)) \in Nat /\ Cardinality(RowsOf(e))' = Cardinality(RowsOf(e))
  BY SpentType, RowsOfType
<1> QED
  BY <1>1 DEF NoneTooOften, Full

(* The file gets a byte that no event began with before.                   *)
LEMMA ByteRows ==
  ASSUME TypeOK, BytesInv, NoneTooOften, \A c \in Console : OnceInv(c),
         NEW x \in Byte, x # Zero, file' = Append(file, x),
         UNCHANGED <<offset, store, con, crashes, faults>>,
         \A e \in Event : Begun(e) => Begun(e)',
         \A e \in Event : x = Cell(e, 1) => ~ Begun(e) /\ Begun(e)'
  PROVE  BytesInv' /\ NoneTooOften' /\ \A c \in Console : OnceInv(c)'
<1>1. /\ file \in Seq(Byte) /\ Len(file) \in Nat /\ Len(file') = Len(file) + 1
      /\ \A i \in 1..Len(file) : file'[i] = file[i]
      /\ file'[Len(file) + 1] = x
  BY SeqAppend, LenProperties DEF TypeOK
<1>2. \A i \in 1..Len(file') : i \in 1..Len(file) \/ i = Len(file) + 1
  BY <1>1
<1>3. \A i \in 1..Len(file) : i \in 1..Len(file') /\ i # Len(file) + 1
  BY <1>1
<1>4. \A e : RowsOf(e)' = RowsOf(e) /\ (Full(e)' <=> Full(e))
  BY DEF RowsOf, Full, Spent
<1>5. \A i \in DOMAIN store : store[i].ev \in Event
  <2>1. \A i \in DOMAIN store : store[i] \in Row
    BY ElementOfSeq, LenProperties DEF TypeOK
  <2> QED
    BY <2>1 DEF Row
<1>6. BytesInv'
  <2>1. \A i \in 1..Len(file') : file'[i] # Zero
    BY <1>1, <1>2 DEF BytesInv
  <2>2. \A e \in Event : \A i \in 1..Len(file) : file[i] = Cell(e, 1) => x # Cell(e, 1)
    BY DEF BytesInv
  <2>3. \A e \in Event : \A i, j \in 1..Len(file') :
          file'[i] = Cell(e, 1) /\ file'[j] = Cell(e, 1) => i = j
    BY <1>1, <1>2, <2>2 DEF BytesInv
  <2>4. \A e \in Event : \A i \in 1..Len(file') : file'[i] = Cell(e, 1) => Begun(e)'
    BY <1>1, <1>2 DEF BytesInv
  <2> QED
    BY <1>5, <2>1, <2>3, <2>4 DEF BytesInv
<1>7. ASSUME NEW e \in Event, Full(e) PROVE x # Cell(e, 1)
  BY <1>7, FullHasRow
<1>8. NoneTooOften'
  BY <1>4 DEF NoneTooOften, Spent
<1>9. Clean => Clean'
  BY <1>1, <1>2, <1>4, <1>7 DEF Clean
<1>10. ASSUME NEW c \in Console PROVE OnceInv(c)'
  <2>1. con[c].base \in Nat /\ Len(con[c].buf) \in Nat /\ Reach(c) \in Nat
        /\ con[c].buf \in Seq(Byte)
    BY BufferType DEF Reach
  <2>2. OnceInv(c) /\ Reach(c)' = Reach(c) /\ (Reading(c)' <=> Reading(c))
    BY DEF Reach, Reading
  <2>3. BufferInv(c)'
    BY <2>2 DEF OnceInv, BufferInv, Reading
  <2>4. SameBuffer(c) => SameBuffer(c)'
    <3> SUFFICES ASSUME SameBuffer(c), NEW i \in 1..Len(con[c].buf), con[c].buf[i] # Zero
                 PROVE  /\ con[c].base + i <= Len(file')
                        /\ file'[con[c].base + i] = con[c].buf[i]
      BY DEF SameBuffer
    <3>1. con[c].base + i <= Len(file) /\ file[con[c].base + i] = con[c].buf[i]
      BY DEF SameBuffer
    <3>2. con[c].base + i \in 1..Len(file)
      BY <1>1, <2>1, <3>1
    <3> QED
      BY <1>1, <2>1, <3>1, <3>2
  <2>5. Reading(c) /\ OldBuffer(c) => OldBuffer(c)'
    BY <1>1, <1>2, <2>2 DEF OldBuffer, OnceInv, BufferInv
  <2>6. Behind(c) => Behind(c)'
    <3>1. Reach(c) <= Len(file) => Reach(c) <= Len(file')
      BY <1>1, <2>1
    <3>2. ASSUME Behind(c), NEW e \in Event, Full(e), NEW i \in 1..Len(file'), file'[i] = Cell(e, 1)
          PROVE  i <= Reach(c)
      BY <1>1, <1>2, <1>7, <3>2 DEF Behind
    <3> QED
      BY <1>4, <2>2, <2>4, <3>1, <3>2 DEF Behind
  <2> QED
    BY <1>4, <1>9, <2>2, <2>3, <2>4, <2>5, <2>6 DEF OnceInv
<1> QED
  BY <1>6, <1>8, <1>10

(* A step of the console that adds no row and does not move on in the      *)
(* buffer, or a step of nobody.                                            *)
LEMMA BytesSame ==
  ASSUME TypeOK, BytesInv, file' = file, DOMAIN store' = DOMAIN store,
         \A i \in DOMAIN store : store'[i].ev = store[i].ev,
         \A e \in Event : Begun(e) => Begun(e)'
  PROVE  BytesInv' /\ \A e : RowsOf(e)' = RowsOf(e)
<1>1. \A i \in DOMAIN store : store[i].ev \in Event
  <2>1. \A i \in DOMAIN store : store[i] \in Row
    BY ElementOfSeq, LenProperties DEF TypeOK
  <2> QED
    BY <2>1 DEF Row
<1>2. \A e : RowsOf(e)' = RowsOf(e)
  BY DEF RowsOf
<1>3. BytesInv'
  BY <1>1 DEF BytesInv
<1> QED
  BY <1>2, <1>3

(* In a file of whole characters the loop counts a line's bytes.           *)
LEMMA LineCounted ==
  ASSUME TypeOK, IInv, WholeLog \/ AllAscii, NEW c \in Console, con[c].pc = "lines",
         con[c].consumed = con[c].pos, con[c].pos <= Len(con[c].buf),
         NEW q \in 1..Len(con[c].buf), EndsLine(c, q)
  PROVE  /\ con[c].consumed + DecodedLength(LineTo(c, q)) + 1 = q
         /\ q \in Nat /\ con[c].pos < q /\ q <= Len(con[c].buf) /\ con[c].buf[q] = NewLine
<1>1. con[c].buf \in Seq(Byte) /\ Len(con[c].buf) \in Nat /\ con[c].pos \in Nat
  BY BufferType
<1>2. /\ q \in Nat /\ con[c].pos < q /\ q <= Len(con[c].buf) /\ con[c].buf[q] = NewLine
      /\ q \in con[c].pos + 1..Len(con[c].buf)
  BY <1>1 DEF EndsLine
<1>3. CASE WholeLog
  <2>1. PICK lost \in SUBSET Event : LogInv(lost)
    BY <1>3 DEF IInv
  <2>2. ConsoleInv(c, lost)
    BY <2>1 DEF LogInv
  <2>3. con[c].consumed + DecodedLength(LineTo(c, q)) + 1 = q
    BY <1>3, <2>2, NextLineInFile
  <2> QED
    BY <1>2, <2>3
<1>4. CASE AllAscii
  <2>1. LineTo(c, q) \in Seq(Byte) /\ Len(LineTo(c, q)) = q - 1 - con[c].pos
    <3>1. con[c].pos + 1 \in Int /\ q - 1 \in Int
      BY <1>1, <1>2
    <3>2. \A i \in con[c].pos + 1..q - 1 : con[c].buf[i] \in Byte
      BY <1>1, <1>2, ElementOfSeq
    <3>3. /\ LineTo(c, q) \in Seq(Byte)
          /\ Len(LineTo(c, q)) =
               IF con[c].pos + 1 <= q - 1 THEN q - 1 - (con[c].pos + 1) + 1 ELSE 0
      BY <3>1, <3>2, SubSeqProperties DEF LineTo
    <3> QED
      BY <1>1, <1>2, <3>3
  <2>2. \A b \in Byte : ClassOf(b) = "ascii"
    <3> SUFFICES ASSUME NEW b \in Byte, b.ev # 0 PROVE Body[b.ev][b.at] = "ascii"
      BY DEF ClassOf
    <3>1. b.ev \in Event /\ b.at \in Nat \ {0} /\ b.at <= Len(Body[b.ev])
      BY DEF Byte, NewLine, Zero
    <3>2. Len(Body[b.ev]) \in Nat
      BY <3>1, BodyType
    <3> QED
      BY <1>4, <3>1, <3>2 DEF AllAscii
  <2>3. \A i \in DOMAIN LineTo(c, q) : LineTo(c, q)[i] \in Byte
    BY <2>1, ElementOfSeq, LenProperties
  <2>4. Broken(LineTo(c, q)) = {}
    BY <2>2, <2>3 DEF Broken
  <2>5. DecodedLength(LineTo(c, q)) = q - 1 - con[c].pos
    BY <1>1, <1>2, <2>1, <2>4, FS_EmptySet DEF DecodedLength
  <2> QED
    BY <1>1, <1>2, <2>5
<1> QED
  BY <1>3, <1>4

(* A stored line begins with the first byte of its event.                  *)
LEMMA StoredFirst ==
  ASSUME TypeOK, NEW c \in Console, NEW q \in 1..Len(con[c].buf), EndsLine(c, q),
         NEW e \in Event, LineTo(c, q) = JsonLine(e)
  PROVE  /\ con[c].pos + 1 \in 1..Len(con[c].buf) /\ con[c].pos + 1 < q
         /\ con[c].buf[con[c].pos + 1] = Cell(e, 1)
<1>1. con[c].buf \in Seq(Byte) /\ Len(con[c].buf) \in Nat /\ con[c].pos \in Nat
  BY BufferType
<1>2. q \in Nat /\ con[c].pos < q /\ q <= Len(con[c].buf)
  BY <1>1 DEF EndsLine
<1>3. con[c].pos + 1 \in Int /\ q - 1 \in Int
  BY <1>1, <1>2
<1>4. \A i \in con[c].pos + 1..q - 1 : con[c].buf[i] \in Byte
  BY <1>1, <1>2, ElementOfSeq
<1>5. /\ Len(LineTo(c, q)) = IF con[c].pos + 1 <= q - 1 THEN q - 1 - (con[c].pos + 1) + 1 ELSE 0
      /\ \A i \in 1..q - 1 - (con[c].pos + 1) + 1 :
           LineTo(c, q)[i] = con[c].buf[con[c].pos + 1 + i - 1]
  BY <1>3, <1>4, SubSeqProperties DEF LineTo
<1>6. Len(JsonLine(e)) = Len(Body[e]) /\ JsonLine(e)[1] = Cell(e, 1) /\ Len(Body[e]) \in Nat \ {0}
  BY BodyType DEF JsonLine
<1>7. con[c].pos + 1 <= q - 1
  BY <1>1, <1>2, <1>5, <1>6
<1>8. LineTo(c, q)[1] = con[c].buf[con[c].pos + 1]
  <2>1. 1 \in 1..q - 1 - (con[c].pos + 1) + 1
    BY <1>1, <1>2, <1>7
  <2>2. con[c].pos + 1 + 1 - 1 = con[c].pos + 1
    BY <1>1
  <2> QED
    BY <1>5, <2>1, <2>2
<1> QED
  BY <1>1, <1>2, <1>6, <1>7, <1>8

(* A step of the console that stores no row and leaves the log alone.      *)
LEMMA RowsKept ==
  ASSUME SingleConsole, TypeOK, BytesInv, NoneTooOften, NEW c \in Console, OnceInv(c),
         UNCHANGED <<file, emitted, writing, written>>,
         DOMAIN store' = DOMAIN store, \A i \in DOMAIN store : store'[i].ev = store[i].ev,
         Spent' \in {Spent, Spent + 1},
         BufferInv(c)',
         Reading(c)' =>
           /\ con'[c].consumed = con'[c].pos /\ con'[c].pos <= Len(con'[c].buf)
           /\ SameBuffer(c)' \/ OldBuffer(c)',
         Spent' = Spent /\ Reading(c)' =>
           \A e \in Event : Full(e) =>
             \A i \in 1..Len(con'[c].buf) : i > con'[c].pos => con'[c].buf[i] # Cell(e, 1),
         Spent' = Spent /\ Behind(c) =>
           /\ Reach(c) <= Reach(c)' /\ Reach(c)' \in Nat /\ Reach(c)' <= Len(file)
           /\ con'[c].pc = "offset" => offset' <= con'[c].size
           /\ Reading(c)' => SameBuffer(c)'
  PROVE  BytesInv' /\ NoneTooOften' /\ \A d \in Console : OnceInv(d)'
<1>1. BytesInv' /\ \A e : RowsOf(e)' = RowsOf(e)
  BY BytesSame DEF Begun
<1>2. /\ NoneTooOften'
      /\ \A e \in Event : Full(e)' => Full(e)
      /\ Spent' = Spent + 1 => \A e \in Event : ~ Full(e)'
  BY <1>1, FullStep
<1>3. OnceInv(c)'
  <2>1. CASE Spent' = Spent + 1
    BY <1>2, <2>1 DEF OnceInv, Clean
  <2>2. CASE Spent' = Spent
    <3>1. Clean => Clean'
      BY <1>2 DEF Clean
    <3>2. Behind(c) => Behind(c)'
      <4> SUFFICES ASSUME Behind(c), NEW e \in Event, Full(e)', NEW i \in 1..Len(file),
                          file[i] = Cell(e, 1)
                   PROVE  i <= Reach(c)'
        BY <2>2 DEF Behind
      <4>1. i <= Reach(c)
        BY <1>2 DEF Behind
      <4>2. Reach(c) \in Nat
        BY BufferType DEF Reach
      <4> QED
        BY <2>2, <4>1, <4>2
    <3> QED
      BY <1>2, <2>2, <3>1, <3>2 DEF OnceInv
  <2> QED
    BY <2>1, <2>2
<1> QED
  BY <1>1, <1>2, <1>3 DEF SingleConsole

(* The console ends or begins a tick where it would read on.               *)
LEMMA FreshKept ==
  ASSUME SingleConsole, TypeOK, BytesInv, NoneTooOften, NEW c \in Console, OnceInv(c),
         UNCHANGED <<file, emitted, writing, written, store>>,
         NEW pc \in {"idle", "down"}, SetConsole(c, Fresh(pc)),
         Spent' = Spent + 1 \/ (Spent' = Spent /\ offset' = Reach(c))
  PROVE  BytesInv' /\ NoneTooOften' /\ \A d \in Console : OnceInv(d)'
<1>1. con'[c].pc = pc
  BY ConsoleUpdate DEF Fresh
<1>2. ~ Reading(c)' /\ Reach(c)' = offset' /\ con'[c].pc # "offset"
  BY <1>1 DEF Reading, Reach
<1>3. BufferInv(c)'
  BY <1>2 DEF BufferInv
<1>4. Reach(c) \in Nat
  BY BufferType DEF Reach
<1>5. Spent' = Spent /\ Spent' # Spent + 1 /\ Behind(c) =>
           /\ Reach(c) <= Reach(c)' /\ Reach(c)' \in Nat /\ Reach(c)' <= Len(file)
  BY <1>2, <1>4 DEF Behind
<1>6. Spent \in Nat
  BY SpentType
<1> QED
  BY <1>2, <1>3, <1>5, <1>6, RowsKept

(* The console goes on in its buffer, past nothing or past a newline.      *)
LEMMA MoveKept ==
  ASSUME SingleConsole, TypeOK, BytesInv, NoneTooOften, NEW c \in Console, OnceInv(c),
         UNCHANGED <<file, emitted, writing, written, offset>>,
         DOMAIN store' = DOMAIN store, \A i \in DOMAIN store : store'[i].ev = store[i].ev,
         Spent' \in {Spent, Spent + 1}, Reading(c),
         NEW s, SetConsole(c, s), s.pc \in {"lines", "alerts"},
         s.base = con[c].base, s.buf = con[c].buf, s.consumed = s.pos,
         \/ s.pos = con[c].pos
         \/ /\ s.pos \in Nat /\ con[c].pos < s.pos /\ s.pos <= Len(con[c].buf)
            /\ con[c].buf[s.pos] = NewLine
  PROVE  BytesInv' /\ NoneTooOften' /\ \A d \in Console : OnceInv(d)'
<1>1. con'[c] = s
  BY ConsoleUpdate
<1>2. Reading(c)' /\ Reach(c)' = s.base + s.pos /\ Reach(c) = con[c].base + con[c].pos
      /\ con'[c].pc # "offset"
  BY <1>1 DEF Reading, Reach
<1>3. con[c].base \in Nat /\ con[c].pos \in Nat /\ Len(con[c].buf) \in Nat /\ Len(file) \in Nat
  BY BufferType
<1>4. BufferInv(c)'
  BY <1>1 DEF OnceInv, BufferInv, Begun
<1>5. (SameBuffer(c) => SameBuffer(c)') /\ (OldBuffer(c) => OldBuffer(c)')
  BY <1>1 DEF SameBuffer, OldBuffer
<1>6. s.pos \in Nat /\ con[c].pos <= s.pos /\ s.pos <= Len(con[c].buf)
  BY <1>3 DEF OnceInv
<1>7. SameBuffer(c) /\ Reach(c) <= Len(file) => Reach(c)' <= Len(file)
  <2>1. CASE s.pos = con[c].pos
    BY <1>2, <2>1
  <2>2. CASE s.pos # con[c].pos
    <3>1. s.pos \in 1..Len(con[c].buf) /\ con[c].buf[s.pos] # Zero
      BY <1>3, <2>2 DEF NewLine, Zero
    <3> QED
      BY <1>2, <3>1 DEF SameBuffer
  <2> QED
    BY <2>1, <2>2
<1>8. \A e \in Event : Full(e) =>
        \A i \in 1..Len(s.buf) : i > s.pos => s.buf[i] # Cell(e, 1)
  <2> SUFFICES ASSUME NEW e \in Event, Full(e), NEW i \in 1..Len(con[c].buf), i > s.pos
               PROVE  con[c].buf[i] # Cell(e, 1)
    OBVIOUS
  <2>1. i > con[c].pos
    BY <1>3, <1>6
  <2> QED
    BY <2>1 DEF OnceInv
<1>9. Behind(c) => /\ Reach(c) <= Reach(c)' /\ Reach(c)' \in Nat /\ Reach(c)' <= Len(file)
                   /\ SameBuffer(c)'
  BY <1>2, <1>3, <1>5, <1>6, <1>7 DEF Behind
<1>10. SameBuffer(c)' \/ OldBuffer(c)'
  BY <1>5 DEF OnceInv
<1> QED
  BY <1>1, <1>2, <1>4, <1>6, <1>8, <1>9, <1>10, RowsKept

(* Where the console begins to read nothing full lies ahead.               *)
LEMMA ReadKept ==
  ASSUME SingleConsole, TypeOK, BytesInv, NoneTooOften, NEW c \in Console, OnceInv(c),
         ReadFile(c)
  PROVE  BytesInv' /\ NoneTooOften' /\ \A d \in Console : OnceInv(d)'
<1> DEFINE b == [i \in 1..con[c].size - con[c].base |->
                   IF con[c].base + i <= Len(file) THEN file[con[c].base + i] ELSE Zero]
           s == [con[c] EXCEPT !.pc = "lines", !.buf = b, !.pos = 0, !.consumed = 0]
<1>1. con[c].base \in Nat /\ con[c].size \in Nat /\ Len(file) \in Nat /\ con[c] \in ConsoleState
  BY BufferType DEF TypeOK
<1>2. /\ con[c].pc = "read" /\ SetConsole(c, s)
      /\ UNCHANGED <<file, emitted, writing, written, offset, store, crashes, faults>>
  BY DEF ReadFile, agentVars, dbVars, budgetVars
<1>3. b \in Seq(Byte) /\ Len(b) \in Nat /\ DOMAIN b = 1..Len(b)
  <2>1. \A i \in 1..con[c].size - con[c].base : b[i] \in Byte
    <3> SUFFICES ASSUME NEW i \in 1..con[c].size - con[c].base, con[c].base + i <= Len(file)
                 PROVE  file[con[c].base + i] \in Byte
      BY DEF Byte
    <3>1. con[c].base + i \in 1..Len(file)
      BY <1>1
    <3> QED
      BY <3>1, ElementOfSeq DEF TypeOK
  <2>2. b \in [1..con[c].size - con[c].base -> Byte]
    BY ONLY <2>1, Zenon
  <2>3. con[c].size - con[c].base \in Int
    BY <1>1
  <2> HIDE DEF b
  <2> QED
    BY <2>2, <2>3, SeqOfLength, LenProperties
<1>4. \A i \in 1..Len(b) : b[i] # Zero =>
        con[c].base + i \in 1..Len(file) /\ b[i] = file[con[c].base + i]
  <2> SUFFICES ASSUME NEW i \in 1..Len(b), b[i] # Zero
               PROVE  con[c].base + i \in 1..Len(file) /\ b[i] = file[con[c].base + i]
    OBVIOUS
  <2>1. i \in 1..con[c].size - con[c].base
    BY <1>3
  <2>2. con[c].base + i <= Len(file) /\ b[i] = file[con[c].base + i]
    BY <2>1
  <2> HIDE DEF b
  <2> QED
    BY <1>1, <2>1, <2>2
<1> HIDE DEF b
<1>5. s.pc = "lines" /\ s.base = con[c].base /\ s.buf = b /\ s.pos = 0 /\ s.consumed = 0
  BY <1>1 DEF ConsoleState
<1> HIDE DEF s
<1>6. con'[c] = s
  BY <1>2, ConsoleUpdate
<1>7. \A e : Cell(e, 1) = Zero => e = 0
  BY DEF Cell, Zero
<1>8. \A e \in Event : \A i \in 1..Len(b) : b[i] = Cell(e, 1) =>
        con[c].base + i \in 1..Len(file) /\ file[con[c].base + i] = Cell(e, 1)
  <2> SUFFICES ASSUME NEW e \in Event, NEW i \in 1..Len(b), b[i] = Cell(e, 1)
               PROVE  b[i] # Zero
    BY <1>4
  <2> QED
    BY <1>7, LogAssumption DEF Event
<1>9. BufferInv(c)'
  <2>1. \A e \in Event : \A i, j \in 1..Len(b) :
          b[i] = Cell(e, 1) /\ b[j] = Cell(e, 1) => i = j
    <3> SUFFICES ASSUME NEW e \in Event, NEW i \in 1..Len(b), NEW j \in 1..Len(b),
                        b[i] = Cell(e, 1), b[j] = Cell(e, 1)
                 PROVE  i = j
      OBVIOUS
    <3>1. con[c].base + i = con[c].base + j
      BY <1>8 DEF BytesInv
    <3> QED
      BY <1>1, <1>3, <3>1
  <2>2. \A e \in Event : \A i \in 1..Len(b) : b[i] = Cell(e, 1) => Begun(e)'
    BY <1>2, <1>8 DEF BytesInv, Begun
  <2> QED
    BY <1>5, <1>6, <2>1, <2>2 DEF BufferInv
<1>10. SameBuffer(c)'
  BY <1>1, <1>2, <1>4, <1>5, <1>6 DEF SameBuffer
<1>11. Reach(c) = con[c].base /\ Reach(c)' = con[c].base /\ Reading(c)'
       /\ con'[c].pc # "offset"
  BY <1>1, <1>2, <1>5, <1>6 DEF Reach, Reading
<1>12. \A e \in Event : Full(e) => \A i \in 1..Len(b) : b[i] # Cell(e, 1)
  <2> SUFFICES ASSUME NEW e \in Event, Full(e), NEW i \in 1..Len(b), b[i] = Cell(e, 1)
               PROVE  FALSE
    OBVIOUS
  <2>1. con[c].base + i \in 1..Len(file) /\ file[con[c].base + i] = Cell(e, 1)
    BY <1>8
  <2>2. ~ Clean
    BY <2>1 DEF Clean
  <2>3. con[c].base + i <= con[c].base
    BY <1>11, <2>1, <2>2 DEF OnceInv, Behind
  <2> QED
    BY <1>1, <1>3, <2>3
<1>13. Spent' = Spent
  BY <1>2 DEF Spent
<1>14. con'[c].consumed = con'[c].pos /\ con'[c].pos <= Len(con'[c].buf)
  BY <1>3, <1>5, <1>6
<1>15. Behind(c) => /\ Reach(c) <= Reach(c)' /\ Reach(c)' \in Nat /\ Reach(c)' <= Len(file)
                    /\ SameBuffer(c)'
  BY <1>1, <1>10, <1>11 DEF Behind
<1> QED
  BY <1>2, <1>5, <1>6, <1>9, <1>10, <1>11, <1>12, <1>13, <1>14, <1>15, RowsKept

(* An event is stored whose rows are not spent; now it lies behind.        *)
LEMMA StoreKept ==
  ASSUME SingleConsole, TypeOK, IInv, WholeLog \/ AllAscii, BytesInv, NoneTooOften,
         NEW c \in Console, OnceInv(c),
         NEW q \in 1..Len(con[c].buf), NEW e \in Event, StoreEvent(c, q, e)
  PROVE  BytesInv' /\ NoneTooOften' /\ \A d \in Console : OnceInv(d)'
<1> DEFINE pc == IF Hits[e] = 0 THEN "lines" ELSE "alerts"
           s == [PastLine(c, q) EXCEPT !.pc = pc, !.row = Len(store) + 1]
           x == [ev |-> e, alerts |-> 0]
           p == con[c].pos + 1
<1>1. /\ con[c].pc = "lines" /\ EndsLine(c, q) /\ LineTo(c, q) = JsonLine(e)
      /\ store' = Append(store, x) /\ SetConsole(c, s)
      /\ UNCHANGED <<file, emitted, writing, written, offset, crashes, faults>>
  BY DEF StoreEvent, agentVars, budgetVars
<1>2. con[c].base \in Nat /\ con[c].pos \in Nat /\ Len(con[c].buf) \in Nat /\ Len(file) \in Nat
      /\ con[c].consumed \in Nat
  BY BufferType
<1>3. Reading(c) /\ con[c].consumed = con[c].pos /\ con[c].pos <= Len(con[c].buf)
  BY <1>1 DEF Reading, OnceInv
<1>4. /\ con[c].consumed + DecodedLength(LineTo(c, q)) + 1 = q
      /\ q \in Nat /\ con[c].pos < q /\ q <= Len(con[c].buf) /\ con[c].buf[q] = NewLine
  BY <1>1, <1>3, LineCounted
<1>5. p \in 1..Len(con[c].buf) /\ p < q /\ con[c].buf[p] = Cell(e, 1)
  BY <1>1, StoredFirst
<1>6. s.pc = pc /\ s.base = con[c].base /\ s.buf = con[c].buf /\ s.pos = q /\ s.consumed = q
  BY <1>4, PastLineFields
<1>7. pc \in {"lines", "alerts"}
  OBVIOUS
<1> HIDE DEF pc, s
<1>8. con'[c] = s
  BY <1>1, ConsoleUpdate
<1>9. Reading(c)' /\ Reach(c)' = con[c].base + q /\ Reach(c) = con[c].base + con[c].pos
      /\ con'[c].pc # "offset"
  BY <1>3, <1>6, <1>7, <1>8 DEF Reading, Reach
<1>10. Spent' = Spent /\ Spent \in Nat
  BY <1>1, SpentType DEF Spent
<1>11. ~ Full(e) /\ Begun(e)
  <2>1. p > con[c].pos
    BY <1>2
  <2> QED
    BY <1>3, <1>5, <2>1 DEF OnceInv, BufferInv
<1>12. x \in Row /\ x.ev = e
  BY LogAssumption DEF Row
<1>13. \A f : Cardinality(RowsOf(f))'
                = IF f = e THEN Cardinality(RowsOf(f)) + 1 ELSE Cardinality(RowsOf(f))
  <2> HIDE DEF x
  <2> QED
    BY <1>1, <1>12, RowsOfAppend
<1>14. NoneTooOften'
  <2>1. Cardinality(RowsOf(e)) \in Nat /\ Cardinality(RowsOf(e)) <= Spent
    BY <1>10, <1>11, RowsOfType DEF Full
  <2> QED
    BY <1>10, <1>13, <2>1 DEF NoneTooOften
<1>15. \A f \in Event : Full(f)' => f = e \/ Full(f)
  BY <1>10, <1>13 DEF Full
<1>16. BytesInv'
  <2>1. store \in Seq(Row) /\ x \in Row
    BY <1>12 DEF TypeOK
  <2> HIDE DEF x
  <2>2. /\ Len(store) \in Nat /\ DOMAIN store = 1..Len(store)
        /\ store' \in Seq(Row) /\ Len(store') = Len(store) + 1
        /\ \A i \in 1..Len(store) : store'[i] = store[i]
        /\ store'[Len(store) + 1] = x
    BY <1>1, <2>1, SeqAppend, LenProperties
  <2>3. DOMAIN store' = 1..Len(store) + 1
    BY <2>2, LenProperties
  <2>4. \A i \in 1..Len(store) + 1 : i \in 1..Len(store) \/ i = Len(store) + 1
    BY <2>2
  <2>5. \A i \in DOMAIN store' : Begun(store'[i].ev)
    BY <1>11, <1>12, <2>2, <2>3, <2>4 DEF BytesInv
  <2> QED
    BY <1>1, <2>5 DEF BytesInv, Begun
<1>17. BufferInv(c)'
  BY <1>1, <1>3, <1>6, <1>8 DEF OnceInv, BufferInv, Begun
<1>18. (SameBuffer(c) => SameBuffer(c)') /\ (OldBuffer(c) => OldBuffer(c)')
  BY <1>1, <1>6, <1>8 DEF SameBuffer, OldBuffer
<1>19. ASSUME NEW f \in Event, Full(f)', NEW i \in 1..Len(con[c].buf), i > q
       PROVE  con[c].buf[i] # Cell(f, 1)
  <2>1. i # p /\ i > con[c].pos
    BY <1>2, <1>4, <1>5, <1>19
  <2>2. CASE f = e
    BY <1>3, <1>5, <2>1, <2>2 DEF OnceInv, BufferInv
  <2>3. CASE Full(f)
    BY <1>3, <2>1, <2>3 DEF OnceInv
  <2> QED
    BY <1>15, <1>19, <2>2, <2>3
<1>20. SameBuffer(c) => con[c].base + q <= Len(file) /\ con[c].base + p <= Len(file)
                        /\ file[con[c].base + p] = Cell(e, 1)
  <2>1. con[c].buf[q] # Zero /\ con[c].buf[p] # Zero
    BY <1>4, <1>5, LogAssumption DEF NewLine, Zero, Cell, Event
  <2> QED
    BY <1>4, <1>5, <2>1 DEF SameBuffer
<1>21. ASSUME SameBuffer(c), Clean \/ Behind(c)
       PROVE  Behind(c)'
  <2>1. con[c].base + p \in 1..Len(file) /\ con[c].base + p <= con[c].base + q
    BY <1>2, <1>4, <1>5, <1>20, <1>21, SMTT(30)
  <2>2. ASSUME NEW f \in Event, Full(f)', NEW i \in 1..Len(file), file[i] = Cell(f, 1)
        PROVE  i <= con[c].base + q
    <3>1. CASE f = e
      <4>1. i = con[c].base + p
        BY <1>20, <1>21, <2>1, <2>2, <3>1 DEF BytesInv
      <4> QED
        BY <2>1, <4>1
    <3>2. CASE Full(f)
      <4>1. i <= con[c].base + con[c].pos
        BY <1>9, <1>21, <2>2, <3>2 DEF Clean, Behind
      <4> QED
        BY <1>2, <1>4, <4>1
    <3> QED
      BY <1>15, <2>2, <3>1, <3>2
  <2> QED
    BY <1>1, <1>9, <1>18, <1>20, <1>21, <2>2 DEF Behind
<1>22. ASSUME OldBuffer(c), Clean
       PROVE  Clean'
  <2>1. \A i \in 1..Len(file) : file[i] # Cell(e, 1)
    BY <1>5, <1>22 DEF OldBuffer
  <2> QED
    BY <1>1, <1>15, <1>22, <2>1 DEF Clean
<1>23. Clean' \/ Behind(c)'
  <2>1. Behind(c) => SameBuffer(c)
    BY <1>3 DEF Behind
  <2> QED
    BY <1>3, <1>21, <1>22, <2>1 DEF OnceInv
<1>24. OnceInv(c)'
  <2>1. con'[c].consumed = con'[c].pos /\ con'[c].pos <= Len(con'[c].buf)
    BY <1>4, <1>6, <1>8
  <2>2. SameBuffer(c)' \/ OldBuffer(c)'
    BY <1>3, <1>18 DEF OnceInv
  <2>3. \A f \in Event : Full(f)' =>
          \A i \in 1..Len(con'[c].buf) : i > con'[c].pos => con'[c].buf[i] # Cell(f, 1)
    BY <1>6, <1>8, <1>19
  <2> QED
    BY <1>17, <1>23, <2>1, <2>2, <2>3 DEF OnceInv
<1> QED
  BY <1>14, <1>16, <1>24 DEF SingleConsole

LEMMA ConsoleRows ==
  ASSUME SingleConsole, TypeOK, IInv, WholeLog \/ AllAscii, BytesInv, NoneTooOften,
         NEW c \in Console, OnceInv(c), ConsoleStart(c) \/ ConsoleCrash(c) \/ Tick(c)
  PROVE  BytesInv' /\ NoneTooOften' /\ \A d \in Console : OnceInv(d)'
<1> DEFINE G == BytesInv' /\ NoneTooOften' /\ \A d \in Console : OnceInv(d)'
<1>1. /\ con[c] \in ConsoleState /\ Spent \in Nat /\ crashes \in Nat /\ faults \in Nat
      /\ con[c].base \in Nat /\ con[c].size \in Nat /\ offset \in Nat /\ Len(file) \in Nat
  BY BufferType, BoundTypes, SpentType DEF TypeOK
<1>2. CASE ConsoleStart(c)
  <2>1. /\ con[c].pc = "down" /\ SetConsole(c, Fresh("idle"))
        /\ UNCHANGED <<file, emitted, writing, written, store, offset, crashes, faults>>
    BY <1>2 DEF ConsoleStart, agentVars, dbVars, budgetVars
  <2>2. Spent' = Spent /\ offset' = Reach(c)
    BY <2>1 DEF Spent, Reach, Reading
  <2> QED
    BY <2>1, <2>2, FreshKept
<1>3. CASE ConsoleCrash(c)
  <2>1. /\ SetConsole(c, Fresh("down")) /\ crashes' = crashes + 1
        /\ UNCHANGED <<file, emitted, writing, written, store, offset, faults>>
    BY <1>3 DEF ConsoleCrash, agentVars, dbVars
  <2>2. Spent' = Spent + 1
    BY <1>1, <2>1 DEF Spent
  <2> QED
    BY <2>1, <2>2, FreshKept
<1>4. CASE SetOffset(c)
  <2>1. /\ con[c].pc = "lines" /\ SetConsole(c, Fresh("idle"))
        /\ offset' = con[c].base + con[c].consumed
        /\ UNCHANGED <<file, emitted, writing, written, store, crashes, faults>>
    BY <1>4 DEF SetOffset, agentVars, budgetVars
  <2>2. Spent' = Spent /\ offset' = Reach(c)
    BY <2>1 DEF Spent, Reach, Reading, OnceInv
  <2> QED
    BY <2>1, <2>2, FreshKept
<1>5. CASE SetOffsetFails(c)
  <2>1. /\ SetConsole(c, Fresh("idle")) /\ faults' = faults + 1
        /\ UNCHANGED <<file, emitted, writing, written, store, offset, crashes>>
    BY <1>5 DEF SetOffsetFails, agentVars, dbVars
  <2>2. Spent' = Spent + 1
    BY <1>1, <2>1 DEF Spent
  <2> QED
    BY <2>1, <2>2, FreshKept
<1>6. CASE StatFile(c)
  <2> DEFINE s == [con[c] EXCEPT !.pc = "offset", !.size = Len(file)]
  <2>1. /\ con[c].pc = "idle" /\ SetConsole(c, s)
        /\ UNCHANGED <<file, emitted, writing, written, store, offset, crashes, faults>>
    BY <1>6 DEF StatFile, agentVars, dbVars, budgetVars
  <2>2. s.pc = "offset" /\ s.size = Len(file)
    BY <1>1 DEF ConsoleState
  <2> HIDE DEF s
  <2>3. con'[c] = s
    BY <2>1, ConsoleUpdate
  <2>4. ~ Reading(c)' /\ Reach(c)' = offset /\ Reach(c) = offset /\ Spent' = Spent
    BY <2>1, <2>2, <2>3 DEF Reading, Reach, Spent
  <2>5. BufferInv(c)'
    BY <2>4 DEF BufferInv
  <2>6. Behind(c) => Reach(c) <= Reach(c)' /\ Reach(c)' <= Len(file) /\ offset' <= con'[c].size
    BY <1>1, <2>1, <2>2, <2>3, <2>4 DEF Behind
  <2> QED
    BY <1>1, <2>1, <2>4, <2>5, <2>6, RowsKept
<1>7. CASE GetOffset(c)
  <2> DEFINE from == IF con[c].size < offset THEN 0 ELSE offset
             s == [con[c] EXCEPT !.pc = "read", !.base = from]
  <2>1. /\ con[c].pc = "offset"
        /\ SetConsole(c, IF con[c].size <= from THEN Fresh("idle") ELSE s)
        /\ UNCHANGED <<file, emitted, writing, written, store, offset, crashes, faults>>
    BY <1>7 DEF GetOffset, agentVars, dbVars, budgetVars
  <2>2. Spent' = Spent /\ Reach(c) = offset
    BY <2>1 DEF Spent, Reach, Reading
  <2>3. CASE con[c].size <= from
    BY <2>1, <2>2, <2>3, FreshKept
  <2>4. CASE ~ (con[c].size <= from)
    <3>1. SetConsole(c, s)
      BY <2>1, <2>4
    <3>2. Behind(c) => from = offset
      BY <1>1, <2>1 DEF Behind
    <3> HIDE DEF from
    <3>3. s.pc = "read" /\ s.base = from
      BY <1>1 DEF ConsoleState
    <3> HIDE DEF s
    <3>4. con'[c] = s
      BY <3>1, ConsoleUpdate
    <3>5. ~ Reading(c)' /\ Reach(c)' = from /\ con'[c].pc # "offset"
      BY <3>3, <3>4 DEF Reading, Reach
    <3>6. BufferInv(c)'
      BY <3>5 DEF BufferInv
    <3>7. Behind(c) => Reach(c) <= Reach(c)' /\ Reach(c)' \in Nat /\ Reach(c)' <= Len(file)
      BY <1>1, <2>2, <3>2, <3>5 DEF Behind
    <3> QED
      BY <1>1, <2>1, <2>2, <3>5, <3>6, <3>7, RowsKept
  <2> QED
    BY <2>3, <2>4
<1>8. CASE ReadFile(c)
  BY <1>8, ReadKept
<1>9. ASSUME NEW q \in 1..Len(con[c].buf),
             SkipLine(c, q) \/ \E e \in Event : StoreEventFails(c, q, e)
      PROVE  G
  <2>1. /\ con[c].pc = "lines" /\ EndsLine(c, q) /\ SetConsole(c, PastLine(c, q))
        /\ faults' \in {faults, faults + 1}
        /\ UNCHANGED <<file, emitted, writing, written, store, offset, crashes>>
    BY <1>9 DEF SkipLine, StoreEventFails, agentVars, dbVars, budgetVars
  <2>2. Reading(c) /\ con[c].consumed = con[c].pos /\ con[c].pos <= Len(con[c].buf)
    BY <2>1 DEF Reading, OnceInv
  <2>3. /\ con[c].consumed + DecodedLength(LineTo(c, q)) + 1 = q
        /\ q \in Nat /\ con[c].pos < q /\ q <= Len(con[c].buf) /\ con[c].buf[q] = NewLine
    BY <2>1, <2>2, LineCounted
  <2> DEFINE s == PastLine(c, q)
  <2>4. /\ s.pc = "lines" /\ s.base = con[c].base /\ s.buf = con[c].buf
        /\ s.pos = q /\ s.consumed = q
    BY <2>1, <2>3, PastLineFields
  <2>5. Spent' \in {Spent, Spent + 1}
    BY <1>1, <2>1 DEF Spent
  <2>6. SetConsole(c, s)
    BY <2>1
  <2> HIDE DEF s
  <2> QED
    BY <2>1, <2>2, <2>3, <2>4, <2>5, <2>6, MoveKept
<1>10. ASSUME NEW q \in 1..Len(con[c].buf), NEW e \in Event, StoreEvent(c, q, e)
       PROVE  G
  BY <1>10, StoreKept
<1>11. CASE StoreAlert(c) \/ StoreAlertFails(c)
  <2>1. /\ con[c].pc = "alerts" /\ faults' \in {faults, faults + 1}
        /\ UNCHANGED <<file, emitted, writing, written, offset, crashes>>
        /\ \E y \in {"lines", "alerts"} : SetConsole(c, [con[c] EXCEPT !.pc = y])
    <3> DEFINE pc == IF store[con[c].row].alerts + 1 = Hits[store[con[c].row].ev]
                       THEN "lines" ELSE "alerts"
    <3>1. CASE StoreAlert(c)
      <4>1. SetConsole(c, [con[c] EXCEPT !.pc = pc]) /\ con[c].pc = "alerts"
            /\ UNCHANGED <<file, emitted, writing, written, offset, crashes, faults>>
        BY <3>1 DEF StoreAlert, agentVars, budgetVars
      <4>2. pc \in {"lines", "alerts"}
        OBVIOUS
      <4> HIDE DEF pc
      <4> QED
        BY <4>1, <4>2
    <3>2. CASE StoreAlertFails(c)
      BY <3>2 DEF StoreAlertFails, agentVars, dbVars
    <3> QED
      BY <1>11, <3>1, <3>2
  <2>2. PICK y \in {"lines", "alerts"} : SetConsole(c, [con[c] EXCEPT !.pc = y])
    BY <2>1
  <2> DEFINE s == [con[c] EXCEPT !.pc = y]
  <2>3. /\ s.pc = y /\ s.base = con[c].base /\ s.buf = con[c].buf
        /\ s.pos = con[c].pos /\ s.consumed = con[c].consumed
    BY <1>1 DEF ConsoleState
  <2> HIDE DEF s
  <2>4. SetConsole(c, s)
    BY <2>2 DEF s
  <2>5. DOMAIN store' = DOMAIN store /\ \A i \in DOMAIN store : store'[i].ev = store[i].ev
    <3>1. \A i \in DOMAIN store : store[i] \in Row
      BY ElementOfSeq, LenProperties DEF TypeOK
    <3>2. CASE StoreAlert(c)
      BY <3>1, <3>2 DEF StoreAlert, Row
    <3>3. CASE StoreAlertFails(c)
      BY <3>3 DEF StoreAlertFails, dbVars
    <3> QED
      BY <1>11, <3>2, <3>3
  <2>6. Reading(c) /\ con[c].consumed = con[c].pos
    BY <2>1 DEF Reading, OnceInv
  <2>7. Spent' \in {Spent, Spent + 1}
    BY <1>1, <2>1 DEF Spent
  <2> QED
    BY <2>1, <2>3, <2>4, <2>5, <2>6, <2>7, MoveKept
<1> QED
  BY <1>2, <1>3, <1>4, <1>5, <1>6, <1>7, <1>8, <1>9, <1>10, <1>11 DEF Tick, NextLine

(* Nothing that a row is counted by changes.                               *)
LEMMA LogOnly ==
  ASSUME TypeOK, BytesInv, NoneTooOften, \A c \in Console : OnceInv(c),
         UNCHANGED <<file, offset, store, con, crashes, faults>>,
         \A e \in Event : Begun(e) => Begun(e)'
  PROVE  BytesInv' /\ NoneTooOften' /\ \A c \in Console : OnceInv(c)'
<1>1. BytesInv' /\ \A e : RowsOf(e)' = RowsOf(e)
  BY BytesSame
<1>2. Spent' = Spent /\ \A e : Full(e)' <=> Full(e)
  BY <1>1 DEF Spent, Full
<1>3. ASSUME NEW c \in Console PROVE OnceInv(c)'
  <2>1. OnceInv(c) /\ Reach(c)' = Reach(c) /\ (Reading(c)' <=> Reading(c))
    BY DEF Reach, Reading
  <2>2. BufferInv(c)'
    BY <2>1 DEF OnceInv, BufferInv
  <2>3. (SameBuffer(c)' <=> SameBuffer(c)) /\ (OldBuffer(c)' <=> OldBuffer(c))
    BY DEF SameBuffer, OldBuffer
  <2>4. (Clean' <=> Clean) /\ (Behind(c)' <=> Behind(c))
    BY <1>2, <2>1, <2>3 DEF Clean, Behind
  <2> QED
    BY <1>2, <2>1, <2>2, <2>3, <2>4 DEF OnceInv
<1> QED
  BY <1>1, <1>2, <1>3 DEF NoneTooOften

LEMMA AgentRows ==
  ASSUME TypeOK, BytesInv, NoneTooOften, \A c \in Console : OnceInv(c), Agent
  PROVE  BytesInv' /\ NoneTooOften' /\ \A c \in Console : OnceInv(c)'
<1>1. emitted \in Nat /\ writing \in Nat /\ written \in Nat /\ \A e \in Event : e \in Nat \ {0}
  BY LogAssumption DEF TypeOK, Event
<1>2. CASE AgentAppend
  <2>1. /\ writing = 0 /\ emitted' = emitted + 1 /\ writing' \in {0, emitted + 1}
        /\ UNCHANGED <<file, offset, store, con, crashes, faults>>
    BY <1>2 DEF AgentAppend, dbVars, budgetVars
  <2>2. \A e \in Event : Begun(e) => Begun(e)'
    BY <1>1, <2>1 DEF Begun
  <2> QED
    BY <2>1, <2>2, LogOnly
<1>3. CASE AgentStop
  <2>1. /\ writing' = 0 /\ emitted' = emitted
        /\ UNCHANGED <<file, offset, store, con, crashes, faults>>
    BY <1>3 DEF AgentStop, dbVars
  <2>2. \A e \in Event : Begun(e) => Begun(e)'
    BY <1>1, <2>1 DEF Begun
  <2> QED
    BY <2>1, <2>2, LogOnly
<1>4. CASE AgentWriteByte
  <2>1. UNCHANGED <<emitted, offset, store, con, crashes, faults>> /\ writing # 0
    BY <1>4 DEF AgentWriteByte, dbVars, budgetVars
  <2>2. CASE written < Len(Body[writing])
    <3>1. writing \in Event /\ writing <= emitted
      BY <2>1, LogAssumption DEF TypeOK, Event
    <3>2. /\ file' = Append(file, Cell(writing, written + 1))
          /\ written' = written + 1 /\ writing' = writing
      BY <1>4, <2>2 DEF AgentWriteByte
    <3>3. Cell(writing, written + 1) \in Byte
      BY <2>2, <3>1, BodyType DEF Cell, Byte, TypeOK
    <3>4. Cell(writing, written + 1) # Zero
      BY <2>1 DEF Cell, Zero
    <3>5. \A e \in Event : Begun(e) => Begun(e)'
      BY <1>1, <2>1, <3>2 DEF Begun
    <3>6. \A e \in Event : Cell(writing, written + 1) = Cell(e, 1) => ~ Begun(e) /\ Begun(e)'
      <4> SUFFICES ASSUME NEW e \in Event, Cell(writing, written + 1) = Cell(e, 1)
                   PROVE  ~ Begun(e) /\ Begun(e)'
        OBVIOUS
      <4>1. writing = e /\ written + 1 = 1
        BY DEF Cell
      <4> QED
        BY <1>1, <2>1, <3>1, <3>2, <4>1 DEF Begun
    <3> QED
      BY <2>1, <3>2, <3>3, <3>4, <3>5, <3>6, ByteRows
  <2>3. CASE ~ (written < Len(Body[writing]))
    <3>1. file' = Append(file, NewLine) /\ writing' = 0
      BY <1>4, <2>3 DEF AgentWriteByte
    <3>2. NewLine \in Byte /\ NewLine # Zero
      BY DEF Byte, NewLine, Zero
    <3>3. \A e \in Event : NewLine # Cell(e, 1)
      BY DEF NewLine, Cell
    <3>4. \A e \in Event : Begun(e) => Begun(e)'
      BY <1>1, <2>1, <3>1 DEF Begun
    <3> QED
      BY <2>1, <3>1, <3>2, <3>3, <3>4, ByteRows
  <2> QED
    BY <2>2, <2>3
<1> QED
  BY <1>2, <1>3, <1>4 DEF Agent

(* What lies in a truncated file is read for the first time.               *)
LEMMA TruncateRows ==
  ASSUME TypeOK, BytesInv, NoneTooOften, \A c \in Console : OnceInv(c), Truncate
  PROVE  BytesInv' /\ NoneTooOften' /\ \A c \in Console : OnceInv(c)'
<1>1. /\ file' = << >> /\ Len(file') = 0
      /\ UNCHANGED <<emitted, writing, written, offset, store, con, crashes, faults>>
  BY DEF Truncate, agentVars, dbVars
<1>2. \A i : i \notin 1..Len(file')
  BY <1>1
<1>3. BytesInv' /\ NoneTooOften' /\ Clean'
  BY <1>1, <1>2 DEF BytesInv, NoneTooOften, Clean, Begun, Spent, RowsOf
<1>4. ASSUME NEW c \in Console PROVE OnceInv(c)'
  <2>1. OnceInv(c) /\ (Reading(c)' <=> Reading(c)) /\ \A e : Full(e)' <=> Full(e)
    BY <1>1 DEF Reading, Full, Spent, RowsOf
  <2>2. BufferInv(c)'
    BY <1>1, <2>1 DEF OnceInv, BufferInv, Begun
  <2>3. OldBuffer(c)'
    BY <1>2 DEF OldBuffer
  <2> QED
    BY <1>1, <1>3, <2>1, <2>2, <2>3 DEF OnceInv
<1> QED
  BY <1>3, <1>4

LEMMA RowsInvStep ==
  ASSUME SingleConsole, TypeOK, IInv, RowsInv, [Next]_vars
  PROVE  RowsInv'
<1> SUFFICES ASSUME WholeLog' \/ AllAscii'
             PROVE  BytesInv' /\ NoneTooOften' /\ \A c \in Console : OnceInv(c)'
  BY DEF RowsInv
<1>1. WholeLog \/ AllAscii
  BY WholeLogBefore DEF AllAscii
<1>2. BytesInv /\ NoneTooOften /\ \A c \in Console : OnceInv(c)
  BY <1>1 DEF RowsInv
<1>3. CASE UNCHANGED vars
  BY <1>2, <1>3, LogOnly DEF vars, agentVars, dbVars, budgetVars, Begun
<1>4. ASSUME NEW c \in Console, ConsoleStart(c) \/ ConsoleCrash(c) \/ Tick(c)
      PROVE  BytesInv' /\ NoneTooOften' /\ \A d \in Console : OnceInv(d)'
  BY <1>1, <1>2, <1>4, ConsoleRows
<1> QED
  BY <1>2, <1>3, <1>4, AgentRows, TruncateRows DEF Next

LEMMA RowsInvInit == Init => RowsInv
<1> SUFFICES ASSUME Init PROVE BytesInv /\ NoneTooOften /\ \A c \in Console : OnceInv(c)
  BY DEF RowsInv
<1>1. /\ file = << >> /\ store = << >> /\ crashes = 0 /\ faults = 0
      /\ Len(file) = 0 /\ DOMAIN store = {}
      /\ \A c \in Console : con[c].pc = "down"
  BY DEF Init, Fresh
<1>2. \A i : i \notin 1..Len(file)
  BY <1>1
<1>3. \A e : Cardinality(RowsOf(e)) = 0
  <2>1. \A e : RowsOf(e) = {}
    BY <1>1 DEF RowsOf
  <2> QED
    BY <2>1, FS_EmptySet
<1>4. BytesInv /\ NoneTooOften /\ Clean
  BY <1>1, <1>2, <1>3 DEF BytesInv, NoneTooOften, Clean, Spent
<1>5. \A c \in Console : ~ Reading(c)
  BY <1>1 DEF Reading
<1> QED
  BY <1>4, <1>5 DEF OnceInv, BufferInv

(* One console stores an event once, and once more for each of its crashes *)
(* and of the statements that failed, however the agent is stopped in the  *)
(* middle of lines and, in a log of ASCII characters, the file truncated.  *)
THEOREM RowsBoundedCorrect ==
  ASSUME SingleConsole
  PROVE  Spec => []RowsBounded
<1>1. TypeOK /\ IInv /\ RowsInv /\ [Next]_vars => RowsInv'
  BY RowsInvStep
<1>2. TypeOK /\ RowsInv => RowsBounded
  <2> SUFFICES ASSUME TypeOK, RowsInv, WholeLog \/ AllAscii, NEW e \in Event
               PROVE  Cardinality(RowsOf(e)) <= 1 + crashes + faults
    BY DEF RowsBounded
  <2>1. Cardinality(RowsOf(e)) <= Spent + 1
    BY DEF RowsInv, NoneTooOften
  <2>2. Cardinality(RowsOf(e)) \in Nat /\ crashes \in Nat /\ faults \in Nat
    BY RowsOfType, BoundTypes DEF TypeOK
  <2> QED
    BY <2>1, <2>2 DEF Spent
<1> QED
  BY <1>1, <1>2, RowsInvInit, TypeCorrect, InvCorrect, PTL DEF Spec

-----------------------------------------------------------------------------
(* The pipeline implements the at-least-once log.                          *)

(* A byte completes at most one line.                                      *)
LEMMA OneMoreLine ==
  ASSUME NEW bytes \in Seq(Byte), NEW x \in Byte,
         NEW e \in EventsIn(Append(bytes, x)) \ EventsIn(bytes),
         NEW f \in EventsIn(Append(bytes, x)) \ EventsIn(bytes)
  PROVE  e = f
<1> DEFINE more == Append(bytes, x)
           n == Len(bytes)
<1>1. n \in Nat /\ Len(more) = n + 1 /\ EventsUpTo(more, n) = EventsIn(bytes)
  BY SeqAppend, AppendKeepsEvents DEF EventsIn
<1> HIDE DEF more, n
<1>2. ASSUME NEW g \in EventsIn(more) \ EventsIn(bytes)
      PROVE  g \in Event /\ \E a \in 0..Len(more) : LineEnd(a, g) = n + 1 /\ EventAt(more, a, g)
  <2>1. g \in Event /\ g \notin EventsUpTo(more, n)
    BY <1>1, <1>2 DEF EventsIn, EventsUpTo
  <2>2. PICK a \in 0..Len(more) : LineEnd(a, g) <= Len(more) /\ EventAt(more, a, g)
    BY <1>2 DEF EventsIn, EventsUpTo
  <2>3. ~ (LineEnd(a, g) <= n)
    BY <2>1, <2>2 DEF EventsUpTo
  <2>4. Len(Body[g]) \in Nat
    BY <2>1, BodyType
  <2>5. LineEnd(a, g) = n + 1
    BY <1>1, <2>2, <2>3, <2>4 DEF LineEnd
  <2> QED
    BY <2>1, <2>2, <2>5
<1>3. e \in Event /\ f \in Event
  BY <1>2 DEF more
<1>4. PICK a \in 0..Len(more) : LineEnd(a, e) = n + 1 /\ EventAt(more, a, e)
  BY <1>2 DEF more
<1>5. PICK b \in 0..Len(more) : LineEnd(b, f) = n + 1 /\ EventAt(more, b, f)
  BY <1>2 DEF more
<1> DEFINE k == Len(Body[e])
           m == Len(Body[f])
<1>6. /\ k \in Nat \ {0} /\ m \in Nat \ {0} /\ a \in Nat /\ b \in Nat
      /\ a + k = n /\ b + m = n
  <2>1. k \in Nat \ {0} /\ m \in Nat \ {0}
    BY <1>3, BodyType
  <2>2. a + k + 1 = n + 1 /\ b + m + 1 = n + 1
    BY <1>4, <1>5 DEF LineEnd
  <2>3. a \in Nat /\ b \in Nat
    BY <1>1
  <2> HIDE DEF k, m
  <2> QED
    BY <1>1, <2>1, <2>2, <2>3
<1>7. /\ a = 0 \/ more[a] = NewLine
      /\ b = 0 \/ more[b] = NewLine
      /\ \A i \in 1..k : more[a + i] = Cell(e, i)
      /\ \A i \in 1..m : more[b + i] = Cell(f, i)
  BY <1>4, <1>5 DEF EventAt
<1>8. \A i : Cell(e, i) # NewLine /\ Cell(f, i) # NewLine
  BY <1>3, BodyType
<1> HIDE DEF k, m
<1>9. ~ (a < b)
  <2> SUFFICES ASSUME a < b PROVE FALSE
    OBVIOUS
  <2>1. b - a \in 1..k /\ a + (b - a) = b /\ more[b] = NewLine
    BY <1>6, <1>7
  <2> QED
    BY <1>7, <1>8, <2>1
<1>10. ~ (b < a)
  <2> SUFFICES ASSUME b < a PROVE FALSE
    OBVIOUS
  <2>1. a - b \in 1..m /\ b + (a - b) = a /\ more[a] = NewLine
    BY <1>6, <1>7
  <2> QED
    BY <1>7, <1>8, <2>1
<1>11. more[a + 1] = Cell(e, 1) /\ more[a + 1] = Cell(f, 1)
  <2>1. a = b /\ 1 \in 1..k /\ 1 \in 1..m
    BY <1>6, <1>9, <1>10
  <2> QED
    BY <1>7, <2>1
<1> QED
  BY <1>11 DEF Cell

(* The event a console stores has a line in the file.                      *)
LEMMA StoredHasLine ==
  ASSUME TypeOK, NEW c \in Console, NEW lost, ConsoleInv(c, lost), con[c].pc = "lines",
         NEW q \in 1..Len(con[c].buf), EndsLine(c, q), NEW e \in Event, LineTo(c, q) = JsonLine(e)
  PROVE  e \in EventsIn(file)
<1> DEFINE buf == con[c].buf
           base == con[c].base
           pos == con[c].pos
           a == base + pos
           n == Len(Body[e])
<1>1. /\ buf \in Seq(Byte) /\ Len(buf) \in Nat /\ base \in Nat /\ pos \in Nat
      /\ file \in Seq(Byte) /\ Len(file) \in Nat /\ n \in Nat \ {0}
  BY BufferType, BodyType
<1>2. /\ base + Len(buf) <= Len(file) /\ \A i \in 1..Len(buf) : buf[i] = file[base + i]
      /\ a = 0 \/ file[a] = NewLine
  BY DEF ConsoleInv, BufferIsFile, PositionInv, Boundary
<1>3. q \in pos + 1..Len(buf) /\ buf[q] = NewLine /\ SubSeq(buf, pos + 1, q - 1) = JsonLine(e)
  BY DEF EndsLine, LineTo
<1> HIDE DEF buf, base, pos, n
<1>4. Len(JsonLine(e)) = n /\ \A i \in 1..n : JsonLine(e)[i] = Cell(e, i)
  <2>1. JsonLine(e) = [i \in 1..n |-> Cell(e, i)]
    BY DEF JsonLine, n
  <2> QED
    BY <1>1, <2>1
<1>5. /\ Len(SubSeq(buf, pos + 1, q - 1)) = q - 1 - pos
      /\ \A i \in 1..q - 1 - pos : SubSeq(buf, pos + 1, q - 1)[i] = buf[pos + i]
  <2>1. pos + 1 \in Int /\ q - 1 \in Int /\ q \in Int
    BY <1>1, <1>3
  <2>2. \A i \in pos + 1..q - 1 : buf[i] \in Byte
    BY <1>1, <1>3, ElementOfSeq
  <2>3. /\ Len(SubSeq(buf, pos + 1, q - 1)) = IF pos + 1 <= q - 1 THEN q - 1 - (pos + 1) + 1 ELSE 0
        /\ \A i \in 1..q - 1 - (pos + 1) + 1 :
             SubSeq(buf, pos + 1, q - 1)[i] = buf[pos + 1 + i - 1]
    BY <2>1, <2>2, SubSeqProperties
  <2>4. Len(SubSeq(buf, pos + 1, q - 1)) = q - 1 - pos
    BY <1>1, <1>3, <2>1, <2>3
  <2>5. ASSUME NEW i \in 1..q - 1 - pos PROVE SubSeq(buf, pos + 1, q - 1)[i] = buf[pos + i]
    <3>1. i \in Int /\ 1 <= i /\ i <= q - 1 - pos
      BY <1>1, <2>1
    <3>2. i \in 1..q - 1 - (pos + 1) + 1 /\ pos + 1 + i - 1 = pos + i
      BY <1>1, <2>1, <3>1
    <3> QED
      BY <2>3, <3>2
  <2> QED
    BY <2>4, <2>5
<1>6. q = pos + n + 1
  <2>1. q - 1 - pos = n
    BY <1>3, <1>4, <1>5
  <2>2. q \in Int
    BY <1>1, <1>3
  <2> QED
    BY <1>1, <2>1, <2>2
<1>7. LineEnd(a, e) = base + q /\ base + q \in 1..Len(file) /\ a \in 0..Len(file)
  <2>1. q \in Nat /\ q <= Len(buf)
    BY <1>1, <1>3
  <2>2. LineEnd(a, e) = base + pos + n + 1
    BY DEF LineEnd, n
  <2> QED
    BY <1>1, <1>2, <1>6, <2>1, <2>2
<1>8. ASSUME NEW i \in 1..n PROVE file[a + i] = Cell(e, i)
  <2>1. pos + i \in 1..Len(buf) /\ base + (pos + i) = a + i /\ i \in 1..q - 1 - pos
    <3>1. q \in Nat /\ q <= Len(buf)
      BY <1>1, <1>3
    <3> QED
      BY <1>1, <1>6, <3>1
  <2>2. buf[pos + i] = Cell(e, i)
    BY <1>3, <1>4, <1>5, <2>1
  <2> QED
    BY <1>2, <2>1, <2>2
<1>9. file[base + q] = NewLine
  BY <1>2, <1>3
<1>10. EventAt(file, a, e)
  BY <1>1, <1>2, <1>7, <1>8, <1>9 DEF EventAt, n
<1> HIDE DEF a
<1> QED
  BY <1>1, <1>7, <1>10 DEF EventsIn, EventsUpTo

(* What a step of an undisturbed log does to what the promise sees.        *)
LEMMA StepKinds ==
  ASSUME TypeOK, Undisturbed, Undisturbed', [Next]_vars
  PROVE  \/ \E x \in Byte : file' = Append(file, x) /\ UNCHANGED <<offset, store>>
         \/ \E c \in Console : \E q \in 1..Len(con[c].buf), e \in Event : StoreEvent(c, q, e)
         \/ \E c \in Console : StoreAlert(c)
         \/ \E c \in Console : SetOffset(c)
         \/ UNCHANGED <<file, offset, store>>
<1>0. truncs = 0 /\ truncs' = 0 /\ faults = 0 /\ faults' = 0
  BY DEF Undisturbed, WholeLog
<1>1. CASE AgentAppend
  BY <1>1 DEF AgentAppend, dbVars
<1>2. CASE AgentWriteByte
  <2>1. UNCHANGED <<offset, store>>
    BY <1>2 DEF AgentWriteByte, dbVars
  <2>2. CASE written < Len(Body[writing])
    <3>1. writing \in Event
      BY <1>2, LogAssumption DEF AgentWriteByte, TypeOK, Event
    <3>2. Cell(writing, written + 1) \in Byte
      BY <2>2, <3>1, BodyType DEF Cell, Byte, TypeOK
    <3> QED
      BY <1>2, <2>1, <2>2, <3>2 DEF AgentWriteByte
  <2>3. CASE ~ (written < Len(Body[writing]))
    BY <1>2, <2>1, <2>3 DEF AgentWriteByte, Byte
  <2> QED
    BY <2>2, <2>3
<1>3. CASE AgentStop
  BY <1>3 DEF AgentStop, dbVars
<1>4. CASE Truncate
  BY <1>0, <1>4 DEF Truncate
<1>5. ASSUME NEW c \in Console, ConsoleStart(c) \/ ConsoleCrash(c) \/ StatFile(c)
             \/ GetOffset(c) \/ ReadFile(c)
      PROVE  UNCHANGED <<file, offset, store>>
  BY <1>5 DEF ConsoleStart, ConsoleCrash, StatFile, GetOffset, ReadFile, dbVars
<1>6. ASSUME NEW c \in Console, NextLine(c)
      PROVE  \/ UNCHANGED <<file, offset, store>>
             \/ \E q \in 1..Len(con[c].buf), e \in Event : StoreEvent(c, q, e)
  <2>1. PICK q \in 1..Len(con[c].buf) :
          SkipLine(c, q) \/ \E e \in Event : StoreEvent(c, q, e) \/ StoreEventFails(c, q, e)
    BY <1>6 DEF NextLine
  <2>2. CASE SkipLine(c, q)
    BY <2>2 DEF SkipLine, dbVars
  <2>3. ASSUME NEW e \in Event PROVE ~ StoreEventFails(c, q, e)
    BY <1>0 DEF StoreEventFails
  <2> QED
    BY <2>1, <2>2, <2>3
<1>7. ASSUME NEW c \in Console PROVE ~ StoreAlertFails(c) /\ ~ SetOffsetFails(c)
  BY <1>0 DEF StoreAlertFails, SetOffsetFails
<1>8. CASE UNCHANGED vars
  BY <1>8 DEF vars, dbVars
<1> QED
  BY <1>1, <1>2, <1>3, <1>4, <1>5, <1>6, <1>7, <1>8 DEF Next, Agent, Tick

(* Every stored row is of an event with a line of its own.                 *)
RowsHaveLines == \A i \in DOMAIN store : store[i].ev \in EventsIn(file)

LEMMA RowsHaveLinesStep ==
  ASSUME TypeOK, IInv, RowsHaveLines, Undisturbed, Undisturbed', [Next]_vars
  PROVE  RowsHaveLines'
<1>1. ASSUME NEW x \in Byte, file' = Append(file, x), UNCHANGED <<offset, store>>
      PROVE  RowsHaveLines'
  <2>1. EventsIn(file) \subseteq EventsIn(file')
    BY <1>1, EventsGrow DEF TypeOK
  <2>2. EventsIn(file)' = EventsIn(file')
    BY DEF EventsIn, EventsUpTo, EventAt
  <2> QED
    BY <1>1, <2>1, <2>2 DEF RowsHaveLines
<1>2. ASSUME NEW c \in Console, NEW q \in 1..Len(con[c].buf), NEW e \in Event, StoreEvent(c, q, e)
      PROVE  RowsHaveLines'
  <2>1. ConsoleInv(c, {}) /\ con[c].pc = "lines" /\ EndsLine(c, q) /\ LineTo(c, q) = JsonLine(e)
    BY <1>2, NothingLost DEF LogInv, StoreEvent
  <2>2. e \in EventsIn(file)
    BY <2>1, StoredHasLine
  <2>3. file' = file /\ store' = Append(store, [ev |-> e, alerts |-> 0])
    BY <1>2 DEF StoreEvent
  <2>4. store \in Seq(Row)
    BY DEF TypeOK
  <2>5. ASSUME NEW i \in DOMAIN store' PROVE store'[i].ev \in EventsIn(file)
    <3>1. [ev |-> e, alerts |-> 0] \in Row
      BY DEF Row
    <3>2. CASE i = Len(store) + 1
      BY <2>2, <2>3, <2>4, <3>1, <3>2, SeqAppend
    <3>3. CASE i # Len(store) + 1
      <4>1. i \in DOMAIN store /\ store'[i] = store[i]
        BY <2>3, <2>4, <3>1, <3>3, SeqAppend
      <4> QED
        BY <4>1 DEF RowsHaveLines
    <3> QED
      BY <3>2, <3>3
  <2> QED
    BY <2>3, <2>5 DEF RowsHaveLines, EventsIn, EventsUpTo
<1>3. ASSUME NEW c \in Console, StoreAlert(c) PROVE RowsHaveLines'
  <2>1. /\ con[c].row \in DOMAIN store /\ store \in Seq(Row)
        /\ store' = [store EXCEPT ![con[c].row].alerts = @ + 1] /\ file' = file
        /\ store[con[c].row].alerts < Hits[store[con[c].row].ev]
    BY <1>3, NothingLost DEF StoreAlert, LogInv, ConsoleInv, TypeOK
  <2>2. \A i \in DOMAIN store' : i \in DOMAIN store /\ store'[i].ev = store[i].ev
    <3>1. DOMAIN store' = DOMAIN store
      BY <2>1
    <3>2. \A i \in DOMAIN store : i # con[c].row => store'[i] = store[i]
      BY <2>1, AlertStays
    <3>3. store'[con[c].row].ev = store[con[c].row].ev
      <4> DEFINE r == con[c].row
      <4>1. r \in DOMAIN store /\ store[r].alerts < Hits[store[r].ev]
            /\ store' = [store EXCEPT ![r].alerts = @ + 1]
        BY <2>1
      <4> HIDE DEF r
      <4>2. store'[r] = [ev |-> store[r].ev, alerts |-> store[r].alerts + 1]
        BY <4>1, AlertStays
      <4> QED
        BY <4>2 DEF r
    <3> QED
      BY <3>1, <3>2, <3>3
  <2> QED
    BY <2>1, <2>2 DEF RowsHaveLines, EventsIn, EventsUpTo
<1>4. ASSUME UNCHANGED <<file, store>> PROVE RowsHaveLines'
  BY <1>4 DEF RowsHaveLines, EventsIn, EventsUpTo
<1>5. ASSUME NEW c \in Console, SetOffset(c) PROVE UNCHANGED <<file, store>>
  BY <1>5 DEF SetOffset
<1> QED
  BY StepKinds, <1>1, <1>2, <1>3, <1>4, <1>5

LEMMA ImplementsInit == Init => Promise!Init
<1> SUFFICES ASSUME Init PROVE Promise!Init
  OBVIOUS
<1>1. file = << >> /\ offset = 0 /\ store = << >>
  BY DEF Init
<1>2. \A e \in Event : ~ Recorded(e)
  BY <1>1 DEF Recorded
<1>3. EventsIn(file) = {} /\ EventsUpTo(file, offset) = {}
  <2>1. << >> \in Seq(Byte) /\ Len(<< >>) = 0
    OBVIOUS
  <2>2. EventsUpTo(<< >>, 0) = {}
    BY <2>1, NoEventsAtStart
  <2> QED
    BY <1>1, <2>1, <2>2 DEF EventsIn
<1> QED
  BY <1>2, <1>3 DEF Promise!Init

(* Every step is one of the promise's or none of its variables moves.      *)
LEMMA ImplementsStep ==
  ASSUME TypeOK, IInv, RowsHaveLines, Undisturbed, NothingSkipped', Undisturbed', [Next]_vars
  PROVE  [Promise!Next]_(Promise!vars)
<1> DEFINE lines == EventsIn(file)
           recorded == {e \in Event : Recorded(e)}
           acked == EventsUpTo(file, offset)
<1>1. acked' \subseteq recorded'
  BY DEF NothingSkipped, EventsUpTo
<1>2. ASSUME NEW x \in Byte, file' = Append(file, x), UNCHANGED <<offset, store>>
      PROVE  [Promise!Next]_(Promise!vars)
  <2>1. file \in Seq(Byte) /\ offset \in 0..Len(file)
    BY NothingLost, BoundaryInFile DEF LogInv, TypeOK
  <2>2. acked' = acked
    <3>1. EventsUpTo(file', offset) = EventsUpTo(file, offset)
      BY <1>2, <2>1, AppendKeepsEvents
    <3> QED
      BY <1>2, <3>1 DEF EventsUpTo, EventAt
  <2>3. recorded' = recorded
    BY <1>2 DEF Recorded
  <2>4. lines' = EventsIn(Append(file, x))
    BY <1>2 DEF EventsIn, EventsUpTo, EventAt
  <2>5. lines \subseteq lines' /\ lines' \subseteq Event
    BY <2>1, <2>4, EventsGrow DEF EventsIn, EventsUpTo
  <2>6. CASE lines' = lines
    BY <2>2, <2>3, <2>6 DEF Promise!vars
  <2>7. CASE lines' # lines
    <3>1. PICK e \in lines' \ lines : TRUE
      BY <2>5, <2>7
    <3>2. \A f \in lines' \ lines : f = e
      BY <2>1, <2>4, <3>1, OneMoreLine
    <3>3. lines' = lines \cup {e} /\ e \in Event
      BY <2>5, <3>1, <3>2
    <3>4. Promise!Log(e)
      BY <2>2, <2>3, <3>1, <3>3 DEF Promise!Log
    <3> QED
      BY <3>3, <3>4 DEF Promise!Next
  <2> QED
    BY <2>6, <2>7
<1>3. ASSUME NEW e \in lines, lines' = lines, acked' = acked,
             recorded \subseteq recorded', recorded' \subseteq recorded \cup {e}
      PROVE  [Promise!Next]_(Promise!vars)
  <2>1. CASE recorded' = recorded
    BY <1>3, <2>1 DEF Promise!vars
  <2>2. CASE recorded' # recorded
    <3>1. e \in lines \ recorded /\ recorded' = recorded \cup {e} /\ e \in Event
      BY <1>3, <2>2 DEF EventsIn, EventsUpTo
    <3>2. Promise!Record(e)
      BY <1>3, <3>1 DEF Promise!Record
    <3> QED
      BY <3>1, <3>2 DEF Promise!Next
  <2> QED
    BY <2>1, <2>2
<1>4. ASSUME NEW c \in Console, NEW q \in 1..Len(con[c].buf), NEW e \in Event, StoreEvent(c, q, e)
      PROVE  [Promise!Next]_(Promise!vars)
  <2> DEFINE x == [ev |-> e, alerts |-> 0]
  <2>1. ConsoleInv(c, {}) /\ con[c].pc = "lines" /\ EndsLine(c, q) /\ LineTo(c, q) = JsonLine(e)
    BY <1>4, NothingLost DEF LogInv, StoreEvent
  <2>2. e \in lines
    BY <2>1, StoredHasLine
  <2>3. file' = file /\ offset' = offset /\ store' = Append(store, x) /\ x \in Row
    BY <1>4 DEF StoreEvent, Row
  <2>4. \A f : Recorded(f) => Recorded(f)'
    BY <2>3, StoredStays
  <2>5. ASSUME NEW f \in Event, Recorded(f)', f # e PROVE Recorded(f)
    <3>1. PICK i \in DOMAIN store' : store'[i] = [ev |-> f, alerts |-> Hits[f]]
      BY <2>5 DEF Recorded
    <3>2. i # Len(store) + 1
      BY <2>3, <2>5, <3>1, StoredStays
    <3>3. i \in DOMAIN store /\ store'[i] = store[i]
      <4>1. store \in Seq(Row)
        BY DEF TypeOK
      <4>2. /\ store' \in Seq(Row) /\ Len(store') = Len(store) + 1
            /\ \A j \in 1..Len(store) : store'[j] = store[j]
        BY <2>3, <4>1, SeqAppend
      <4>3. /\ DOMAIN store = 1..Len(store) /\ DOMAIN store' = 1..Len(store')
            /\ Len(store) \in Nat
        BY <4>1, <4>2, LenProperties
      <4> QED
        BY <3>2, <4>2, <4>3
    <3> QED
      BY <3>1, <3>3 DEF Recorded
  <2>6. recorded \subseteq recorded' /\ recorded' \subseteq recorded \cup {e}
    BY <2>4, <2>5
  <2>7. lines' = lines /\ acked' = acked
    BY <2>3 DEF EventsIn, EventsUpTo, EventAt
  <2> QED
    BY <1>3, <2>2, <2>6, <2>7
<1>5. ASSUME NEW c \in Console, StoreAlert(c) PROVE [Promise!Next]_(Promise!vars)
  <2> DEFINE r == con[c].row
             e == store[r].ev
  <2>1. /\ r \in DOMAIN store /\ store[r].alerts < Hits[store[r].ev]
        /\ store' = [store EXCEPT ![r].alerts = @ + 1] /\ file' = file /\ offset' = offset
    BY <1>5, NothingLost DEF StoreAlert, LogInv, ConsoleInv
  <2>2. e \in lines
    BY <2>1 DEF RowsHaveLines
  <2>3. \A f : Recorded(f) => Recorded(f)'
    BY <2>1, AlertStays
  <2>4. ASSUME NEW f \in Event, Recorded(f)', f # e PROVE Recorded(f)
    <3>1. PICK i \in DOMAIN store' : store'[i] = [ev |-> f, alerts |-> Hits[f]]
      BY <2>4 DEF Recorded
    <3>2. DOMAIN store' = DOMAIN store
      BY <2>1
    <3>3. i # r
      BY <2>1, <2>4, <3>1, AlertStays
    <3>4. store'[i] = store[i]
      BY <2>1, <3>1, <3>2, <3>3, AlertStays
    <3> QED
      BY <3>1, <3>2, <3>4 DEF Recorded
  <2>5. recorded \subseteq recorded' /\ recorded' \subseteq recorded \cup {e}
    BY <2>3, <2>4
  <2>6. lines' = lines /\ acked' = acked
    BY <2>1 DEF EventsIn, EventsUpTo, EventAt
  <2> QED
    BY <1>3, <2>2, <2>5, <2>6
<1>6. ASSUME NEW c \in Console, SetOffset(c) PROVE [Promise!Next]_(Promise!vars)
  <2>1. file' = file /\ store' = store
    BY <1>6 DEF SetOffset
  <2>2. lines' = lines /\ recorded' = recorded
    BY <2>1 DEF EventsIn, EventsUpTo, EventAt, Recorded
  <2>3. Promise!Acknowledge
    BY <1>1, <2>2 DEF Promise!Acknowledge
  <2> QED
    BY <2>3 DEF Promise!Next
<1>7. ASSUME UNCHANGED <<file, offset, store>> PROVE [Promise!Next]_(Promise!vars)
  <2>1. UNCHANGED <<lines, recorded, acked>>
    BY <1>7 DEF EventsIn, EventsUpTo, EventAt, Recorded
  <2> QED
    BY <2>1 DEF Promise!vars
<1> QED
  BY StepKinds, <1>2, <1>4, <1>5, <1>6, <1>7

(* As long as the log is not truncated, no statement fails and no          *)
(* character is cut, the pipeline of agent, log file and consoles          *)
(* implements the at-least-once log, whatever crashes.                     *)
THEOREM ImplementsCorrect == Spec /\ []Undisturbed => ImplementsAtLeastOnce
<1>1. Init => RowsHaveLines
  BY DEF Init, RowsHaveLines
<1>2. Spec /\ []Undisturbed => []RowsHaveLines
  BY <1>1, RowsHaveLinesStep, TypeCorrect, InvCorrect, PTL DEF Spec
<1> QED
  BY <1>2, ImplementsInit, ImplementsStep, TypeCorrect, InvCorrect, NothingSkippedCorrect, PTL
     DEF Spec, ImplementsAtLeastOnce, Promise!Spec
=============================================================================
