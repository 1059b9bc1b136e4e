------------------------------- MODULE Engine --------------------------------
(***************************************************************************)
(* The query engine under four kinds of input.  A text is typed one        *)
(* character at a time and cut into tokens: every one of a few characters, *)
(* and the longer ones that end inside a string.  A condition is typed one *)
(* token at a time after "process where" and parsed: every one of a few    *)
(* tokens, and the longer ones that the parser has not thrown at before    *)
(* their end.  A parsed query is evaluated against an event, or an event   *)
(* is matched against the rules.                                           *)
(***************************************************************************)
EXTENDS EqlGrammar, Matcher

CONSTANTS
  Characters,  \* what a text is typed of
  FreeChars,   \* bound: texts of so many characters are all typed
  MaxChars,    \* bound: characters of a typed text
  Vocabulary,  \* the tokens a condition is typed of
  FreeTokens,  \* bound: conditions of so many tokens are all typed
  MaxTokens,   \* bound: tokens of the typed condition
  Queries,     \* the parsed queries that are run ...
  Events,      \* ... and the events they are run over
  RuleEvents,  \* the events the rules are run over
  BadRules     \* rules that may be added to the others

(* tokenize() puts "EOF" at the end only.                                  *)
ASSUME VocabularyAssumption == \A token \in Vocabulary : token.t # "EOF"

ASSUME QueriesAssumption == \A q \in Queries : q.condition \in ConditionNode

ASSUME EventsAssumption ==
  \A e \in Events : \A f \in DOMAIN e.fields :
    e.fields[f].k = "str" => e.fields[f].v \in Seq(STRING)

VARIABLES text, typed, query, event

NoQuery == [eventType |-> "none"]
NoEvent == [type |-> "none"]

QueryOf(condition) ==
  <<Word("IDENT", "process"), Token("WHERE")>> \o condition \o <<Token("EOF")>>

Parsed == Parse(QueryOf(typed))

ThrowsEarly == ~ Parsed.ok /\ Parsed.pos < Len(typed) + 3

OpenString == \E i \in DOMAIN text : text[i] \in Quote /\ ~ Tokenize(text).ok

Init == text = <<>> /\ typed = <<>> /\ query = NoQuery /\ event = NoEvent

TypeCharacter ==
  /\ typed = <<>> /\ event = NoEvent
  /\ Len(text) < FreeChars \/ (Len(text) < MaxChars /\ OpenString)
  /\ \E c \in Characters : text' = Append(text, c)
  /\ UNCHANGED <<typed, query, event>>

Type ==
  /\ text = <<>> /\ event = NoEvent
  /\ Len(typed) < FreeTokens \/ (Len(typed) < MaxTokens /\ ~ ThrowsEarly)
  /\ \E token \in Vocabulary : typed' = Append(typed, token)
  /\ UNCHANGED <<text, query, event>>

Run ==
  /\ text = <<>> /\ typed = <<>> /\ event = NoEvent
  /\ query' \in Queries /\ event' \in Events
  /\ UNCHANGED <<text, typed>>

Judge ==
  /\ text = <<>> /\ typed = <<>> /\ query = NoQuery /\ event = NoEvent
  /\ event' \in RuleEvents
  /\ UNCHANGED <<text, typed, query>>

Next == TypeCharacter \/ Type \/ Run \/ Judge

vars == <<text, typed, query, event>>

Spec == Init /\ [][Next]_vars

Judged == event # NoEvent /\ query = NoQuery

-----------------------------------------------------------------------------
(* A text has the tokens that it can be cut into with every word, number   *)
(* and operator as long as possible, and none otherwise: a quote after a   *)
(* backslash does not end a string, two backslashes are one.               *)
CutsIntoTokens ==
  Readings(text) = LET r == Tokenize(text) IN IF r.ok THEN {r.node} ELSE {}

(* The parser gives a condition the tree that the grammar has for it, and  *)
(* the grammar has no second one; it takes no other text: it neither drops *)
(* a token it should have read nor stops before the end.                   *)
ParsesTheGrammar ==
  LET s == QueryOf(typed)
  IN Ors(Trees(s), s, 3, Len(s)) = IF Parsed.ok THEN {Parsed.node.condition} ELSE {}

(* Two events that Windows could have reported for one another.            *)
SameValue(v, w) == v = w \/ (v.k = "str" /\ w.k = "str" /\ Lower(v.v) = Lower(w.v))

SameButCase(e, f) ==
  /\ e.type = f.type /\ DOMAIN e.fields = DOMAIN f.fields
  /\ \A x \in DOMAIN e.fields : SameValue(e.fields[x], f.fields[x])

(* "String comparisons (==, !=, in, startsWith, endsWith) ... are          *)
(* case-INSENSITIVE here": through every operator, function and connective *)
(* a query that matches an event matches it in any case.                   *)
CaseBlind ==
  query # NoQuery =>
    \A other \in Events :
      SameButCase(event, other) => Evaluate(query, other) = Evaluate(query, event)

(* "A rule whose query fails to evaluate is logged and skipped rather than *)
(* aborting the whole pass": wherever such a rule stands, the others raise *)
(* the alerts they would raise without it.                                 *)
BadRuleContained ==
  Judged => \A bad \in BadRules, i \in 1..Len(RULES) + 1 :
              QueryError(bad, event) =>
                matchEvent(InsertAt(RULES, i, bad), event) = matchEvent(RULES, event)
=============================================================================
