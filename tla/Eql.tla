-------------------------------- MODULE Eql ----------------------------------
(***************************************************************************)
(* The query engine shared by the Hunt view and the detection rules: the   *)
(* parser over the tokens of a query and the evaluator over an event.      *)
(*                                                                         *)
(* A token is its kind (t) and, for words, literals and operators, its     *)
(* value (v).  The parser is the functions of parse(): each takes the      *)
(* tokens and a position and gives a node and the position after it, or    *)
(* the position of the token it throws at.  A string is a sequence of      *)
(* characters; where only its parts matter, such as "powershell" in the    *)
(* name of a program, a part counts as one character.                      *)
(***************************************************************************)
EXTENDS Integers, Sequences, SequencesExt

CONSTANTS
  LowerOf,       \* LowerOf[c]: the lower case of c, for what is not lower case
  OperandNode,   \* the operands of conditions, a set of trees with their subtrees
  ConditionNode  \* conditions, likewise

(* Lower case has no lower case, and what has a meaning of its own in a    *)
(* pattern or as a number has no other case.                               *)
ASSUME EqlAssumption ==
  /\ \A c \in DOMAIN LowerOf : LowerOf[c] \notin DOMAIN LowerOf
  /\ \A c \in DOMAIN LowerOf : {c, LowerOf[c]} \cap {"*", "?", "1"} = {}

(* What a regular expression is written with besides plain characters: a   *)
(* group that may be missing is closed by ")?".                            *)
RegexSpecial == {"*", "?", "(", ")?", "\\b"}

(* The characters at which a word ends.                                    *)
NonWord == {" ", "-"}

(* Neither has another case: "\\B" is not the upper case of "\\b".         *)
ASSUME RegexAssumption ==
  \A c \in DOMAIN LowerOf : {c, LowerOf[c]} \cap (RegexSpecial \cup NonWord) = {}

ASSUME OperandAssumption ==
  \A n \in OperandNode :
    /\ n.kind \in {"lit", "field", "length"}
    /\ n.kind = "length" => n.arg \in OperandNode

ASSUME ConditionAssumption ==
  \A n \in ConditionNode :
    /\ n.op \in {"lit", "and", "or", "not", "cmp", "in", "func"}
    /\ n.op \in {"and", "or"} => {n.left, n.right} \subseteq ConditionNode
    /\ n.op = "not"  => n.node \in ConditionNode
    /\ n.op = "cmp"  => {n.left, n.right} \subseteq OperandNode
    /\ n.op = "in"   => n.field \in OperandNode /\ n.values \in Seq(OperandNode)
    /\ n.op = "func" => n.args \in Seq(OperandNode)

LowerCase(c) == IF c \in DOMAIN LowerOf THEN LowerOf[c] ELSE c
Lower(s) == [i \in DOMAIN s |-> LowerCase(s[i])]

Token(t)     == [t |-> t]
Word(t, v)   == [t |-> t, v |-> v]

(* A result of a parse function, or the exception it throws.               *)
Ok(node, pos)  == [ok |-> TRUE, node |-> node, pos |-> pos]
Throw(pos)     == [ok |-> FALSE, pos |-> pos]
Then(r, F(_, _)) == IF r.ok THEN F(r.node, r.pos) ELSE r

Peek(ts, p, t)   == ts[p].t = t
Expect(ts, p, t) == IF Peek(ts, p, t) THEN Ok(ts[p], p + 1) ELSE Throw(p)

PeekWord(ts, p, words) == Peek(ts, p, "IDENT") /\ LowerCase(ts[p].v) \in words
PeekCall(ts, p, words) == PeekWord(ts, p, words) /\ Peek(ts, p + 1, "(")

BoolFuncs == {"wildcard", "match", "startswith", "endswith"}

Literal(v) == [kind |-> "lit", value |-> v]
Bool(b) == [k |-> "bool", b |-> b]
Null    == [k |-> "null"]

-----------------------------------------------------------------------------
(* The parser.                                                             *)
Named(word) ==
  IF LowerCase(word) \in {"true", "false"} THEN Literal(Bool(LowerCase(word) = "true"))
  ELSE IF LowerCase(word) = "null" THEN Literal(Null) ELSE [kind |-> "field", path |-> word]

(* parse is the parser itself: a function of a production and a position.  *)
(* What may stand inside itself is read through it; a loop of the code     *)
(* gives the nodes that it adds, in order.                                 *)
Operand(parse, ts, p) ==
  IF PeekCall(ts, p, {"length"})
  THEN Then(parse[<<"operand", p + 2>>], LAMBDA arg, q :
         Then(Expect(ts, q, ")"), LAMBDA tok, r :
           Ok([kind |-> "length", arg |-> arg], r)))
  ELSE IF ts[p].t \in {"STRING", "NUMBER"} THEN Ok(Literal(ts[p].v), p + 1)
       ELSE IF Peek(ts, p, "IDENT") THEN Ok(Named(ts[p].v), p + 1) ELSE Throw(p)

MoreArgs(parse, ts, p) ==
  IF Peek(ts, p, ",")
  THEN Then(parse[<<"operand", p + 1>>], LAMBDA arg, q :
         Then(parse[<<"moreArgs", q>>], LAMBDA args, r : Ok(<<arg>> \o args, r)))
  ELSE Ok(<<>>, p)

ArgList(parse, ts, p) ==
  IF Peek(ts, p, ")") THEN Ok(<<>>, p)
  ELSE Then(parse[<<"operand", p>>], LAMBDA arg, q :
         Then(parse[<<"moreArgs", q>>], LAMBDA args, r : Ok(<<arg>> \o args, r)))

(* "(" argList ")"                                                         *)
Arguments(parse, ts, p) ==
  IF Peek(ts, p, "(")
  THEN Then(ArgList(parse, ts, p + 1), LAMBDA args, q :
         Then(Expect(ts, q, ")"), LAMBDA tok, r : Ok(args, r)))
  ELSE Throw(p)

FunctionPredicate(parse, ts, p) ==
  Then(Arguments(parse, ts, p + 1), LAMBDA args, q :
    Ok([op |-> "func", name |-> LowerCase(ts[p].v), args |-> args], q))

Comparison(parse, ts, p) ==
  Then(Operand(parse, ts, p), LAMBDA left, q :
    IF Peek(ts, q, "IN")
    THEN Then(Arguments(parse, ts, q + 1), LAMBDA values, r :
           Ok([op |-> "in", field |-> left, values |-> values], r))
    ELSE IF Peek(ts, q, "CMP")
         THEN Then(Operand(parse, ts, q + 1), LAMBDA right, r :
                Ok([op |-> "cmp", cmp |-> ts[q].v, left |-> left, right |-> right], r))
         ELSE Throw(q))

PredicateNoLookahead(parse, ts, p) ==  \* a function name is always a call
  IF PeekWord(ts, p, BoolFuncs) THEN FunctionPredicate(parse, ts, p)
  ELSE IF PeekWord(ts, p, {"true", "false"})
       THEN Ok([op |-> "lit", value |-> LowerCase(ts[p].v) = "true"], p + 1)
       ELSE Comparison(parse, ts, p)

Predicate(parse, ts, p) ==
  IF PeekCall(ts, p, BoolFuncs) THEN FunctionPredicate(parse, ts, p)
  ELSE IF PeekWord(ts, p, {"true", "false"})
       THEN Ok([op |-> "lit", value |-> LowerCase(ts[p].v) = "true"], p + 1)
       ELSE Comparison(parse, ts, p)

(* The loops of andExpr and orExpr, which group from the left.             *)
Chain(op, first, rest) ==
  LET node[k \in 0..Len(rest)] ==
        IF k = 0 THEN first ELSE [op |-> op, left |-> node[k - 1], right |-> rest[k]]
  IN node[Len(rest)]

MoreAnds(parse, ts, p) ==
  IF Peek(ts, p, "AND")
  THEN Then(parse[<<"unary", p + 1>>], LAMBDA n, q :
         Then(parse[<<"moreAnds", q>>], LAMBDA ns, r : Ok(<<n>> \o ns, r)))
  ELSE Ok(<<>>, p)

AndExpr(parse, ts, p) ==
  Then(parse[<<"unary", p>>], LAMBDA n, q :
    Then(parse[<<"moreAnds", q>>], LAMBDA ns, r : Ok(Chain("and", n, ns), r)))

MoreOrs(parse, ts, p) ==
  IF Peek(ts, p, "OR")
  THEN Then(AndExpr(parse, ts, p + 1), LAMBDA n, q :
         Then(parse[<<"moreOrs", q>>], LAMBDA ns, r : Ok(<<n>> \o ns, r)))
  ELSE Ok(<<>>, p)

OrExpr(parse, ts, p) ==
  Then(AndExpr(parse, ts, p), LAMBDA n, q :
    Then(parse[<<"moreOrs", q>>], LAMBDA ns, r : Ok(Chain("or", n, ns), r)))

UnaryTakesAll(parse, ts, p) ==  \* not reaches over the and / or that follow
  IF Peek(ts, p, "NOT")
  THEN Then(OrExpr(parse, ts, p + 1), LAMBDA n, q : Ok([op |-> "not", node |-> n], q))
  ELSE IF Peek(ts, p, "(")
       THEN Then(OrExpr(parse, ts, p + 1), LAMBDA n, q :
              Then(Expect(ts, q, ")"), LAMBDA tok, r : Ok(n, r)))
       ELSE Predicate(parse, ts, p)

Unary(parse, ts, p) ==
  IF Peek(ts, p, "NOT")
  THEN Then(parse[<<"unary", p + 1>>], LAMBDA n, q : Ok([op |-> "not", node |-> n], q))
  ELSE IF Peek(ts, p, "(")
       THEN Then(OrExpr(parse, ts, p + 1), LAMBDA n, q :
              Then(Expect(ts, q, ")"), LAMBDA tok, r : Ok(n, r)))
       ELSE Predicate(parse, ts, p)

Productions == {"operand", "moreArgs", "unary", "moreAnds", "moreOrs"}

Produce(parse, ts, x) ==
  CASE x[1] = "operand"  -> Operand(parse, ts, x[2])
    [] x[1] = "moreArgs" -> MoreArgs(parse, ts, x[2])
    [] x[1] = "unary"    -> Unary(parse, ts, x[2])
    [] x[1] = "moreAnds" -> MoreAnds(parse, ts, x[2])
    [] x[1] = "moreOrs"  -> MoreOrs(parse, ts, x[2])

Parser(ts) == LET parse[x \in Productions \X DOMAIN ts] == Produce(parse, ts, x) IN parse

Parse(ts) ==
  IF ~ Peek(ts, 1, "IDENT") THEN Throw(1)
  ELSE IF ~ Peek(ts, 2, "WHERE") THEN Throw(2)
  ELSE Then(OrExpr(Parser(ts), ts, 3), LAMBDA condition, p :
         Then(Expect(ts, p, "EOF"), LAMBDA tok, q :
           Ok([eventType |-> LowerCase(ts[1].v), condition |-> condition], q)))

-----------------------------------------------------------------------------
(* The evaluator.  Values are JavaScript's: strings, numbers, booleans,    *)
(* null, and undefined for a field the event does not have.                *)
Str(s)    == [k |-> "str", v |-> s]
Num(n)    == [k |-> "num", n |-> n]
Undefined == [k |-> "undef"]
Absent(v) == v.k \in {"null", "undef"}

(* String(v), and String(v ?? "").  A number is below ten.                 *)
Text(v) ==
  CASE v.k = "str"   -> v.v
    [] v.k = "num"   -> <<ToString(v.n)>>
    [] v.k = "bool"  -> IF v.b THEN <<"t", "r", "u", "e">> ELSE <<"f", "a", "l", "s", "e">>
    [] v.k = "null"  -> <<"n", "u", "l", "l">>
    [] v.k = "undef" -> <<"u", "n", "d", "e", "f", "i", "n", "e", "d">>
TextOrEmpty(v) == IF Absent(v) THEN <<>> ELSE Text(v)

(* Number(v): the empty set is NaN, which compares to nothing.             *)
Number(v) ==
  CASE v.k = "num"   -> {v.n}
    [] v.k = "bool"  -> {IF v.b THEN 1 ELSE 0}
    [] v.k = "null"  -> {0}
    [] v.k = "undef" -> {}
    [] v.k = "str"   -> IF v.v = <<>> THEN {0} ELSE IF v.v = <<"1">> THEN {1} ELSE {}

GetField(event, path) ==
  IF path \in DOMAIN event.fields THEN event.fields[path] ELSE Undefined

(* resolveOperand calls itself for the argument of length().               *)
ValueOf(n, event) == IF n.kind = "lit" THEN n.value ELSE GetField(event, n.path)

LengthStep(length, n, event) ==
  IF n.kind = "length" THEN Len(Text(Num(length[n.arg]))) ELSE Len(TextOrEmpty(ValueOf(n, event)))

Length(event) ==
  LET length[n \in OperandNode] == LengthStep(length, n, event) IN length

ResolveOperand(n, event) ==
  IF n.kind = "length" THEN Num(Length(event)[n.arg]) ELSE ValueOf(n, event)

LooseEqExact(a, b) ==  \* compares strings as they are
  IF "str" \in {a.k, b.k} THEN TextOrEmpty(a) = TextOrEmpty(b) ELSE a = b

LooseEq(a, b) ==
  IF "str" \in {a.k, b.k}
  THEN Lower(TextOrEmpty(a)) = Lower(TextOrEmpty(b))
  ELSE a = b

Glob(pattern, s) ==
  LET glob[x \in (1..Len(pattern) + 1) \X (1..Len(s) + 1)] ==
        LET i == x[1] j == x[2] IN
        IF i > Len(pattern) THEN j > Len(s)
        ELSE IF pattern[i] = "*"
             THEN glob[<<i + 1, j>>] \/ (j <= Len(s) /\ glob[<<i, j + 1>>])
             ELSE j <= Len(s) /\ pattern[i] \in {"?", s[j]} /\ glob[<<i + 1, j + 1>>]
  IN glob[<<1, 1>>]

WildcardTest(value, pattern) == Glob(Lower(pattern), Lower(value))

(* Regular expressions of plain characters, each repeated by "*" or made   *)
(* optional by "?", of optional groups and of word boundaries.  One that   *)
(* repeats nothing, or whose groups do not close, is invalid, which match  *)
(* takes for no match.  No rule uses classes, alternatives or lazy repeats.*)
Depth(p, i, j) ==
  Cardinality({k \in i..j : p[k] = "("}) - Cardinality({k \in i..j : p[k] = ")?"})

RegexValid(p) ==
  /\ \A i \in DOMAIN p : p[i] \in {"*", "?"} => i > 1 /\ p[i - 1] \notin RegexSpecial
  /\ \A i \in DOMAIN p : Depth(p, 1, i) >= 0
  /\ Depth(p, 1, Len(p)) = 0

GroupEnd(p, i) == Min({j \in i..Len(p) : Depth(p, i, j) = 0})

Boundary(s, j) ==
  LET InWord(k) == k \in DOMAIN s /\ s[k] \notin NonWord
  IN InWord(j - 1) # InWord(j)

At(p, i) == IF i \in DOMAIN p THEN p[i] ELSE "end"

(* found[<<i, j>>]: the pattern from i on matches the text from j on.      *)
FoundAt(p, s) ==
  LET found[x \in (1..Len(p) + 1) \X (1..Len(s) + 1)] ==
        LET i == x[1] j == x[2] here == At(p, i) = At(s, j) IN
        CASE At(p, i) = "end" -> TRUE
          [] At(p, i) = "("   -> found[<<i + 1, j>>] \/ found[<<GroupEnd(p, i) + 1, j>>]
          [] At(p, i) = ")?"  -> found[<<i + 1, j>>]
          [] At(p, i) = "\\b" -> Boundary(s, j) /\ found[<<i + 1, j>>]
          [] OTHER ->
               CASE At(p, i + 1) = "*" -> found[<<i + 2, j>>] \/ (here /\ found[<<i, j + 1>>])
                 [] At(p, i + 1) = "?" -> found[<<i + 2, j>>] \/ (here /\ found[<<i + 2, j + 1>>])
                 [] OTHER              -> here /\ found[<<i + 1, j + 1>>]
  IN found

RegexTest(value, pattern) ==
  LET p == Lower(pattern) s == Lower(value)
  IN RegexValid(p) /\ \E j \in 1..Len(s) + 1 : FoundAt(p, s)[<<1, j>>]

TestPattern(name, value, pattern) ==
  CASE name = "wildcard"   -> WildcardTest(value, pattern)
    [] name = "match"      -> RegexTest(value, pattern)
    [] name = "startswith" -> IsPrefix(Lower(pattern), Lower(value))
    [] name = "endswith"   -> IsSuffix(Lower(pattern), Lower(value))

EvalFunc(name, value, patterns) ==
  \E i \in DOMAIN patterns : TestPattern(name, value, patterns[i])

EvalCmp(cmp, l, r) ==
  CASE cmp = "==" -> LooseEq(l, r)
    [] cmp = "!=" -> ~ LooseEq(l, r)
    [] cmp = "<"  -> \E x \in Number(l), y \in Number(r) : x < y
    [] cmp = "<=" -> \E x \in Number(l), y \in Number(r) : x <= y
    [] cmp = ">"  -> \E x \in Number(l), y \in Number(r) : x > y
    [] cmp = ">=" -> \E x \in Number(l), y \in Number(r) : x >= y

(* A call's first argument is the value, the others are the patterns.      *)
EvalCall(name, values) ==
  EvalFunc(name, TextOrEmpty(values[1]), [i \in 1..(Len(values) - 1) |-> Text(values[i + 1])])

EvalIn(l, values) == \E i \in DOMAIN values : LooseEq(l, values[i])

ValuesOf(nodes, event) == [i \in DOMAIN nodes |-> ResolveOperand(nodes[i], event)]

(* eval is the evaluator itself, a function of a condition.                *)
EvalStep(eval, n, event) ==
  CASE n.op = "lit"  -> n.value
    [] n.op = "and"  -> eval[n.left] /\ eval[n.right]
    [] n.op = "or"   -> eval[n.left] \/ eval[n.right]
    [] n.op = "not"  -> ~ eval[n.node]
    [] n.op = "cmp"  -> EvalCmp(n.cmp, ResolveOperand(n.left, event), ResolveOperand(n.right, event))
    [] n.op = "in"   -> EvalIn(ResolveOperand(n.field, event), ValuesOf(n.values, event))
    [] n.op = "func" -> EvalCall(n.name, ValuesOf(n.args, event))

EvalNode(event) == LET eval[n \in ConditionNode] == EvalStep(eval, n, event) IN eval

(* What throws: a function without arguments, where the evaluation gets to *)
(* it.                                                                     *)
ThrowsWhere(eval) ==
  LET throws[n \in ConditionNode] ==
        CASE n.op = "and"  -> throws[n.left] \/ (eval[n.left] /\ throws[n.right])
          [] n.op = "or"   -> throws[n.left] \/ (~ eval[n.left] /\ throws[n.right])
          [] n.op = "not"  -> throws[n.node]
          [] n.op = "func" -> n.args = <<>>
          [] OTHER         -> FALSE
  IN throws

EvalThrows(event) == ThrowsWhere(EvalNode(event))

EventTypeMatches(wanted, event) ==
  \/ wanted = "any"
  \/ IF wanted = "process" THEN event.type = "process_create" ELSE event.type = wanted

Throws(parsed, event) ==
  EventTypeMatches(parsed.eventType, event) /\ EvalThrows(event)[parsed.condition]

Evaluate(parsed, event) ==
  EventTypeMatches(parsed.eventType, event) /\ EvalNode(event)[parsed.condition]
=============================================================================
