----------------------------- MODULE EqlGrammar ------------------------------
(***************************************************************************)
(* What the header of eql.js and the README promise of the query language, *)
(* stated apart from lexer and parser: how a text is cut into tokens, and  *)
(* the trees of the grammar, by splitting spans of tokens.                 *)
(*                                                                         *)
(*   or    ::= and | or OR and               and ::= unary | and AND unary *)
(*   unary ::= NOT unary | ( or ) | predicate                              *)
(*                                                                         *)
(* A predicate is true, false, a call, a membership or a comparison; the   *)
(* last two do not start with a bare true or false.                        *)
(***************************************************************************)
EXTENDS Lexer, FiniteSets

(* A span i, j is the tokens from i up to j, without j.  trees is the      *)
(* grammar itself: a function of a symbol and a span, which gives the      *)
(* nodes of the span, for a list their sequences.                          *)
When(c, S) == IF c THEN S ELSE {}

Bracketed(s, i, j) == i + 1 < j /\ s[i].t = "(" /\ s[j - 1].t = ")"

Operands(trees, s, i, j) ==
  When(j = i + 1 /\ s[i].t \in {"STRING", "NUMBER"}, {Literal(s[i].v)})
  \cup When(j = i + 1 /\ s[i].t = "IDENT", {Named(s[i].v)})
  \cup When(i < j /\ PeekWord(s, i, {"length"}) /\ Bracketed(s, i + 1, j),
            {[kind |-> "length", arg |-> n] : n \in trees[<<"operand", i + 2, j - 1>>]})

Extended(lists, nodes) == {Append(l, n) : l \in lists, n \in nodes}

Lists(trees, s, i, j) ==
  {<<n>> : n \in Operands(trees, s, i, j)}
  \cup UNION {Extended(trees[<<"list", i, k>>], trees[<<"operand", k + 1, j>>]) :
                k \in {k \in i..j - 1 : s[k].t = ","}}

(* Argument lists, which may be empty, in brackets.                        *)
InBrackets(trees, s, i, j) ==
  When(Bracketed(s, i, j), IF i + 1 = j - 1 THEN {<<>>} ELSE trees[<<"list", i + 1, j - 1>>])

IsTruth(s, i, j) == j = i + 1 /\ PeekWord(s, i, {"true", "false"})

Truths(s, i, j) == When(IsTruth(s, i, j), {[op |-> "lit", value |-> LowerCase(s[i].v) = "true"]})

Calls(trees, s, i, j) ==
  When(i < j /\ PeekWord(s, i, BoolFuncs),
       {[op |-> "func", name |-> LowerCase(s[i].v), args |-> a] : a \in InBrackets(trees, s, i + 1, j)})

Members(trees, s, i, j) ==
  UNION {{[op |-> "in", field |-> f, values |-> vs] :
            f \in Operands(trees, s, i, k), vs \in InBrackets(trees, s, k + 1, j)} :
          k \in {k \in i + 1..j - 1 : s[k].t = "IN" /\ ~ IsTruth(s, i, k)}}

Compares(trees, s, i, j) ==
  UNION {{[op |-> "cmp", cmp |-> s[k].v, left |-> l, right |-> r] :
            l \in Operands(trees, s, i, k), r \in Operands(trees, s, k + 1, j)} :
          k \in {k \in i + 1..j - 1 : s[k].t = "CMP" /\ ~ IsTruth(s, i, k)}}

Unaries(trees, s, i, j) ==
  When(i < j /\ s[i].t = "NOT", {[op |-> "not", node |-> n] : n \in trees[<<"unary", i + 1, j>>]})
  \cup When(Bracketed(s, i, j), trees[<<"or", i + 1, j - 1>>])
  \cup Truths(s, i, j) \cup Calls(trees, s, i, j)
  \cup Members(trees, s, i, j) \cup Compares(trees, s, i, j)

(* A chain, which ends with its last part.                                 *)
Pairs(op, ls, rs) == {[op |-> op, left |-> l, right |-> r] : l \in ls, r \in rs}

Joined(trees, s, i, j, token, chain, part) ==
  UNION {Pairs(chain, trees[<<chain, i, k>>], trees[<<part, k + 1, j>>]) :
          k \in {k \in i..j - 1 : s[k].t = token}}

Ands(trees, s, i, j) == Unaries(trees, s, i, j) \cup Joined(trees, s, i, j, "AND", "and", "unary")

Ors(trees, s, i, j) == Ands(trees, s, i, j) \cup Joined(trees, s, i, j, "OR", "or", "and")

Symbols == {"operand", "list", "unary", "and", "or"}

Derive(trees, s, x) ==
  CASE x[1] = "operand" -> Operands(trees, s, x[2], x[3])
    [] x[1] = "list"    -> Lists(trees, s, x[2], x[3])
    [] x[1] = "unary"   -> Unaries(trees, s, x[2], x[3])
    [] x[1] = "and"     -> Ands(trees, s, x[2], x[3])
    [] x[1] = "or"      -> Ors(trees, s, x[2], x[3])

Trees(s) ==
  LET trees[x \in Symbols \X (1..Len(s) + 1) \X (1..Len(s) + 1)] == Derive(trees, s, x)
  IN trees

-----------------------------------------------------------------------------
(* The tokens of a text.  A character is escaped if the backslashes right  *)
(* before it are odd in number.                                            *)
Escaped(s, i) ==
  \E k \in 1..i - 1 :
    /\ (i - k) % 2 = 1 /\ \A j \in k..i - 1 : s[j] = "\\"
    /\ k = 1 \/ s[k - 1] # "\\"

Body(s) == SubSeq(s, 2, Len(s) - 1)

IsString(s) ==
  /\ Len(s) > 1 /\ s[1] \in Quote /\ s[Len(s)] = s[1] /\ ~ Escaped(SubSeq(s, 2, Len(s)), Len(s) - 1)
  /\ \A i \in DOMAIN Body(s) : Body(s)[i] = s[1] => Escaped(Body(s), i)

Unescaped(s) ==
  LET kept == {i \in DOMAIN s : s[i] # "\\" \/ Escaped(s, i)}
  IN [n \in 1..Cardinality(kept) |->
        s[CHOOSE i \in kept : Cardinality(kept \cap 1..i) = n]]

IsNumber(s) == s[1] \in Digit /\ \A i \in DOMAIN s : s[i] \in Digit \cup {"."}
IsName(s)   == s[1] \in Letter /\ \A i \in DOMAIN s : s[i] \in IdentPart
IsOpText(s) == s \in TwoCharOp \cup {<<"<">>, <<">">>}

(* The token a text is, if it is one, as a set.                            *)
TokenOf(s) ==
  CASE s = <<>>                                -> {}
    [] Len(s) = 1 /\ s[1] \in Separator       -> {Token(s[1])}
    [] IsString(s)                             -> {Word("STRING", Unescaped(Body(s)))}
    [] IsNumber(s)                             -> {Word("NUMBER", ParseFloat(s))}
    [] IsName(s)                               -> {WordToken(s)}
    [] IsOpText(s)                             -> {Word("CMP", s)}
    [] OTHER                                   -> {}

(* All token sequences a text can be cut into, if no word, number or       *)
(* operator stops where it could go on.                                    *)
GoesOn(s, c) ==
  \/ IsName(s) /\ c \in IdentPart
  \/ IsNumber(s) /\ c \in Digit \cup {"."}
  \/ IsOpText(s) /\ IsOpText(Append(s, c))

Sequels(tokens, rests) == {<<token>> \o rest : token \in tokens, rest \in rests}

Readings(s) ==
  LET readings[i \in 1..Len(s) + 1] ==
        IF i > Len(s) THEN {<<Token("EOF")>>}
        ELSE (IF s[i] \in Space THEN readings[i + 1] ELSE {})
             \cup UNION {Sequels(TokenOf(SubSeq(s, i, j)), readings[j + 1]) :
                           j \in {j \in i..Len(s) : j = Len(s) \/ ~ GoesOn(SubSeq(s, i, j), s[j + 1])}}
  IN readings[1]
=============================================================================
