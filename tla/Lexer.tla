------------------------------- MODULE Lexer ---------------------------------
(***************************************************************************)
(* tokenize() of the query engine: from the characters of a query to its   *)
(* tokens.  Words and literals keep their characters as their value; the   *)
(* parser (Eql) knows a word by its name only.                             *)
(***************************************************************************)
EXTENDS Eql

CONSTANT Letter  \* the characters a word starts with

Space     == {" ", "\t", "\n", "\r"}
Digit     == {"0", "1", "2", "3", "4", "5", "6", "7", "8", "9"}
IdentPart == Letter \cup Digit \cup {"."}
Quote     == {"\"", "'"}
Separator == {"(", ")", ","}
Sign      == {"=", "!", ">", "<"}
TwoCharOp == {<<c, "=">> : c \in Sign}

ASSUME LexerAssumption ==
  /\ {LowerCase(c) : c \in Letter} \subseteq Letter
  /\ Letter \cap (Space \cup Digit \cup Quote \cup Separator \cup Sign) = {}

(* The position after the characters of S that follow one another from i.  *)
EndOf(src, i, S) ==
  CHOOSE j \in i..Len(src) + 1 :
    /\ \A k \in i..j - 1 : src[k] \in S
    /\ j > Len(src) \/ src[j] \notin S

StringEndAtQuote(src, i, quote) ==  \* an escaped quote ends the string too
  LET end[j \in i..Len(src) + 1] ==
        IF j > Len(src) THEN Throw(j)
        ELSE IF src[j] = quote THEN Ok(<<>>, j + 1)
        ELSE Then(end[j + 1], LAMBDA rest, k :
               Ok(IF src[j] = "\\" THEN rest ELSE <<src[j]>> \o rest, k))
  IN Then(end[i], LAMBDA out, k : Ok(Word("STRING", out), k))

(* The rest of a string literal.                                           *)
StringEnd(src, i, quote) ==
  LET end[j \in i..Len(src) + 1] ==
        IF j > Len(src) THEN Throw(j)
        ELSE IF src[j] = quote THEN Ok(<<>>, j + 1)
        ELSE IF src[j] = "\\" /\ j < Len(src)
             THEN Then(end[j + 2], LAMBDA rest, k : Ok(<<src[j + 1]>> \o rest, k))
             ELSE Then(end[j + 1], LAMBDA rest, k : Ok(<<src[j]>> \o rest, k))
  IN Then(end[i], LAMBDA out, k : Ok(Word("STRING", out), k))

(* parseFloat: up to a second dot, and a dot at the end says nothing.      *)
ParseFloat(s) ==
  LET dots == {i \in DOMAIN s : s[i] = "."}
      n    == CHOOSE i \in 0..Len(s) : /\ Cardinality(dots \cap 1..i) <= 1
                                       /\ i = Len(s) \/ Cardinality(dots \cap 1..i + 1) > 1
  IN IF s[n] = "." THEN SubSeq(s, 1, n - 1) ELSE SubSeq(s, 1, n)

Keyword(word) ==
  CASE word = <<"a", "n", "d">>           -> <<"AND">>
    [] word = <<"o", "r">>                -> <<"OR">>
    [] word = <<"n", "o", "t">>           -> <<"NOT">>
    [] word = <<"i", "n">>                -> <<"IN">>
    [] word = <<"w", "h", "e", "r", "e">> -> <<"WHERE">>
    [] OTHER                              -> <<>>

WordToken(word) ==
  LET keyword == Keyword(Lower(word))
  IN IF keyword = <<>> THEN Word("IDENT", word) ELSE Token(keyword[1])

(* The token at position i, which is not a space.                          *)
NextToken(src, i) ==
  LET c    == src[i]
      word == EndOf(src, i, IdentPart)
      num  == EndOf(src, i, Digit \cup {"."})
      pair == IF i < Len(src) THEN SubSeq(src, i, i + 1) ELSE <<c>>
  IN CASE c \in Separator                   -> Ok(Token(c), i + 1)
       [] c \in Quote                       -> StringEnd(src, i + 1, c)
       [] c \in Digit                       -> Ok(Word("NUMBER", ParseFloat(SubSeq(src, i, num - 1))), num)
       [] pair \in TwoCharOp                -> Ok(Word("CMP", pair), i + 2)
       [] pair \notin TwoCharOp /\ c \in {"<", ">"} -> Ok(Word("CMP", <<c>>), i + 1)
       [] c \in Letter                      -> Ok(WordToken(SubSeq(src, i, word - 1)), word)
       [] OTHER                             -> Throw(i)

Tokenize(src) ==
  LET tokens[i \in 1..Len(src) + 1] ==
        IF i > Len(src) THEN Ok(<<Token("EOF")>>, i)
        ELSE IF src[i] \in Space THEN tokens[i + 1]
        ELSE Then(NextToken(src, i), LAMBDA token, j :
               Then(tokens[j], LAMBDA rest, k : Ok(<<token>> \o rest, k)))
  IN tokens[1]
=============================================================================
