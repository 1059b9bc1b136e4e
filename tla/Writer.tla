------------------------------- MODULE Writer --------------------------------
(***************************************************************************)
(* Writing a parsed condition with no more parentheses than it needs.      *)
(***************************************************************************)
EXTENDS EqlGrammar

WriteLiteral(v) ==
  CASE v.k = "bool" -> <<Word("IDENT", IF v.b THEN "true" ELSE "false")>>
    [] v.k = "null" -> <<Word("IDENT", "null")>>
    [] v.k = "num"  -> <<Word("NUMBER", v)>>
    [] v.k = "str"  -> <<Word("STRING", v)>>

Enclosed(s) == <<Token("(")>> \o s \o <<Token(")")>>

RECURSIVE WriteOperand(_)
WriteOperand(n) ==
  CASE n.kind = "lit"    -> WriteLiteral(n.value)
    [] n.kind = "field"  -> <<Word("IDENT", n.path)>>
    [] n.kind = "length" -> <<Word("IDENT", "length")>> \o Enclosed(WriteOperand(n.arg))

WriteArguments(args) ==
  Enclosed(FlattenSeq([i \in DOMAIN args |->
    (IF i = 1 THEN <<>> ELSE <<Token(",")>>) \o WriteOperand(args[i])]))

(* level: what the context takes bare, 1 for or, 2 for and, 3 for unary.   *)
Level(n) == CASE n.op = "or" -> 1 [] n.op = "and" -> 2 [] OTHER -> 3

RECURSIVE Write(_, _)
Write(n, level) ==
  LET bare ==
        CASE n.op = "or"   -> Write(n.left, 1) \o <<Token("OR")>> \o Write(n.right, 2)
          [] n.op = "and"  -> Write(n.left, 2) \o <<Token("AND")>> \o Write(n.right, 3)
          [] n.op = "not"  -> <<Token("NOT")>> \o Write(n.node, 3)
          [] n.op = "lit"  -> WriteLiteral(Bool(n.value))
          [] n.op = "cmp"  -> WriteOperand(n.left) \o <<Word("CMP", n.cmp)>>
                              \o WriteOperand(n.right)
          [] n.op = "in"   -> WriteOperand(n.field) \o <<Token("IN")>>
                              \o WriteArguments(n.values)
          [] n.op = "func" -> <<Word("IDENT", n.name)>> \o WriteArguments(n.args)
  IN IF Level(n) < level THEN Enclosed(bare) ELSE bare
=============================================================================
