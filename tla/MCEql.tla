------------------------------- MODULE MCEql ---------------------------------
(***************************************************************************)
(* The engine over small sets of characters, tokens, queries and events,   *)
(* and what a parsed condition must look like when it is written out.      *)
(***************************************************************************)
EXTENDS Engine, Writer, TLC

MCCharacters == {" ", "(", "\"", "'", "\\", "1", ".", "=", ">", "o", "R"}

Letters == {"o", "r", "R"}

LowerPairs ==
  "A" :> "a" @@ "B" :> "b" @@ "R" :> "r" @@ "TRUE" :> "true" @@ "Wildcard" :> "wildcard"
  @@ "PowerShell" :> "powershell" @@ ".EXE" :> ".exe" @@ "WINWORD.EXE" :> "winword.exe"
  @@ "\\Temp\\" :> "\\temp\\" @@ "\\Downloads\\" :> "\\downloads\\"
  @@ "E" :> "e" @@ "OdedCommand" :> "odedcommand" @@ "MSHTA.EXE" :> "mshta.exe"

MCVocabulary ==
  {Token("AND"), Token("OR"), Token("NOT"), Token("IN"),
   Token("("), Token(")"), Token(","),
   Word("CMP", "=="), Word("STRING", Str(<<"a">>)),
   Word("IDENT", "name"), Word("IDENT", "Wildcard"),
   Word("IDENT", "length"), Word("IDENT", "TRUE")}

Strings == {Str(s) : s \in {<<>>, <<"a">>, <<"A">>, <<"A", "b">>, <<"b", "A", "1">>}}
Recased == {Str(<<"a", "B">>), Str(<<"B", "a", "1">>)}
Values  == Strings \cup {Num(0), Num(1), Bool(TRUE), Bool(FALSE), Null}

RunEvents ==
  {[type |-> t, fields |-> [name |-> v]] :
     t \in {"process_create", "file_create"}, v \in Values \cup Recased}
  \cup {[type |-> "process_create", fields |-> <<>>]}

Field    == [kind |-> "field", path |-> "name"]
RunOperands == {Literal(v) : v \in Values} \cup {[kind |-> "length", arg |-> Field]}
Patterns == {Literal(Str(s)) : s \in {<<"a">>, <<"A", "*">>, <<"*", "?", "a">>, <<"*", "B", "*">>}}

Predicates ==
  {[op |-> "lit", value |-> b] : b \in BOOLEAN}
  \cup {[op |-> "cmp", cmp |-> c, left |-> Field, right |-> o] :
          c \in {"==", "!=", "<", "<=", ">", ">="}, o \in RunOperands}
  \cup {[op |-> "in", field |-> Field, values |-> <<o, p>>] : o, p \in RunOperands}
  \cup {[op |-> "func", name |-> f, args |-> <<Field, p, Literal(Num(1))>>] :
          f \in BoolFuncs, p \in Patterns}

Equals(v) == [op |-> "cmp", cmp |-> "==", left |-> Field, right |-> Literal(v)]

RunConditions ==
  Predicates
  \cup {[op |-> "not", node |-> p] : p \in Predicates}
  \cup {[op |-> o, left |-> p, right |-> Equals(Str(<<"A">>))] :
          o \in {"and", "or"}, p \in Predicates}

(* Events for the rules: fields as the agent writes them, one of them       *)
(* varied with those that a rule combines it with.                         *)
Told(field, strings) == {field :> Str(x) : x \in strings}
Unknown(field)       == {field :> Null}
Yes(field, bools)    == {field :> Bool(b) : b \in bools}

Shell  == {<<"PowerShell", ".EXE">>, Pwsh, Cmd}
Script == {Wscript, Cscript, <<"MSHTA.EXE">>}
Others == {<<"rundll32.exe">>, <<"regsvr32.exe">>, <<"bitsadmin.exe">>, <<"installutil.exe">>,
           Certutil, <<"notepad.exe">>}

Switches ==
  {<<"a", " ", "-", "E", " ", "b">>, <<"-", "e", "nc">>, <<"-", "E", "nc", "OdedCommand", " ", "b">>,
   <<"-", "e", "-", "b">>, <<"-", "e", "nc", "o", " ", "b">>, <<"-", "e", "n">>, <<"e", "nc", " ">>,
   <<"-", "b", " ", "e">>}
Downloads == {<<"a", "urlcache">>, <<"http://", "a">>, <<"https://", "a">>}

Parents ==
  Told("parent.name", {<<"WINWORD.EXE">>, <<"excel.exe">>, <<"powerpnt.exe">>, <<"outlook.exe">>,
                       <<"mspub.exe">>, <<"services.exe">>, <<"svchost.exe">>, <<"wininit.exe">>,
                       <<"explorer.exe">>})
  \cup Unknown("parent.name") \cup {<<>>}

Paths ==
  Told("process.path", {<<"C:", x, "a">> : x \in {"\\Temp\\", "\\Downloads\\", "\\bin\\"}})
  \cup Unknown("process.path")

Created(names, cmdlines, paths, signed, system, parents) ==
  {[type |-> "process_create", fields |-> n @@ c @@ p @@ s @@ u @@ r] :
     n \in names, c \in cmdlines, p \in paths, s \in signed, u \in system, r \in parents}

JudgedEvents ==
  LET name(names) == Told("process.name", names)
      plain    == Told("process.cmdline", {<<"a">>})
      bin      == Told("process.path", {<<"C:", "\\bin\\", "a">>})
      signed   == Yes("process.signed", {TRUE})
      user     == Yes("user.is_system", {FALSE})
      explorer == Told("parent.name", {<<"explorer.exe">>})
  IN Created(name(Shell \cup Script \cup Others) \cup Unknown("process.name"),
             plain, bin, signed, Yes("user.is_system", BOOLEAN), Parents)
     \cup Created(name({<<"PowerShell", ".EXE">>, <<"a", "powershell", "b">>, Pwsh, <<"a", "certutil">>}),
                  Told("process.cmdline", Switches \cup Downloads) \cup Unknown("process.cmdline"),
                  bin, signed, user, explorer)
     \cup Created(name({Powershell, <<"rundll32.exe">>}), Told("process.cmdline", {<<"-", "e">>}), Paths,
                  Yes("process.signed", BOOLEAN), Yes("user.is_system", BOOLEAN),
                  Told("parent.name", {<<"excel.exe">>, <<"svchost.exe">>}))

MCQueries ==
  {[eventType |-> t, condition |-> c] : t \in {"process", "any", "file_create"}, c \in RunConditions}

BadOnes ==
  {Rule("unparsable", Name("true") \o Name("true"), "low", "none"),
   Rule("throwing", Name("wildcard") \o Brackets(<<>>), "low", "none")}

RECURSIVE Subtrees(_)
Subtrees(n) ==
  {n} \cup CASE n.op \in {"and", "or"} -> Subtrees(n.left) \cup Subtrees(n.right)
             [] n.op = "not"           -> Subtrees(n.node)
             [] OTHER                  -> {}

RuleQueries == {r.query : r \in Range(RULES) \cup BadOnes}

Conditions ==
  UNION {Subtrees(c) : c \in RunConditions \cup
           {r.node.condition : r \in {r \in {Parse(q) : q \in RuleQueries} : r.ok}}}

(* What the words and strings of the rules are as operands.                *)
UsedOperands ==
  RunOperands \cup Patterns \cup {Field}
  \cup UNION {{Named(t.v) : t \in {t \in Range(q) : t.t = "IDENT"}} : q \in RuleQueries}
  \cup UNION {{Literal(t.v) : t \in {t \in Range(q) : t.t = "STRING"}} : q \in RuleQueries}

(* TLC evaluates the body of a value of a constant at each use, and a      *)
(* definition that it names once.                                          *)
MCLowerOf       == LowerPairs
MCEvents        == RunEvents
MCRuleEvents    == JudgedEvents
MCBadRules      == BadOnes
MCConditionNode == Conditions
MCOperandNode   == UsedOperands

-----------------------------------------------------------------------------
Groups ==
  \E i \in DOMAIN typed :
    typed[i].t = "(" /\ (i = 1 \/ typed[i - 1].t \in {"AND", "OR", "NOT", "("})

LowerWords(ts) ==
  [i \in DOMAIN ts |-> IF ts[i].t = "IDENT" THEN Word("IDENT", LowerCase(ts[i].v)) ELSE ts[i]]

(* "and / or / not, parens for grouping": not binds tighter than and, and  *)
(* than or, and each chain groups from the left.  What was parsed, written *)
(* with the fewest parentheses, is the text when it has no group, and      *)
(* parses to the same condition in any case.                               *)
ReadsAsWritten ==
  Parsed.ok =>
    LET written == Write(Parsed.node.condition, 1) IN
    /\ ~ Groups => LowerWords(written) = LowerWords(typed)
    /\ Len(written) <= Len(typed)
    /\ Parse(QueryOf(written)).node = Parsed.node

(* What the titles of the rules say of an event, in sets.                  *)
Shells == {Cmd, Powershell, Pwsh}
Office == {<<"winword.exe">>, <<"excel.exe">>, <<"powerpnt.exe">>, <<"outlook.exe">>, <<"mspub.exe">>}
Usual  == {<<"services.exe">>, <<"svchost.exe">>, <<"wininit.exe">>}
Binary ==
  "lolbin_rundll32" :> <<"rundll32.exe">> @@ "lolbin_regsvr32" :> <<"regsvr32.exe">>
  @@ "lolbin_mshta" :> <<"mshta.exe">> @@ "lolbin_bitsadmin" :> <<"bitsadmin.exe">>
  @@ "lolbin_installutil" :> <<"installutil.exe">>

Lowered(field) == Lower(TextOrEmpty(GetField(event, field)))
Holds(field, parts) == \E part \in parts : part \in Range(Lowered(field))

(* A command line with -e, -enc or -encodedcommand as a word.              *)
Encoded ==
  LET line == Lowered("process.cmdline") IN
  \E i, j \in DOMAIN line :
    /\ SubSeq(line, i, j) \in {<<"-", "e">>, <<"-", "e", "nc">>, <<"-", "e", "nc", "odedcommand">>}
    /\ j = Len(line) \/ line[j + 1] \in NonWord

Meant ==
  LET name == Lowered("process.name") parent == Lowered("parent.name") IN
  {n \in {"encoded_powershell"} : Holds("process.name", {"powershell"}) /\ Encoded}
  \cup {n \in {"certutil_download"} :
          /\ Holds("process.name", {"certutil"})
          /\ Holds("process.cmdline", {"urlcache", "http://", "https://"})}
  \cup {n \in DOMAIN Binary : name = Binary[n]}
  \cup {n \in {"lolbin_script_host"} : name \in {Wscript, Cscript}}
  \cup {n \in {"suspicious_parent"} : parent \in Office /\ name \in Shells \cup {Wscript, Cscript, Mshta}}
  \cup {n \in {"exec_from_userdir"} : /\ GetField(event, "process.signed") = Bool(FALSE)
                                       /\ Holds("process.path", {"\\temp\\", "\\downloads\\"})}
  \cup {n \in {"system_shell"} : /\ GetField(event, "user.is_system") = Bool(TRUE)
                                  /\ name \in Shells /\ parent \notin Usual}

Means(alerts) ==
  /\ {alert.ruleName : alert \in Range(alerts)} = Meant
  /\ Len(alerts) = Cardinality(Meant)

(* Each of the eleven rules raises its alert for the events its title      *)
(* describes and for no others, in whatever case Windows reports names and *)
(* paths, and with fields missing: a shell whose parent is unknown has an  *)
(* unusual one.  Of PowerShell's ways to write -EncodedCommand the first   *)
(* rule means -e, -enc and the whole word, each only as a word.            *)
RulesMean == Judged => Means(matchEvent(RULES, event))
=============================================================================
