------------------------------- MODULE Matcher -------------------------------
(***************************************************************************)
(* The detection rules, as the tokens of their queries, and matchEvent,    *)
(* which runs them over an event.  A string is written in parts:           *)
(* "powershell.exe" is <<"powershell", ".exe">>.                           *)
(***************************************************************************)
EXTENDS Eql

And == <<Token("AND")>>
Not == <<Token("NOT")>>

Brackets(args) ==
  <<Token("(")>> \o FlattenSeq([i \in DOMAIN args |->
     IF i = 1 THEN args[i] ELSE <<Token(",")>> \o args[i]]) \o <<Token(")")>>

Name(word)     == <<Word("IDENT", word)>>
Quoted(s)      == <<Word("STRING", Str(s))>>
Is(field, x)   == Name(field) \o <<Word("CMP", "==")>> \o x
In(field, ss)  == Name(field) \o <<Token("IN")>> \o Brackets([i \in DOMAIN ss |-> Quoted(ss[i])])
Call(f, field, ss) ==
  Name(f) \o Brackets(<<Name(field)>> \o [i \in DOMAIN ss |-> Quoted(ss[i])])

Program(s) == Is("process.name", Quoted(s))

Powershell == <<"powershell", ".exe">>
Certutil   == <<"certutil", ".exe">>
Cmd        == <<"cmd.exe">>
Pwsh       == <<"pwsh.exe">>
Wscript    == <<"wscript.exe">>
Cscript    == <<"cscript.exe">>
Mshta      == <<"mshta.exe">>

(* -e(nc(odedcommand)?)?\\b                                                *)
EncodedSwitch == <<"-", "e", "(", "nc", "(", "odedcommand", ")?", ")?", "\\b">>

Rule(name, condition, severity, mitreId) ==
  [name     |-> name,
   query    |-> Name("process") \o <<Token("WHERE")>> \o condition \o <<Token("EOF")>>,
   severity |-> severity,
   mitreId  |-> mitreId]

RULES ==
  <<Rule("encoded_powershell",
         Call("wildcard", "process.name", <<<<"*", "powershell", "*">>>>)
           \o And \o Call("match", "process.cmdline", <<EncodedSwitch>>),
         "critical", "T1059.001"),
    Rule("certutil_download",
         Call("wildcard", "process.name", <<<<"*", "certutil", "*">>>>)
           \o And \o Call("wildcard", "process.cmdline",
                          <<<<"*", "urlcache", "*">>, <<"*", "http://", "*">>, <<"*", "https://", "*">>>>),
         "high", "T1105"),
    Rule("lolbin_rundll32", Program(<<"rundll32.exe">>), "medium", "T1218.011"),
    Rule("lolbin_regsvr32", Program(<<"regsvr32.exe">>), "medium", "T1218.010"),
    Rule("lolbin_mshta", Program(Mshta), "medium", "T1218.005"),
    Rule("lolbin_script_host", In("process.name", <<Wscript, Cscript>>), "medium", "T1059.005"),
    Rule("lolbin_bitsadmin", Program(<<"bitsadmin.exe">>), "medium", "T1197"),
    Rule("lolbin_installutil", Program(<<"installutil.exe">>), "medium", "T1218.004"),
    Rule("suspicious_parent",
         In("parent.name", <<<<"winword.exe">>, <<"excel.exe">>, <<"powerpnt.exe">>,
                             <<"outlook.exe">>, <<"mspub.exe">>>>)
           \o And \o In("process.name", <<Cmd, Powershell, Pwsh, Wscript, Cscript, Mshta>>),
         "high", "T1059"),
    Rule("exec_from_userdir",
         Is("process.signed", Name("false"))
           \o And \o Call("wildcard", "process.path",
                          <<<<"*", "\\Temp\\", "*">>, <<"*", "\\Downloads\\", "*">>>>),
         "high", "T1204"),
    Rule("system_shell",
         Is("user.is_system", Name("true")) \o And \o In("process.name", <<Cmd, Powershell, Pwsh>>)
           \o And \o Not \o In("parent.name", <<<<"services.exe">>, <<"svchost.exe">>, <<"wininit.exe">>>>),
         "medium", "T1548")>>

Alert(rule) == [ruleName |-> rule.name, severity |-> rule.severity, mitreId |-> rule.mitreId]

(* EQL.matches: a rule's query may throw when it is parsed or evaluated.   *)
Fails(parsed, evt) == ~ parsed.ok \/ Throws(parsed.node, evt)
Hits(parsed, evt)  == ~ Fails(parsed, evt) /\ Evaluate(parsed.node, evt)

QueryError(rule, evt) == Fails(Parse(rule.query), evt)
Matches(rule, evt)    == Hits(Parse(rule.query), evt)

(* The alerts of some of the rules, in the order of the rules.             *)
AlertsOf(rules, hits) ==
  [n \in 1..Cardinality(hits) |->
     Alert(rules[CHOOSE i \in hits : Cardinality(hits \cap 1..i) = n])]

MatchUntilError(rules, evt) ==  \* the try is around the loop
  AlertsOf(rules, {i \in DOMAIN rules :
                     Matches(rules[i], evt) /\ \A j \in 1..i : ~ QueryError(rules[j], evt)})

matchEvent(rules, evt) == AlertsOf(rules, {i \in DOMAIN rules : Matches(rules[i], evt)})
=============================================================================
