-------------------------------- MODULE Mitre --------------------------------
(***************************************************************************)
(* The ATT&CK techniques the rules and the breakdown know, by id.          *)
(***************************************************************************)
TacticOf ==
  [id \in {"T1059", "T1059.001", "T1059.005", "T1105", "T1197", "T1204", "T1218",
           "T1218.004", "T1218.005", "T1218.010", "T1218.011", "T1548"} |->
     CASE id \in {"T1059", "T1059.001", "T1059.005", "T1204"} -> "Execution"
       [] id = "T1105" -> "Command and Control"
       [] id = "T1548" -> "Privilege Escalation"
       [] OTHER        -> "Defense Evasion"]

techniqueTactic(id) == IF id \in DOMAIN TacticOf THEN TacticOf[id] ELSE "Uncategorized"
=============================================================================
