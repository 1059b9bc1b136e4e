----------------------------- MODULE MCQueries ------------------------------
(* A small instance of Queries for TLC: two ticks to a day, noon of day 8. *)
EXTENDS Queries

Kind(ts, type, signed, lolbin) == [ts |-> ts, type |-> type, signed |-> signed, lolbin |-> lolbin]

(* Tomorrow, exactly 24 hours ago, exactly 48 hours ago, and the first    *)
(* tick of the chart's window.                                            *)
KindsOfEvents ==
  {Kind(18, "process_create", TRUE, FALSE), Kind(15, "process_create", FALSE, TRUE),
   Kind(13, "file_create", FALSE, TRUE),
   Kind(4, "process_create", TRUE, FALSE)}

KindsOfAlerts ==
  {[severity |-> "critical", mitre |-> "T1059.001"], [severity |-> "medium", mitre |-> "T1218.004"],
   [severity |-> "low", mitre |-> "T1218.005"]}
=============================================================================
