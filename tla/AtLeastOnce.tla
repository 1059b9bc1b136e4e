---------------------------- MODULE AtLeastOnce ----------------------------
(***************************************************************************)
(* What the file-tailing pipeline promises of an undisturbed log: events   *)
(* get a line in the log, an event with a line may be recorded in the      *)
(* database at any time and stays there, and only recorded events are      *)
(* acknowledged by the stored offset.  The offset may acknowledge less     *)
(* than before (a slow console may store an old one): then events are      *)
(* recorded again, which this specification does not see.                  *)
(***************************************************************************)
CONSTANT Event

VARIABLES
  lines,     \* events that have a line of their own in the log
  recorded,  \* events stored with all their alerts
  acked      \* events the ingestor will not read again

vars == <<lines, recorded, acked>>

Init == lines = {} /\ recorded = {} /\ acked = {}

Log(e) ==
  /\ e \notin lines
  /\ lines' = lines \cup {e}
  /\ UNCHANGED <<recorded, acked>>

Record(e) ==
  /\ e \in lines \ recorded
  /\ recorded' = recorded \cup {e}
  /\ UNCHANGED <<lines, acked>>

Acknowledge ==
  /\ acked' \in SUBSET recorded
  /\ UNCHANGED <<lines, recorded>>

Next == Acknowledge \/ \E e \in Event : Log(e) \/ Record(e)

Spec == Init /\ [][Next]_vars
=============================================================================
