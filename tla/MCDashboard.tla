----------------------------- MODULE MCDashboard -----------------------------
(* Small instances of Dashboard for TLC.                                   *)
EXTENDS Dashboard

CONSTANTS events, host, r1, r2

(* Overview and alerts are handled like events.                            *)
TwoParts == {events, host}
Two      == {r1, r2}

Texts  == {"all", "some", "broken"}
Chips  == {"all"}
TheHits(text) ==
  CASE text = "all" -> Event [] text = "some" -> {0, 2} [] text = "broken" -> {}
=============================================================================
