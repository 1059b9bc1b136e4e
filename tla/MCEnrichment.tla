---------------------------- MODULE MCEnrichment ----------------------------
(* Small instances of Enrichment for TLC.                                  *)
EXTENDS Enrichment, TLC

CONSTANTS p1, p2, p3, p4

FourPids  == {p1, p2, p3, p4}
Pids      == Permutations(FourPids)
FineClock == {1}
=============================================================================
