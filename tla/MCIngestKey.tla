----------------------------- MODULE MCIngestKey -----------------------------
(* Small instances of IngestKey for TLC.                                   *)
EXTENDS IngestKey

CONSTANTS c1, c2, c3

ThreeConsoles == {c1, c2, c3}
=============================================================================
