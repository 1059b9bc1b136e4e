------------------------------- MODULE MCIngest -------------------------------
(* Small instances of Ingest, and of Delivery in it, for TLC.              *)
EXTENDS Ingest

HitsOfTwo == <<2, 0>>
=============================================================================
