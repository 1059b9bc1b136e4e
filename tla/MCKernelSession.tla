-------------------------- MODULE MCKernelSession ---------------------------
(* Small instances of KernelSession for TLC.                               *)
EXTENDS KernelSession

CONSTANTS a1, a2

TwoAgents == {a1, a2}
=============================================================================
