------------------------------- MODULE MCTail -------------------------------
(* Small instances of Tail for TLC.                                        *)
EXTENDS Tail, TLC

CONSTANTS c1, c2

(* Lines of one and two bytes; the second event holds a two-byte character *)
(* in the multi-byte instances.                                            *)
AsciiBodies == <<<<"ascii">>, <<"ascii", "ascii">>, <<"ascii">>>>
Utf8Bodies  == <<<<"ascii">>, <<"lead", "cont">>, <<"ascii">>>>
TwoHits     == <<1, 0, 2>>

TornBodies == <<<<"lead", "cont">>, <<"ascii">>, <<"ascii">>>>

OneConsole  == {c1}
TwoConsoles == {c1, c2}
Consoles    == Permutations(TwoConsoles)
=============================================================================
