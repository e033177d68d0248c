------------------------------ MODULE MCQueue ------------------------------
(* Small instances of the queue: strings of one and two characters, so that  *)
(* a copy may be cut by the buffer, and every failure probability class.     *)
EXTENDS QueueRefinement

CONSTANTS h1, n1, n2, n3, t1, t2, t3, a, b

MCText == {<<a>>, <<a, b>>}
MCFailProbabilities == {0, 50, 101}
=============================================================================
