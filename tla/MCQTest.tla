------------------------------ MODULE MCQTest ------------------------------
(* Small instances of the queue under its tester.                            *)
EXTENDS QTest, TLC

CONSTANTS h1, n1, n2, n3, t1, t2, t3, a, b

MCText == {<<a>>, <<a, b>>}
MCChecks == MCText \cup {NULL}

(* Below fatal events, and as high as the level of show_queue.               *)
MCVerbLevels == {-1, 3}

(* One that rh cannot allocate for, one that leaves its buffer no byte, no   *)
(* character, and as many as the longest string has.                         *)
MCLengths == {-2, -1, 0, 2}

MCLog == {"none", "open"}
=============================================================================
