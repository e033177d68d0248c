------------------------------ MODULE MCBTest -------------------------------
(* A long of eight bits, and puzzles of every number of arguments and every  *)
(* kind of range that gen_vals knows.                                        *)
EXTENDS BTest

(* The puzzles of decl.c, one on floats and ones of no and three arguments.  *)
MCTestSet ==
    Declared \o
    <<Puzzle("float", 1, 3, <<<<1, 1>>, All, All>>),
      Puzzle("none",  0, 2, <<All, All, All>>),
      Puzzle("three", 3, 4, <<<<0, 1>>, <<1, 2>>, <<0, 1>>>>)>>

MCTestRange == [k \in 0 .. 3 |-> <<1, 3, 1, 1>>[k + 1]]
=============================================================================
