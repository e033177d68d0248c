-------------------------------- MODULE Trans -------------------------------
(* trans.c: the registered transpose functions, as the loads and stores they *)
(* make.  None of them looks at an element, so a function is the sequence of *)
(* its iterations: each loads cells into the registers v0 .. v7 (or tmp),    *)
(* then stores registers.  A cell is <<"A", row, column>> or                 *)
(* <<"B", row, column>>.  Definitions named Faulty are slips in the          *)
(* definition of that name below them.                                       *)
EXTENDS Integers, SequencesExt

min(a, b) == IF a < b THEN a ELSE b

(* One row of A, from column j on, goes to a column of B.                    *)
CopyRow(i, j, width) ==
    [loads  |-> [p \in 1 .. width |-> <<"A", i, j + p - 1>>],
     stores |-> [p \in 1 .. width |-> [to |-> <<"B", j + p - 1, i>>, from |-> p]]]

(* The part of a side x side block that lies in the matrix, cell by cell.    *)
Cells(i, j, side, M, N) ==
    LET height == min(N, i + side) - i
        width  == min(M, j + side) - j
    IN  [p \in 1 .. height * width |->
            CopyRow(i + (p - 1) \div width, j + ((p - 1) % width), 1)]

(* A whole 8 x 8 block, one row at a time.                                   *)
Rows(i, j) == [k \in 1 .. 8 |-> CopyRow(i + k - 1, j, 8)]

(* The width of the last blocks of a row is not cut.                         *)
FaultyEdge(i, j, M, N) ==
    IF i > N \/ j > M
      THEN <<>>
      ELSE [k \in 1 .. min(N, i + 8) - i |-> CopyRow(i + k - 1, j, 8)]

(* edge_routine.                                                             *)
Edge(i, j, M, N) ==
    IF i > N \/ j > M
      THEN <<>>
      ELSE [k \in 1 .. min(N, i + 8) - i |->
               CopyRow(i + k - 1, j, min(M, j + 8) - j)]

(* subblock_routine, first loop: a row of the upper half of A's block goes   *)
(* to a column of B's; its right half is parked in the upper right of B.     *)
Park(i, j, k) ==
    [loads  |-> [p \in 1 .. 8 |-> <<"A", i + k, j + p - 1>>],
     stores |-> [p \in 1 .. 8 |->
                    IF p =< 4 THEN [to |-> <<"B", j + p - 1, i + k>>, from |-> p]
                              ELSE [to |-> <<"B", j + p - 5, i + k + 4>>, from |-> p]]]

(* Second loop: the parked row moves to the lower left of B and the column   *)
(* of A that belongs in its place is stored there.                           *)
Swap(i, j, k) ==
    [loads  |-> [p \in 1 .. 8 |->
                    IF p =< 4 THEN <<"B", j + k, i + p + 3>>
                              ELSE <<"A", i + p - 1, j + k>>],
     stores |-> [p \in 1 .. 8 |->
                    IF p =< 4 THEN [to |-> <<"B", j + k, i + p + 3>>, from |-> p + 4]
                              ELSE [to |-> <<"B", j + k + 4, i + p - 5>>, from |-> p - 4]]]

(* The last loop starts one row too late.                                    *)
FaultySubblock(i, j) ==
    [k \in 1 .. 4 |-> Park(i, j, k - 1)] \o
    [k \in 1 .. 4 |-> Swap(i, j, k - 1)] \o
    [k \in 1 .. 3 |-> CopyRow(i + k + 4, j + 4, 4)]

(* The rows are swapped back before they are parked.                         *)
DisorderedSubblock(i, j) ==
    [k \in 1 .. 4 |-> Swap(i, j, k - 1)] \o
    [k \in 1 .. 4 |-> Park(i, j, k - 1)] \o
    [k \in 1 .. 4 |-> CopyRow(i + k + 3, j + 4, 4)]

Subblock(i, j) ==
    [k \in 1 .. 4 |-> Park(i, j, k - 1)] \o
    [k \in 1 .. 4 |-> Swap(i, j, k - 1)] \o
    [k \in 1 .. 4 |-> CopyRow(i + k + 3, j + 4, 4)]

(* The four 8 x 8 blocks of a 16 x 16 block, in the order they are called.   *)
Quarters(i, j, M, N) ==
    Edge(i, j, M, N) \o Edge(i + 8, j, M, N) \o
    Edge(i, j + 8, M, N) \o Edge(i + 8, j + 8, M, N)

Fits(i, j, M, N) == N - i >= 8 /\ M - j >= 8
-----------------------------------------------------------------------------
(* registerFunctions, in order.                                              *)
func_list == <<"transpose_submit", "transpose_simple_buffer",
               "transpose_unblocked", "transpose_unblocked_wa", "trans">>

(* One loop nest for every size.                                             *)
FaultyChosen(f, M, N) ==
    IF f # "transpose_submit" THEN f ELSE "quarters"

(* transpose_submit picks the loop nest to run from the size of the matrix.  *)
Chosen(f, M, N) ==
    IF f # "transpose_submit"    THEN f
    ELSE IF N = 32 /\ M = 32     THEN "transpose_simple_buffer"
    ELSE IF N = M                THEN "symmetric_routine"
    ELSE "quarters"

Stride(nest) ==
    CASE nest = "trans"                  -> 1
      [] nest = "transpose_unblocked_wa" -> 4
      [] nest = "quarters"               -> 16
      [] OTHER                           -> 8

(* The body of a loop nest for the block whose corner is A[i][j].            *)
Body(nest, i, j, M, N) ==
    CASE nest = "transpose_simple_buffer" ->
            IF Fits(i, j, M, N) THEN Rows(i, j) ELSE Cells(i, j, 8, M, N)
      [] nest = "symmetric_routine" ->
            IF Fits(i, j, M, N) THEN Subblock(i, j) ELSE Edge(i, j, M, N)
      [] nest = "quarters"               -> Quarters(i, j, M, N)
      [] nest = "transpose_unblocked"    -> Cells(i, j, 8, M, N)
      [] nest = "transpose_unblocked_wa" -> Cells(i, j, 4, M, N)
      [] nest = "trans"                  -> Cells(i, j, 1, M, N)

(* for (i = 0; i < N; i += stride) for (j = 0; j < M; j += stride).          *)
Rounds(n, stride) == (n + stride - 1) \div stride

BlockCount(nest, M, N) ==
    Rounds(N, Stride(nest)) * Rounds(M, Stride(nest))

(* The iterations of a function's nth block, n counted from 0.               *)
Block(f, n, M, N) ==
    LET nest == Chosen(f, M, N)
        columns == Rounds(M, Stride(nest))
    IN  Body(nest, Stride(nest) * (n \div columns),
                   Stride(nest) * (n % columns), M, N)
=============================================================================
