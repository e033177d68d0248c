------------------------------ MODULE TraceGen ------------------------------
(* tracegen.c: it runs one registered transpose function, or all of them one *)
(* after the other on the same matrices, and validates the result of each.   *)
(* Every element of A is its own position, and B starts with junk: no        *)
(* function looks at an element, so what goes wrong for some contents goes   *)
(* wrong for these.                                                          *)
EXTENDS Trans, FiniteSets

CONSTANTS
    Invocations     \* triples <<M, N, F>>: A has N rows of M elements, and F
                    \* is the function asked for, from 1, or -1 for all

ASSUME InvocationAssumption ==
    Invocations \subseteq (1 .. 256) \X (1 .. 256) \X ({-1} \cup DOMAIN func_list)

VARIABLES
    M, N,
    selectedFunc,
    i,              \* the function being run
    B,              \* the target, by row and column
    stored,         \* the cells of B the running function has stored
    block, todo,    \* blocks begun, and iterations left of the current one
    exit_code       \* Running, 0, or the function that failed

arguments == <<M, N, selectedFunc>>
vars == <<arguments, i, B, stored, block, todo, exit_code>>

Running == -1

Target == (0 .. M - 1) \X (0 .. N - 1)
Junk   == <<-1, -1>>
Element == (0 .. N - 1) \X (0 .. M - 1)

Init ==
    /\ \E v \in Invocations : M = v[1] /\ N = v[2] /\ selectedFunc = v[3]
    /\ i = IF selectedFunc = -1 THEN 1 ELSE selectedFunc
    /\ B = [r \in 0 .. M - 1 |-> [c \in 0 .. N - 1 |-> Junk]]
    /\ stored = {}
    /\ block = 0 /\ todo = <<>>
    /\ exit_code = Running

Count == BlockCount(Chosen(func_list[i], M, N), M, N)

NextBlock ==
    /\ exit_code = Running /\ todo = <<>> /\ block < Count
    /\ todo' = Block(func_list[i], block, M, N)
    /\ block' = block + 1
    /\ UNCHANGED <<arguments, i, B, stored, exit_code>>

(* What a load of a cell leaves in the register.                             *)
Load(cell) ==
    IF cell[1] = "A" THEN <<cell[2], cell[3]>> ELSE B[cell[2]][cell[3]]

StoredBy(iteration) ==
    {<<s.to[2], s.to[3]>> : s \in {iteration.stores[p] : p \in DOMAIN iteration.stores}}

(* The last of these stores to a cell, if there is one, gives it its value.  *)
Stored(loads, stores, r, c) ==
    LET hits == {p \in DOMAIN stores : stores[p].to = <<"B", r, c>>}
    IN  IF hits = {} THEN B[r][c] ELSE Load(loads[stores[Max(hits)].from])

(* One iteration: the loads, then the stores in their order.                 *)
Iterate ==
    /\ exit_code = Running /\ todo # <<>>
    /\ LET now == Head(todo)
           rows == {now.stores[p].to[2] : p \in DOMAIN now.stores}
       IN  /\ B' = [r \in 0 .. M - 1 |->
                       IF r \in rows
                         THEN [c \in 0 .. N - 1 |-> Stored(now.loads, now.stores, r, c)]
                         ELSE B[r]]
           /\ stored' = stored \cup StoredBy(now)
    /\ todo' = Tail(todo)
    /\ UNCHANGED <<arguments, i, block, exit_code>>

(* validate compares B with what correctTrans computes.                      *)
Correct(c) == B[c[1]][c[2]] = <<c[2], c[1]>>
Valid == \A c \in Target : Correct(c)

FunctionDone == exit_code = Running /\ todo = <<>> /\ block = Count

(* B is not cleared for the next function.                                   *)
Validate ==
    /\ FunctionDone
    /\ IF Valid /\ selectedFunc = -1 /\ i < Len(func_list)
         THEN i' = i + 1 /\ block' = 0 /\ stored' = {} /\ exit_code' = exit_code
         ELSE /\ exit_code' = IF Valid THEN 0 ELSE i
              /\ UNCHANGED <<i, block, stored>>
    /\ UNCHANGED <<arguments, B, todo>>

Exited == exit_code # Running /\ UNCHANGED vars

Next == NextBlock \/ Iterate \/ Validate \/ Exited

Spec == Init /\ [][Next]_vars
-----------------------------------------------------------------------------
TypeOK ==
    /\ arguments \in Invocations
    /\ i \in DOMAIN func_list
    /\ B \in [0 .. M - 1 -> [0 .. N - 1 -> Element \cup {Junk}]]
    /\ stored \subseteq Target
    /\ block \in 0 .. Count
    /\ exit_code \in {Running} \cup (0 .. Len(func_list))

Inside(cell) ==
    IF cell[1] = "A" THEN <<cell[2], cell[3]>> \in Element
                     ELSE <<cell[2], cell[3]>> \in Target

(* No load or store of a transpose leaves its matrix, also where the last    *)
(* blocks stick out of it (trans.c, the tests of N, M and remaining_width).  *)
InBounds ==
    \A k \in DOMAIN todo :
        /\ \A p \in DOMAIN todo[k].loads : Inside(todo[k].loads[p])
        /\ \A p \in DOMAIN todo[k].stores : Inside(todo[k].stores[p].to)

(* An element that has reached its place is not overwritten by a parked one. *)
PlacedStays ==
    [][i' = i /\ B' # B => \A c \in stored : Correct(c) => Correct(c)']_vars

(* Every registered function passes validation on every size: alone, when B  *)
(* holds no element yet, so that nothing left behind passes for its result,  *)
(* and after the others.                                                     *)
AllValid == exit_code \in {Running, 0}
=============================================================================
