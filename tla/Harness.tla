------------------------------ MODULE Harness ------------------------------
(* The allocator the tested program sees (harness.c): test_malloc and        *)
(* test_free count the blocks they hand out and inject failures.  A heap is  *)
(* a record, so that a handler that allocates or frees several blocks        *)
(* composes these operators within one action.  Memory is scarce while the    *)
(* system may have none left for this process.  The two other modes of the   *)
(* harness, noallocate_mode and the alarm, belong to its user, QTest.        *)
EXTENDS Integers, FiniteSets

(* The harness as its static initialisers leave it.                          *)
InitHeap == [live |-> {}, allocated_count |-> 0, fail_probability |-> 0,
             scarce |-> FALSE]

HeapOver(Block) == [live             : SUBSET Block,
                    allocated_count  : Nat,
                    fail_probability : Int,
                    scarce           : BOOLEAN]

(* fail_allocation draws a weight in [0, 1], both ends included, and fails   *)
(* when weight < fail_probability / 100: no failure at 0 or below, either    *)
(* outcome from 1 to 100, certain failure from 101 on.                       *)
AllocationCanFail(h)    == h.fail_probability > 0
AllocationCanSucceed(h) == h.fail_probability =< 100

(* test_malloc when it returns the block p, and test_free(p).                *)
TestMalloc(h, p) ==
    [h EXCEPT !.live = @ \cup {p}, !.allocated_count = @ + 1]

TestFree(h, p) ==
    [h EXCEPT !.live = @ \ {p}, !.allocated_count = @ - 1]

AllocationCheck(h) == h.allocated_count

(* Every block handed out is counted once.                                   *)
CountsLiveBlocks(h) == h.allocated_count = Cardinality(h.live)
=============================================================================
