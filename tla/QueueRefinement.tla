-------------------------- MODULE QueueRefinement --------------------------
(* The linked list of queue.c implements the sequence of QueueSpec.          *)
EXTENDS Queue, SequencesExt, FiniteSetsExt

(* s holds the nodes met from p by following the pointers ptr, up to NULL or *)
(* to a released node.                                                       *)
IsChain(ptr, s, p) ==
    /\ s = <<>> => p \notin Node
    /\ s # <<>> => p = s[1] /\ ptr[s[Len(s)]] \notin Node
    /\ \A i \in 1 .. Len(s) - 1 : ptr[s[i]] = s[i + 1]

(* No list is longer than there are nodes.                                   *)
Chain(ptr, p) ==
    CHOOSE s \in BoundedSeq(Node, Cardinality(Node)) : IsChain(ptr, s, p)

(* While queue_reverse runs the list is in two halves: the nodes already     *)
(* turned round, newest first, and the ones still to come.                   *)
ListNodes ==
    CASE pc = "idle"    -> Chain(next, head)
      [] pc = "reverse" -> Reverse(Chain(next, currNode)) \o Chain(next, nextEle)
      [] pc = "free"    -> <<>>

Contents == [i \in 1 .. Len(ListNodes) |-> text[value[ListNodes[i]]]]

(* An allocation may fail.                                                   *)
Unreliable == AllocationCanFail(heap) \/ heap.scarce

Abstract == INSTANCE QueueSpec WITH
    exists <- q # NULL /\ pc # "free",
    items  <- Contents,
    faulty <- Unreliable,
    Capacity <- Min({Cardinality(Node), Cardinality(Str)})

(* Every call of queue.c returns what the sequence would return and leaves   *)
(* the list holding what the sequence holds: insertions at the right end in  *)
(* the right order, removals from the head with a copy cut to the buffer,    *)
(* reversal taking effect at the end of its loop, failures changing nothing. *)
ImplementsSequence == Abstract!Spec
=============================================================================
