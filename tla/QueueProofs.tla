---------------------------- MODULE QueueProofs ----------------------------
(* The linked list of queue.c keeps its shape and implements a sequence of   *)
(* strings: proofs for every set of addresses, every string and every        *)
(* failure probability.                                                      *)
EXTENDS QueueRefinement, FiniteSetTheorems, SequenceTheorems, TLAPS

-----------------------------------------------------------------------------
(* The harness counts what it hands out and what it takes back.              *)

(* Memory being finite, so is what is live in it.                            *)
LEMMA LiveIsFinite ==
    ASSUME NEW h \in HeapOver(Block)
    PROVE  IsFiniteSet(h.live)
<1>1. IsFiniteSet(Block)
  BY FiniteMemory, FS_Union DEF Block
<1> QED BY <1>1, FS_Subset DEF HeapOver

(* test_malloc of a fresh block counts exactly that block.                   *)
LEMMA MallocCounts ==
    ASSUME NEW h \in HeapOver(Block), NEW p \in Block \ h.live
    PROVE  /\ TestMalloc(h, p) \in HeapOver(Block)
           /\ TestMalloc(h, p).live = h.live \cup {p}
           /\ AllocationCheck(TestMalloc(h, p)) = AllocationCheck(h) + 1
           /\ CountsLiveBlocks(h) => CountsLiveBlocks(TestMalloc(h, p))
<1>1. Cardinality(h.live \cup {p}) = Cardinality(h.live) + 1
  BY LiveIsFinite, FS_AddElement
<1>2. /\ TestMalloc(h, p).live = h.live \cup {p}
      /\ TestMalloc(h, p).allocated_count = h.allocated_count + 1
  BY DEF HeapOver, TestMalloc
<1>3. TestMalloc(h, p) \in HeapOver(Block)
  <2>1. /\ h.live \cup {p} \in SUBSET Block
        /\ h.allocated_count + 1 \in Nat
    BY DEF HeapOver
  <2> QED BY <2>1 DEF HeapOver, TestMalloc
<1> QED BY <1>1, <1>2, <1>3 DEF AllocationCheck, CountsLiveBlocks

(* test_free of a live block takes exactly that block out of the count.      *)
LEMMA FreeCounts ==
    ASSUME NEW h \in HeapOver(Block), NEW p \in h.live,
           AllocationCheck(h) # 0
    PROVE  /\ TestFree(h, p) \in HeapOver(Block)
           /\ TestFree(h, p).live = h.live \ {p}
           /\ AllocationCheck(TestFree(h, p)) = AllocationCheck(h) - 1
           /\ CountsLiveBlocks(h) => CountsLiveBlocks(TestFree(h, p))
<1>1. Cardinality(h.live \ {p}) = Cardinality(h.live) - 1
  BY LiveIsFinite, FS_RemoveElement
<1>2. /\ TestFree(h, p).live = h.live \ {p}
      /\ TestFree(h, p).allocated_count = h.allocated_count - 1
  BY DEF HeapOver, TestFree
<1>3. h.allocated_count \in Nat \ {0}
  BY DEF HeapOver, AllocationCheck
<1>4. TestFree(h, p) \in HeapOver(Block)
  <2>1. /\ h.live \ {p} \in SUBSET Block
        /\ h.allocated_count - 1 \in Nat
    BY <1>3 DEF HeapOver
  <2> QED BY <2>1 DEF HeapOver, TestFree
<1> QED BY <1>1, <1>2, <1>4 DEF AllocationCheck, CountsLiveBlocks

(* Releasing the block just obtained restores the heap: the error path of an *)
(* insertion whose string could not be allocated leaks nothing.              *)
LEMMA MallocThenFree ==
    ASSUME NEW h \in HeapOver(Block), NEW p \in Block \ h.live
    PROVE  TestFree(TestMalloc(h, p), p) = h
<1>1. (h.live \cup {p}) \ {p} = h.live
  OBVIOUS
<1>2. (h.allocated_count + 1) - 1 = h.allocated_count
  BY DEF HeapOver
<1> QED BY <1>1, <1>2 DEF HeapOver, TestFree, TestMalloc
-----------------------------------------------------------------------------
(* The list through each operation.                                          *)

(* A node and a string that are not live belong to no element of the list.   *)
LEMMA FreshBlocks ==
    ASSUME NEW s, NEW k \in Nat, NEW l \in Nat, NEW n, NEW t,
           heap.live = {q} \cup Blocks(s, k, l),
           n \notin heap.live, t \notin heap.live
    PROVE  \A i \in k .. l : s[i] # n /\ value[s[i]] # t
BY DEF Blocks

(* After queue_insert_head the list is the old one behind the new node, and  *)
(* no string but the new one is written.                                     *)
LEMMA InsertHeadKeepsList ==
    ASSUME TypeOK, NEW s \in [1 .. size -> Node], WellFormed(s),
           NEW n \in Free(Node), NEW t \in Free(Str), NEW x \in Text,
           NewElement(n, t, x), InsertAtHead(n)
    PROVE  \E z \in [1 .. size' -> Node] :
              /\ WellFormed(z)'
              /\ \A i \in 1 .. size' : text'[value'[z[i]]]
                    = IF i = 1 THEN x ELSE text[value[s[i - 1]]]
<1>1. size \in Nat /\ size' = size + 1 /\ q' = q /\ q \in Header
  BY DEF TypeOK, NewElement, WellFormed
<1>2. PICK z \in [1 .. size + 1 -> Node] :
           z = [i \in 1 .. size + 1 |-> IF i = 1 THEN n ELSE s[i - 1]]
  <2>1. \A i \in 1 .. size + 1 : i # 1 => i - 1 \in 1 .. size
    BY <1>1
  <2>2. \A i \in 1 .. size + 1 : (IF i = 1 THEN n ELSE s[i - 1]) \in Node
    BY <2>1 DEF Free
  <2> QED BY <2>2
<1>3. /\ \A i \in 1 .. size : s[i] \in Node /\ s[i] # n /\ value[s[i]] # t
      /\ \A i \in 1 .. size : value[s[i]] \in Str /\ text[value[s[i]]] \in Text
  BY <1>1, FreshBlocks DEF Free, WellFormed, Owns
<1>4. /\ z[1] = n
      /\ \A i \in 2 .. size + 1 : z[i] = s[i - 1] /\ i - 1 \in 1 .. size
      /\ \A i \in 1 .. size : z[i + 1] = s[i] /\ i + 1 \in 2 .. size + 1
  BY <1>1, <1>2
<1>5. /\ value'[n] = t /\ text'[t] = x /\ next'[n] = head
      /\ \A i \in 1 .. size : /\ value'[s[i]] = value[s[i]]
                              /\ text'[value[s[i]]] = text[value[s[i]]]
                              /\ next'[s[i]] = next[s[i]]
  BY <1>3 DEF TypeOK, NewElement, InsertAtHead, Free
<1>6. Owns(z, 1, size)'
  <2>1. \A i \in 1 .. size' : value'[z[i]] \in Str /\ text'[value'[z[i]]] \in Text
    <3> TAKE i \in 1 .. size'
    <3>1. CASE i = 1
      BY <3>1, <1>4, <1>5 DEF Free
    <3>2. CASE i # 1
      <4>1. i \in 2 .. size + 1
        BY <3>2, <1>1
      <4> QED BY <4>1, <1>3, <1>4, <1>5
    <3> QED BY <3>1, <3>2
  <2>2. \A i, j \in 1 .. size' : i # j => z[i] # z[j] /\ value'[z[i]] # value'[z[j]]
    <3> SUFFICES ASSUME NEW i \in 1 .. size', NEW j \in 1 .. size', i < j
                 PROVE  z[i] # z[j] /\ value'[z[i]] # value'[z[j]]
      BY <1>1
    <3>1. j \in 2 .. size + 1 /\ (i = 1 \/ i \in 2 .. size + 1)
      BY <1>1
    <3>2. CASE i = 1
      BY <3>1, <3>2, <1>3, <1>4, <1>5
    <3>3. CASE i \in 2 .. size + 1
      <4>1. i - 1 # j - 1 /\ i - 1 \in 1 .. size /\ j - 1 \in 1 .. size
        BY <3>1, <3>3, <1>1
      <4>2. s[i - 1] # s[j - 1] /\ value[s[i - 1]] # value[s[j - 1]]
        BY <4>1 DEF WellFormed, Owns
      <4> QED BY <4>1, <4>2, <3>1, <3>3, <1>4, <1>5
    <3> QED BY <3>1, <3>2, <3>3
  <2> QED BY <2>1, <2>2 DEF Owns
<1>7. LinkedForward(z, 1)'
  BY <1>1, <1>3, <1>4, <1>5 DEF WellFormed, LinkedForward
<1>8. heap'.live = {q} \cup Blocks(s, 1, size) \cup {n, t}
  BY DEF TypeOK, HeapOver, NewElement, TestMalloc, WellFormed
<1>9. Blocks(z, 1, size)' = Blocks(s, 1, size) \cup {n, t}
  <2>1. {z[i] : i \in 1 .. size'} = {s[i] : i \in 1 .. size} \cup {n}
    <3>1. /\ \A i \in 1 .. size' : \/ z[i] = n
                                   \/ i - 1 \in 1 .. size /\ z[i] = s[i - 1]
          /\ \A i \in 1 .. size : i + 1 \in 1 .. size' /\ z[i + 1] = s[i]
          /\ 1 \in 1 .. size' /\ z[1] = n
      BY <1>1, <1>4
    <3> QED BY <3>1
  <2>2. {value'[z[i]] : i \in 1 .. size'} = {value[s[i]] : i \in 1 .. size} \cup {t}
    <3>1. /\ \A i \in 1 .. size' : \/ value'[z[i]] = t
                                   \/ /\ i - 1 \in 1 .. size
                                      /\ value'[z[i]] = value[s[i - 1]]
          /\ \A i \in 1 .. size : /\ i + 1 \in 1 .. size'
                                  /\ value'[z[i + 1]] = value[s[i]]
          /\ 1 \in 1 .. size' /\ value'[z[1]] = t
      BY <1>1, <1>4, <1>5
    <3> QED BY <3>1
  <2> QED BY <2>1, <2>2 DEF Blocks
<1>10. WellFormed(z)'
  BY <1>1, <1>4, <1>6, <1>7, <1>8, <1>9 DEF WellFormed, InsertAtHead
<1>11. \A i \in 1 .. size' : text'[value'[z[i]]]
           = IF i = 1 THEN x ELSE text[value[s[i - 1]]]
  <2>1. \A i \in 1 .. size' : i # 1 => i \in 2 .. size + 1
    BY <1>1
  <2> QED BY <2>1, <1>4, <1>5
<1> QED BY <1>1, <1>2, <1>10, <1>11

(* After queue_insert_tail the list is the old one before the new node, and  *)
(* no string but the new one is written.                                     *)
LEMMA InsertTailKeepsList ==
    ASSUME TypeOK, NEW s \in [1 .. size -> Node], WellFormed(s),
           NEW n \in Free(Node), NEW t \in Free(Str), NEW x \in Text,
           NewElement(n, t, x), InsertAtTail(n)
    PROVE  \E z \in [1 .. size' -> Node] :
              /\ WellFormed(z)'
              /\ \A i \in 1 .. size' : text'[value'[z[i]]]
                    = IF i = size' THEN x ELSE text[value[s[i]]]
<1>1. size \in Nat /\ size' = size + 1 /\ q' = q /\ q \in Header
  BY DEF TypeOK, NewElement, WellFormed
<1>2. PICK z \in [1 .. size + 1 -> Node] :
           z = [i \in 1 .. size + 1 |-> IF i = size + 1 THEN n ELSE s[i]]
  <2>1. \A i \in 1 .. size + 1 : i # size + 1 => i \in 1 .. size
    BY <1>1
  <2>2. \A i \in 1 .. size + 1 : (IF i = size + 1 THEN n ELSE s[i]) \in Node
    BY <2>1 DEF Free
  <2> QED BY <2>2
<1>3. /\ \A i \in 1 .. size : s[i] \in Node /\ s[i] # n /\ value[s[i]] # t
      /\ \A i \in 1 .. size : value[s[i]] \in Str /\ text[value[s[i]]] \in Text
  BY <1>1, FreshBlocks DEF Free, WellFormed, Owns
<1>4. /\ z[size + 1] = n
      /\ \A i \in 1 .. size : z[i] = s[i] /\ i # size + 1 /\ i \in 1 .. size'
      /\ \A i \in 1 .. size' : i = size + 1 \/ i \in 1 .. size
      /\ size + 1 \in 1 .. size'
  BY <1>1, <1>2
<1>5. /\ value'[n] = t /\ text'[t] = x
      /\ \A i \in 1 .. size : /\ value'[s[i]] = value[s[i]]
                              /\ text'[value[s[i]]] = text[value[s[i]]]
  BY <1>3 DEF TypeOK, NewElement, Free
<1>6. /\ next'[n] = NULL
      /\ \A i \in 1 .. size :
           next'[s[i]] = IF i = size THEN n ELSE next[s[i]]
  <2>1. CASE size = 0
    BY <2>1 DEF TypeOK, InsertAtTail, Free
  <2>2. CASE size # 0
    <3>1. size \in 1 .. size /\ tail = s[size] /\ tail \in Node /\ tail # n
      BY <2>2, <1>1, <1>3 DEF WellFormed
    <3>2. \A i \in 1 .. size : s[i] = tail <=> i = size
      BY <3>1 DEF WellFormed, Owns
    <3> QED BY <2>2, <3>1, <3>2, <1>3 DEF TypeOK, InsertAtTail, Free
  <2> QED BY <2>1, <2>2
<1>7. Owns(z, 1, size)'
  <2>1. \A i \in 1 .. size' : value'[z[i]] \in Str /\ text'[value'[z[i]]] \in Text
    BY <1>3, <1>4, <1>5 DEF Free
  <2>2. \A i, j \in 1 .. size' : i # j => z[i] # z[j] /\ value'[z[i]] # value'[z[j]]
    <3> SUFFICES ASSUME NEW i \in 1 .. size', NEW j \in 1 .. size', i < j
                 PROVE  z[i] # z[j] /\ value'[z[i]] # value'[z[j]]
      BY <1>1
    <3>1. i \in 1 .. size /\ (j = size + 1 \/ j \in 1 .. size) /\ i # j
      BY <1>1
    <3>2. CASE j = size + 1
      BY <3>1, <3>2, <1>3, <1>4, <1>5
    <3>3. CASE j \in 1 .. size
      <4>1. s[i] # s[j] /\ value[s[i]] # value[s[j]]
        BY <3>1, <3>3 DEF WellFormed, Owns
      <4> QED BY <4>1, <3>1, <3>3, <1>4, <1>5
    <3> QED BY <3>1, <3>2, <3>3
  <2> QED BY <2>1, <2>2 DEF Owns
<1>8. LinkedForward(z, 1)'
  <2> SUFFICES ASSUME NEW i \in 1 .. size'
               PROVE  next'[z[i]] = IF i = size' THEN NULL ELSE z[i + 1]
    BY DEF LinkedForward
  <2>1. CASE i = size + 1
    BY <2>1, <1>1, <1>4, <1>6
  <2>2. CASE i \in 1 .. size
    BY <2>2, <1>1, <1>4, <1>6 DEF WellFormed, LinkedForward
  <2> QED BY <2>1, <2>2, <1>4
<1>9. heap'.live = {q} \cup Blocks(s, 1, size) \cup {n, t}
  BY DEF TypeOK, HeapOver, NewElement, TestMalloc, WellFormed
<1>10. Blocks(z, 1, size)' = Blocks(s, 1, size) \cup {n, t}
  <2>1. {z[i] : i \in 1 .. size'} = {s[i] : i \in 1 .. size} \cup {n}
    BY <1>4
  <2>2. {value'[z[i]] : i \in 1 .. size'} = {value[s[i]] : i \in 1 .. size} \cup {t}
    BY <1>4, <1>5
  <2> QED BY <2>1, <2>2 DEF Blocks
<1>11. /\ head' = IF size' = 0 THEN NULL ELSE z[1]
       /\ tail' = IF size' = 0 THEN NULL ELSE z[size']
  BY <1>1, <1>4 DEF WellFormed, InsertAtTail
<1>12. WellFormed(z)'
  BY <1>1, <1>2, <1>7, <1>8, <1>9, <1>10, <1>11 DEF WellFormed
<1>13. \A i \in 1 .. size' : text'[value'[z[i]]]
           = IF i = size' THEN x ELSE text[value[s[i]]]
  BY <1>1, <1>4, <1>5
<1> QED BY <1>1, <1>2, <1>12, <1>13

(* Taking the head out leaves the list of the nodes after it, and gives back *)
(* exactly the two blocks of the head.                                       *)
LEMMA RemoveHeadKeepsList ==
    ASSUME TypeOK, NEW s \in [1 .. size -> Node], WellFormed(s), size # 0,
           Unlink, Release(head)
    PROVE  \E z \in [1 .. size' -> Node] :
              /\ WellFormed(z)'
              /\ \A i \in 1 .. size' : text'[value'[z[i]]] = text[value[s[i + 1]]]
<1>1. size \in Nat \ {0} /\ size' = size - 1 /\ q' = q /\ q \in Header
  BY DEF TypeOK, Unlink, WellFormed
<1>2. PICK z \in [1 .. size - 1 -> Node] :
           z = [i \in 1 .. size - 1 |-> s[i + 1]]
  <2>1. \A i \in 1 .. size - 1 : i + 1 \in 1 .. size
    BY <1>1
  <2> QED BY <2>1
<1>3. /\ head = s[1] /\ 1 \in 1 .. size /\ head \in Node
      /\ \A i \in 1 .. size' : z[i] = s[i + 1] /\ i + 1 \in 2 .. size
      /\ \A i \in 2 .. size : i - 1 \in 1 .. size' /\ z[i - 1] = s[i]
      /\ \A i \in 2 .. size : i \in 1 .. size
  BY <1>1, <1>2 DEF WellFormed
<1>4. /\ value[head] \in Str
      /\ \A i \in 2 .. size : /\ s[i] \in Node /\ s[i] # head
                              /\ value[s[i]] \in Str /\ value[s[i]] # value[head]
                              /\ text[value[s[i]]] \in Text
  BY <1>1, <1>3 DEF WellFormed, Owns
<1>5. \A i \in 2 .. size : /\ value'[s[i]] = value[s[i]]
                          /\ text'[value[s[i]]] = text[value[s[i]]]
                          /\ next'[s[i]] = next[s[i]]
  BY <1>3, <1>4 DEF TypeOK, Release
<1>6. Owns(z, 1, size)'
  <2>1. \A i \in 1 .. size' : value'[z[i]] \in Str /\ text'[value'[z[i]]] \in Text
    BY <1>3, <1>4, <1>5
  <2>2. \A i, j \in 1 .. size' : i # j => z[i] # z[j] /\ value'[z[i]] # value'[z[j]]
    <3> TAKE i, j \in 1 .. size'
    <3>1. i # j => s[i + 1] # s[j + 1] /\ value[s[i + 1]] # value[s[j + 1]]
      BY <1>1, <1>3 DEF WellFormed, Owns
    <3> QED BY <3>1, <1>3, <1>5
  <2> QED BY <2>1, <2>2 DEF Owns
<1>7. LinkedForward(z, 1)'
  <2> SUFFICES ASSUME NEW i \in 1 .. size'
               PROVE  next'[z[i]] = IF i = size' THEN NULL ELSE z[i + 1]
    BY DEF LinkedForward
  <2>1. next[s[i + 1]] = IF i + 1 = size THEN NULL ELSE s[i + 2]
    BY <1>1, <1>3 DEF WellFormed, LinkedForward
  <2> QED BY <2>1, <1>1, <1>3, <1>5
<1>8. /\ heap'.live = heap.live \ {head, value[head]}
      /\ value[head] \in heap.live /\ head \in heap.live
  <2> DEFINE h == TestFree(heap, value[head])
  <2>1. h.live = heap.live \ {value[head]} /\ DOMAIN h = DOMAIN heap /\ "live" \in DOMAIN heap
    BY DEF TypeOK, HeapOver, TestFree
  <2>2. heap' = [h EXCEPT !.live = @ \ {head}, !.allocated_count = @ - 1]
    BY DEF Release, TestFree
  <2>3. heap'.live = h.live \ {head}
    BY <2>1, <2>2
  <2>4. value[head] \in heap.live /\ head \in heap.live
    BY <1>3 DEF WellFormed, Blocks
  <2> QED BY <2>1, <2>3, <2>4
<1>9. heap'.live = {q} \cup Blocks(z, 1, size)'
  <2>1. /\ q # head /\ q # value[head]
        /\ \A i \in 2 .. size : s[i] # value[head] /\ value[s[i]] # head
    BY <1>1, <1>3, <1>4, AddressAssumption
  <2>2. {s[i] : i \in 1 .. size} \ {head, value[head]} = {z[i] : i \in 1 .. size'}
    <3>1. \A i \in 1 .. size : i = 1 \/ i \in 2 .. size
      BY <1>1
    <3>2. \A i \in 1 .. size' : i + 1 \in 1 .. size
      BY <1>3
    <3> QED BY <2>1, <3>1, <3>2, <1>3, <1>4
  <2>3. {value[s[i]] : i \in 1 .. size} \ {head, value[head]}
           = {value'[z[i]] : i \in 1 .. size'}
    <3>1. \A i \in 1 .. size : i = 1 \/ i \in 2 .. size
      BY <1>1
    <3>2. \A i \in 1 .. size' : i + 1 \in 1 .. size
      BY <1>3
    <3> QED BY <2>1, <3>1, <3>2, <1>3, <1>4, <1>5
  <2> QED BY <2>1, <2>2, <2>3, <1>8 DEF WellFormed, Blocks
<1>10. /\ head' = IF size' = 0 THEN NULL ELSE z[1]
       /\ tail' = IF size' = 0 THEN NULL ELSE z[size']
  <2>1. CASE size = 1
    BY <2>1, <1>1 DEF Unlink
  <2>2. CASE size # 1
    <3>1. next[s[1]] = s[2] /\ 1 \in 1 .. size' /\ size' \in 1 .. size'
      BY <2>2, <1>1 DEF WellFormed, LinkedForward
    <3> QED BY <2>2, <3>1, <1>1, <1>3 DEF WellFormed, Unlink
  <2> QED BY <2>1, <2>2
<1>11. WellFormed(z)'
  BY <1>1, <1>2, <1>6, <1>7, <1>9, <1>10 DEF WellFormed
<1>12. \A i \in 1 .. size' : text'[value'[z[i]]] = text[value[s[i + 1]]]
  BY <1>3, <1>5
<1> QED BY <1>1, <1>2, <1>11, <1>12

(* One iteration of queue_reverse turns one more node round.                 *)
LEMMA ReverseStepKeepsNodes ==
    ASSUME TypeOK, ReverseStep,
           NEW s \in [1 .. size -> Node], NEW k \in 1 .. size, Reversing(s, k)
    PROVE  k + 1 \in 1 .. size /\ Reversing(s, k + 1)'
<1>1. size \in Nat /\ size' = size /\ nextEle = s[k] /\ s[k] \in Node
  BY DEF TypeOK, ReverseStep, Reversing, header
<1>2. k # size /\ next[nextEle] = s[k + 1]
  BY <1>1 DEF ReverseStep, Reversing, LinkedForward
<1>3. k + 1 \in 1 .. size
  BY <1>1, <1>2
<1>4. \A i \in 1 .. size : i # k => s[i] # s[k]
  BY DEF Reversing, Owns
<1>5. \A i \in 1 .. size : next'[s[i]] = IF i = k THEN currNode ELSE next[s[i]]
  BY <1>1, <1>4 DEF TypeOK, ReverseStep
<1>6. \A i \in 1 .. (k + 1) - 1 :
         next'[s[i]] = IF i = 1 THEN NULL ELSE s[i - 1]
  BY <1>1, <1>3, <1>5, SMTT(30) DEF Reversing
<1>7. LinkedForward(s, k + 1)'
  BY <1>1, <1>3, <1>5 DEF Reversing, LinkedForward
<1>8. nextEle' = s[k + 1] /\ currNode' = s[(k + 1) - 1] /\ k + 1 # 1
  BY <1>1, <1>2 DEF ReverseStep
<1> QED
  BY <1>1, <1>3, <1>6, <1>7, <1>8
  DEF ReverseStep, Reversing, Owns, Blocks, header

(* When the loop ends the list runs backwards from its last node.            *)
LEMMA ReverseEndReverses ==
    ASSUME TypeOK, ReverseEnd,
           NEW s \in [1 .. size -> Node], NEW k \in 1 .. size, Reversing(s, k)
    PROVE  \E z \in [1 .. size' -> Node] :
              /\ WellFormed(z)'
              /\ \A i \in 1 .. size' :
                    text'[value'[z[i]]] = text[value[s[size + 1 - i]]]
<1>1. /\ size \in Nat \ {0} /\ size' = size /\ nextEle = s[k] /\ s[k] \in Node
      /\ q' = q /\ q \in Header /\ value' = value /\ text' = text
      /\ tail' = tail /\ heap' = heap
  BY DEF TypeOK, ReverseEnd, Reversing
<1>2. k = size
  <2> SUFFICES ASSUME k # size PROVE FALSE
    OBVIOUS
  <2>1. next[s[k]] = s[k + 1] /\ k + 1 \in 1 .. size
    BY <1>1 DEF Reversing, LinkedForward
  <2> QED BY <2>1, <1>1, AddressAssumption DEF ReverseEnd, Block
<1>3. PICK z \in [1 .. size -> Node] :
           z = [i \in 1 .. size |-> s[size + 1 - i]]
  <2>1. \A i \in 1 .. size : size + 1 - i \in 1 .. size
    BY <1>1
  <2> QED BY <2>1
<1>4. /\ \A i \in 1 .. size : /\ size + 1 - i \in 1 .. size
                             /\ z[i] = s[size + 1 - i]
                             /\ z[size + 1 - i] = s[i]
      /\ z[1] = s[size] /\ z[size] = s[1]
  BY <1>1, <1>3
<1>5. \A i \in 1 .. size : i # size => s[i] # s[size]
  BY <1>1 DEF Reversing, Owns
<1>6. \A i \in 1 .. size : next'[s[i]] = IF i = 1 THEN NULL ELSE s[i - 1]
  <2>1. \A i \in 1 .. size : next'[s[i]] = IF i = size THEN currNode ELSE next[s[i]]
    BY <1>1, <1>2, <1>5 DEF TypeOK, ReverseEnd
  <2> QED BY <2>1, <1>1, <1>2 DEF Reversing
<1>7. Owns(z, 1, size)'
  <2>1. \A i \in 1 .. size : value[z[i]] \in Str /\ text[value[z[i]]] \in Text
    BY <1>4, ZenonT(30) DEF Reversing, Owns
  <2>2. \A i, j \in 1 .. size : i # j => z[i] # z[j] /\ value[z[i]] # value[z[j]]
    <3> TAKE i, j \in 1 .. size
    <3>1. i # j => size + 1 - i # size + 1 - j
      BY <1>1
    <3>2. size + 1 - i \in 1 .. size /\ size + 1 - j \in 1 .. size
      BY <1>4
    <3>3. i # j => /\ s[size + 1 - i] # s[size + 1 - j]
                   /\ value[s[size + 1 - i]] # value[s[size + 1 - j]]
      BY <3>1, <3>2 DEF Reversing, Owns
    <3> QED BY <3>3, <1>4
  <2> QED BY <2>1, <2>2, <1>1 DEF Owns
<1>8. LinkedForward(z, 1)'
  <2> SUFFICES ASSUME NEW i \in 1 .. size
               PROVE  next'[z[i]] = IF i = size THEN NULL ELSE z[i + 1]
    BY <1>1 DEF LinkedForward
  <2>1. next'[z[i]] = IF size + 1 - i = 1 THEN NULL ELSE s[size + 1 - i - 1]
    <3>1. PICK j \in 1 .. size : j = size + 1 - i
      BY <1>1
    <3>2. z[i] = s[j]
      BY <3>1, <1>4
    <3> QED BY <3>1, <3>2, <1>1, <1>6
  <2>2. i # size => z[i + 1] = s[size + 1 - (i + 1)]
    BY <1>1, <1>4
  <2> QED BY <2>1, <2>2, <1>1
<1>9. Blocks(z, 1, size)' = Blocks(s, 1, size)
  <2>1. {z[i] : i \in 1 .. size} = {s[i] : i \in 1 .. size}
    <3>1. \A i \in 1 .. size : z[i] \in {s[j] : j \in 1 .. size}
      BY <1>4
    <3>2. \A i \in 1 .. size : s[i] \in {z[j] : j \in 1 .. size}
      BY <1>4
    <3> QED BY <3>1, <3>2
  <2>2. {value[z[i]] : i \in 1 .. size} = {value[s[i]] : i \in 1 .. size}
    <3>1. \A i \in 1 .. size : /\ size + 1 - i \in 1 .. size
                             /\ value[z[i]] = value[s[size + 1 - i]]
                             /\ value[z[size + 1 - i]] = value[s[i]]
      BY <1>4
    <3>2. \A i \in 1 .. size : value[z[i]] \in {value[s[j]] : j \in 1 .. size}
      BY <3>1, SMTT(30)
    <3>3. \A i \in 1 .. size : value[s[i]] \in {value[z[j]] : j \in 1 .. size}
      BY <3>1
    <3> QED BY <3>2, <3>3
  <2> QED BY <2>1, <2>2, <1>1 DEF Blocks
<1>10. head' = z[1] /\ tail' = z[size]
  BY <1>1, <1>2, <1>4 DEF ReverseEnd, Reversing
<1>11. WellFormed(z)'
  BY <1>1, <1>7, <1>8, <1>9, <1>10 DEF WellFormed, Reversing
<1>12. \A i \in 1 .. size' : text'[value'[z[i]]] = text[value[s[size + 1 - i]]]
  BY <1>1, <1>4
<1> QED BY <1>1, <1>11, <1>12

(* One iteration of queue_free gives back the node it stands on, its string  *)
(* and nothing else.                                                         *)
LEMMA FreeStepKeepsRest ==
    ASSUME TypeOK, FreeStep,
           NEW s \in [1 .. size -> Node], NEW k \in 1 .. size + 1, Freeing(s, k)
    PROVE  /\ k \in 1 .. size /\ currEle = s[k] /\ value[currEle] \in Str
           /\ currEle \in heap.live /\ value[currEle] \in heap.live
           /\ k + 1 \in 1 .. size + 1
           /\ currEle' = IF k + 1 > size THEN NULL ELSE s[k + 1]
           /\ Owns(s, k + 1, size)'
           /\ LinkedForward(s, k + 1)'
           /\ heap.live \ {value[currEle], currEle}
                 = {q} \cup Blocks(s, k + 1, size)'
<1>1. size \in Nat /\ size' = size /\ q' = q /\ q \in Header
  BY DEF TypeOK, FreeStep, Freeing, header
<1>2. k \in 1 .. size /\ currEle = s[k] /\ s[k] \in Node /\ k + 1 \in 1 .. size + 1
  BY <1>1 DEF FreeStep, Freeing
<1>3. /\ value[s[k]] \in Str
      /\ \A i \in k + 1 .. size : /\ i \in k .. size /\ s[i] \in Node /\ s[i] # s[k]
                                 /\ value[s[i]] \in Str
                                 /\ value[s[i]] # value[s[k]]
  <2>1. Owns(s, k, size)
    BY DEF Freeing
  <2>2. k \in k .. size /\ value[s[k]] \in Str
    BY <1>1, <1>2, <2>1 DEF Owns
  <2> SUFFICES ASSUME NEW i \in k + 1 .. size
               PROVE  /\ i \in k .. size /\ s[i] \in Node /\ s[i] # s[k]
                      /\ value[s[i]] \in Str /\ value[s[i]] # value[s[k]]
    BY <2>2
  <2>3. i \in k .. size /\ i \in 1 .. size /\ i # k
    BY <1>1, <1>2
  <2>4. s[i] \in Node
    BY <2>3
  <2>5. s[i] # s[k] /\ value[s[i]] \in Str /\ value[s[i]] # value[s[k]]
    BY <2>1, <2>2, <2>3 DEF Owns
  <2> QED BY <2>3, <2>4, <2>5
<1>4. \A i \in k + 1 .. size : /\ value'[s[i]] = value[s[i]]
                             /\ text'[value[s[i]]] = text[value[s[i]]]
                             /\ next'[s[i]] = next[s[i]]
  BY <1>2, <1>3 DEF TypeOK, FreeStep, Release
<1>5. Owns(s, k + 1, size)'
  BY <1>1, <1>3, <1>4 DEF Freeing, Owns
<1>6. LinkedForward(s, k + 1)'
  BY <1>1, <1>2, <1>3, <1>4 DEF Freeing, LinkedForward
<1>7. currEle' = IF k + 1 > size THEN NULL ELSE s[k + 1]
  BY <1>1, <1>2 DEF FreeStep, Freeing, LinkedForward
<1>8. heap.live \ {value[currEle], currEle} = {q} \cup Blocks(s, k + 1, size)'
  <2>1. \A i \in k .. size : i = k \/ i \in k + 1 .. size
    BY <1>2
  <2>2. /\ q # s[k] /\ q # value[s[k]]
        /\ \A i \in k + 1 .. size : s[i] # value[s[k]] /\ value[s[i]] # s[k]
    BY <1>1, <1>2, <1>3, AddressAssumption
  <2>3. {s[i] : i \in k .. size} \ {value[s[k]], s[k]} = {s[i] : i \in k + 1 .. size}
    BY <2>1, <2>2, <1>3
  <2>4. {value[s[i]] : i \in k .. size} \ {value[s[k]], s[k]}
           = {value'[s[i]] : i \in k + 1 .. size}
    BY <2>1, <2>2, <1>3, <1>4
  <2> QED BY <2>2, <2>3, <2>4, <1>1, <1>2 DEF Freeing, Blocks
<1>9. currEle \in heap.live /\ value[currEle] \in heap.live
  BY <1>1, <1>2 DEF Freeing, Blocks
<1> QED BY <1>2, <1>3, <1>5, <1>6, <1>7, <1>8, <1>9
-----------------------------------------------------------------------------
(* The inductive invariant: the conjunction of the invariants, each of which *)
(* needs the others.                                                         *)
Inv ==
    /\ TypeOK
    /\ ListWellFormed
    /\ ReverseKeepsNodes
    /\ FreeKeepsRest
    /\ Balanced

(* A step between two idle states that touches neither the list nor the set  *)
(* of live blocks.                                                           *)
LEMMA ListUntouched ==
    ASSUME Inv, pc = "idle", UNCHANGED <<header, list, locals>>,
           heap' \in HeapOver(Block), heap'.live = heap.live,
           AllocationCheck(heap') = AllocationCheck(heap),
           ret' \in Returned
    PROVE  Inv'
<1>1. /\ q' = q /\ head' = head /\ tail' = tail /\ size' = size
      /\ next' = next /\ value' = value /\ text' = text
      /\ nextEle' = nextEle /\ currNode' = currNode /\ currEle' = currEle
      /\ pc' = pc
  BY DEF header, list, locals
<1>2. TypeOK'
  BY <1>1 DEF Inv, TypeOK
<1>3. ListWellFormed'
  <2>1. CASE q = NULL
    BY <2>1, <1>1 DEF Inv, ListWellFormed, NoQueue
  <2>2. CASE q # NULL
    <3>1. PICK s \in [1 .. size -> Node] : WellFormed(s)
      BY <2>2 DEF Inv, ListWellFormed
    <3>2. WellFormed(s)'
      BY <3>1, <1>1 DEF WellFormed, Owns, LinkedForward, Blocks
    <3> QED BY <2>2, <3>2, <1>1 DEF ListWellFormed
  <2> QED BY <2>1, <2>2
<1>4. ReverseKeepsNodes' /\ FreeKeepsRest'
  BY <1>1 DEF ReverseKeepsNodes, FreeKeepsRest
<1>5. Balanced'
  BY <1>1 DEF Inv, Balanced, CountsLiveBlocks, AllocationCheck
<1> QED BY <1>2, <1>3, <1>4, <1>5 DEF Inv

(* What the functions return has the type of ret.                            *)
LEMMA ResultTypes ==
    /\ Failed \in Returned
    /\ Succeeded \in Returned
    /\ \A x \in Text, b \in Nat \ {0} :
          Copied(Prefix(x, b - 1), b) \in Returned
<1>1. \A x \in Text, b \in Nat \ {0} : Prefix(x, b - 1) \in Seq(Char)
  <2> TAKE x \in Text, b \in Nat \ {0}
  <2>1. x \in Seq(Char)
    BY InputAssumption
  <2>2. \A k \in 0 .. Len(x) : SubSeq(x, 1, k) \in Seq(Char)
    BY <2>1
  <2> QED BY <2>1, <2>2 DEF Prefix
<1> QED BY <1>1 DEF Failed, Succeeded, Copied, Returned

(* A successful insertion at either end.                                     *)
LEMMA InsertKeepsInv ==
    ASSUME Inv, pc = "idle", UNCHANGED locals,
           NEW n \in Free(Node), NEW t \in Free(Str), NEW x \in Text,
           NewElement(n, t, x), InsertAtHead(n) \/ InsertAtTail(n)
    PROVE  Inv'
<1>1. /\ q' = q /\ q \in Header /\ pc' = "idle" /\ size \in Nat /\ size' = size + 1
      /\ nextEle' = nextEle /\ currNode' = currNode /\ currEle' = currEle
  BY DEF Inv, TypeOK, NewElement, locals
<1>2. PICK s \in [1 .. size -> Node] : WellFormed(s)
  BY <1>1, AddressAssumption DEF Inv, ListWellFormed, Block
<1>3. \E z \in [1 .. size' -> Node] : WellFormed(z)'
  BY <1>2, InsertHeadKeepsList, InsertTailKeepsList DEF Inv
<1>4. /\ heap' \in HeapOver(Block)
      /\ AllocationCheck(heap') = AllocationCheck(heap) + 2
      /\ CountsLiveBlocks(heap')
  <2>1. n \in Block \ heap.live /\ t \in Block \ heap.live /\ t # n
    BY AddressAssumption DEF Free, Block
  <2>2. /\ TestMalloc(heap, n) \in HeapOver(Block)
        /\ TestMalloc(heap, n).live = heap.live \cup {n}
        /\ AllocationCheck(TestMalloc(heap, n)) = AllocationCheck(heap) + 1
        /\ CountsLiveBlocks(TestMalloc(heap, n))
    BY <2>1, MallocCounts DEF Inv, TypeOK, Balanced
  <2>3. t \in Block \ TestMalloc(heap, n).live
    BY <2>1, <2>2
  <2> DEFINE h == TestMalloc(heap, n)
  <2>4. /\ TestMalloc(h, t) \in HeapOver(Block)
        /\ AllocationCheck(TestMalloc(h, t)) = AllocationCheck(h) + 1
        /\ CountsLiveBlocks(TestMalloc(h, t))
    <3>1. h \in HeapOver(Block) /\ t \in Block \ h.live /\ CountsLiveBlocks(h)
      BY <2>2, <2>3
    <3> HIDE DEF h
    <3> QED BY <3>1, MallocCounts
  <2>5. AllocationCheck(heap) \in Nat
    BY DEF Inv, TypeOK, HeapOver, AllocationCheck
  <2> QED BY <2>2, <2>4, <2>5 DEF NewElement
<1>5. TypeOK'
  <2>1. /\ head' \in Node \cup {NULL} /\ tail' \in Node \cup {NULL}
        /\ next' \in [Node -> Node \cup {NULL, FILL}]
    BY DEF Inv, TypeOK, InsertAtHead, InsertAtTail, Free
  <2>2. /\ value' \in [Node -> Str \cup {FILL}]
        /\ text' \in [Str -> Text \cup {FILL}]
        /\ ret' \in Returned
    BY ResultTypes DEF Inv, TypeOK, NewElement, Free
  <2> QED BY <2>1, <2>2, <1>1, <1>4 DEF Inv, TypeOK
<1>6. ListWellFormed' /\ ReverseKeepsNodes' /\ FreeKeepsRest'
  BY <1>1, <1>3, AddressAssumption
  DEF ListWellFormed, ReverseKeepsNodes, FreeKeepsRest, Block
<1>7. Balanced'
  BY <1>1, <1>4, AddressAssumption DEF Inv, Balanced, Block, CountsLiveBlocks
<1> QED BY <1>5, <1>6, <1>7 DEF Inv

(* A successful removal.                                                     *)
LEMMA RemoveKeepsInv ==
    ASSUME Inv, pc = "idle", UNCHANGED locals, q # NULL, size # 0,
           Unlink, Release(head),
           ret' \in Returned
    PROVE  Inv'
<1>1. /\ q' = q /\ q \in Header /\ pc' = "idle"
      /\ size \in Nat \ {0} /\ size' = size - 1
      /\ nextEle' = nextEle /\ currNode' = currNode /\ currEle' = currEle
  BY DEF Inv, TypeOK, Unlink, locals
<1>2. PICK s \in [1 .. size -> Node] : WellFormed(s)
  BY DEF Inv, ListWellFormed
<1>3. PICK z \in [1 .. size' -> Node] : WellFormed(z)'
  BY <1>1, <1>2, RemoveHeadKeepsList DEF Inv
<1>4. /\ head = s[1] /\ head \in Node /\ value[head] \in Str
      /\ head \in heap.live /\ value[head] \in heap.live /\ value[head] # head
  BY <1>1, <1>2, AddressAssumption DEF WellFormed, Owns, Blocks
<1>5. AllocationCheck(heap) = 1 + 2 * size
  BY <1>1, AddressAssumption DEF Inv, Balanced, Block
<1>6. /\ heap' \in HeapOver(Block)
      /\ AllocationCheck(heap') = AllocationCheck(heap) - 2
      /\ CountsLiveBlocks(heap')
  <2> DEFINE h == TestFree(heap, value[head])
  <2>1. /\ h \in HeapOver(Block)
        /\ h.live = heap.live \ {value[head]}
        /\ AllocationCheck(h) = AllocationCheck(heap) - 1
        /\ CountsLiveBlocks(h)
    BY <1>1, <1>4, <1>5, FreeCounts DEF Inv, TypeOK, Balanced
  <2>2. head \in h.live /\ AllocationCheck(h) # 0
    BY <2>1, <1>1, <1>4, <1>5
  <2>3. heap' = TestFree(h, head)
    BY DEF Release
  <2> HIDE DEF h
  <2>4. /\ TestFree(h, head) \in HeapOver(Block)
        /\ AllocationCheck(TestFree(h, head)) = AllocationCheck(h) - 1
        /\ CountsLiveBlocks(TestFree(h, head))
    BY <2>1, <2>2, FreeCounts
  <2> QED BY <2>1, <2>3, <2>4, <1>1, <1>5
<1>7. TypeOK'
  <2>1. head' \in Node \cup {NULL} /\ tail' \in Node \cup {NULL}
    BY <1>1, <1>3 DEF WellFormed
  <2>2. /\ next' \in [Node -> Node \cup {NULL, FILL}]
        /\ value' \in [Node -> Str \cup {FILL}]
        /\ text' \in [Str -> Text \cup {FILL}]
    BY DEF Inv, TypeOK, Release
  <2> QED BY <2>1, <2>2, <1>1, <1>6 DEF Inv, TypeOK
<1>8. ListWellFormed' /\ ReverseKeepsNodes' /\ FreeKeepsRest'
  BY <1>1, <1>3 DEF ListWellFormed, ReverseKeepsNodes, FreeKeepsRest
<1>9. Balanced'
  BY <1>1, <1>5, <1>6, AddressAssumption DEF Balanced, Block
<1> QED BY <1>7, <1>8, <1>9 DEF Inv

(* queue_reverse.                                                            *)
LEMMA ReverseKeepsInv ==
    ASSUME Inv, QueueReverse \/ ReverseStep \/ ReverseEnd
    PROVE  Inv'
<1>1. CASE QueueReverse
  <2>1. CASE q = NULL \/ size = 0
    <3>1. UNCHANGED <<header, list, locals, heap, ret>>
      BY <1>1, <2>1 DEF QueueReverse, header, list, locals
    <3> QED BY <1>1, <3>1, ListUntouched DEF QueueReverse, Inv, TypeOK
  <2>2. CASE q # NULL /\ size # 0
    <3>1. PICK s \in [1 .. size -> Node] : WellFormed(s)
      BY <1>1, <2>2 DEF Inv, ListWellFormed, QueueReverse
    <3>2. /\ size \in Nat \ {0} /\ 1 \in 1 .. size /\ q' = q /\ size' = size
          /\ head' = head /\ heap' = heap /\ next' = next /\ value' = value
          /\ text' = text /\ nextEle' = head /\ tail' = head
          /\ currNode' = NULL /\ currEle' = currEle /\ pc' = "reverse" /\ ret' = ret
      BY <1>1, <2>2 DEF Inv, TypeOK, QueueReverse, list
    <3>3. AllocationCheck(heap) = 1 + 2 * size
      BY <1>1, <2>2 DEF Inv, Balanced, QueueReverse
    <3>4. Reversing(s, 1)'
      BY <3>1, <3>2, <3>3
      DEF WellFormed, Reversing, Owns, LinkedForward, Blocks, AllocationCheck
    <3>5. TypeOK'
      BY <3>1, <3>2 DEF Inv, TypeOK, WellFormed
    <3>6. ReverseKeepsNodes'
      BY <3>2, <3>4 DEF ReverseKeepsNodes
    <3> QED
      BY <3>2, <3>5, <3>6
      DEF Inv, ListWellFormed, FreeKeepsRest, Balanced, CountsLiveBlocks
  <2> QED BY <2>1, <2>2
<1>2. CASE ReverseStep
  <2>1. PICK s \in [1 .. size -> Node], k \in 1 .. size : Reversing(s, k)
    BY <1>2 DEF Inv, ReverseKeepsNodes, ReverseStep
  <2>2. k + 1 \in 1 .. size /\ Reversing(s, k + 1)'
    BY <1>2, <2>1, ReverseStepKeepsNodes DEF Inv
  <2>3. /\ q' = q /\ head' = head /\ tail' = tail /\ size' = size /\ heap' = heap
        /\ value' = value /\ text' = text /\ currEle' = currEle /\ ret' = ret
        /\ pc' = "reverse" /\ currNode' = nextEle
        /\ next' = [next EXCEPT ![nextEle] = currNode]
    BY <1>2 DEF ReverseStep, header
  <2>4. TypeOK'
    <3>1. nextEle' \in Node
      BY <2>2, <2>3 DEF Reversing
    <3> QED BY <3>1, <2>3 DEF Inv, TypeOK
  <2>5. ReverseKeepsNodes'
    BY <2>2, <2>3 DEF ReverseKeepsNodes
  <2> QED
    BY <2>3, <2>4, <2>5
    DEF Inv, ListWellFormed, FreeKeepsRest, Balanced, CountsLiveBlocks
<1>3. CASE ReverseEnd
  <2>1. PICK s \in [1 .. size -> Node], k \in 1 .. size : Reversing(s, k)
    BY <1>3 DEF Inv, ReverseKeepsNodes, ReverseEnd
  <2>2. \E z \in [1 .. size' -> Node] : WellFormed(z)'
    BY <1>3, <2>1, ReverseEndReverses DEF Inv
  <2>3. /\ q' = q /\ tail' = tail /\ size' = size /\ heap' = heap
        /\ value' = value /\ text' = text /\ currEle' = currEle /\ ret' = ret
        /\ pc' = "idle" /\ head' = nextEle /\ nextEle' = NULL /\ currNode' = NULL
        /\ next' = [next EXCEPT ![nextEle] = currNode] /\ q \in Header
    BY <1>3, <2>1 DEF ReverseEnd, Reversing
  <2>4. TypeOK'
    BY <2>3 DEF Inv, TypeOK
  <2>5. ListWellFormed'
    BY <2>2, <2>3, AddressAssumption DEF ListWellFormed, Block
  <2>6. Balanced'
    BY <2>1, <2>3, AddressAssumption
    DEF Inv, Balanced, CountsLiveBlocks, Reversing, Block
  <2> QED BY <2>3, <2>4, <2>5, <2>6 DEF Inv, ReverseKeepsNodes, FreeKeepsRest
<1> QED BY <1>1, <1>2, <1>3

(* queue_free.                                                               *)
LEMMA FreeKeepsInv ==
    ASSUME Inv, QueueFree \/ FreeStep \/ FreeEnd
    PROVE  Inv'
<1>1. CASE QueueFree
  <2>1. CASE q = NULL
    <3>1. UNCHANGED <<header, list, locals, heap, ret>>
      BY <1>1, <2>1 DEF QueueFree, locals
    <3> QED BY <1>1, <3>1, ListUntouched DEF QueueFree, Inv, TypeOK
  <2>2. CASE q # NULL
    <3>1. PICK s \in [1 .. size -> Node] : WellFormed(s)
      BY <1>1, <2>2 DEF Inv, ListWellFormed, QueueFree
    <3>2. /\ size \in Nat /\ 1 \in 1 .. size + 1 /\ q' = q /\ size' = size
          /\ head' = head /\ tail' = tail /\ heap' = heap /\ next' = next
          /\ value' = value /\ text' = text /\ nextEle' = nextEle
          /\ currNode' = currNode /\ pc' = "free" /\ ret' = ret
          /\ currEle' = IF size # 0 THEN head ELSE NULL
      BY <1>1, <2>2 DEF Inv, TypeOK, QueueFree, list, header
    <3>3. AllocationCheck(heap) = 1 + 2 * (size - 1 + 1)
      BY <1>1, <2>2, <3>2 DEF Inv, Balanced, QueueFree
    <3>4. Freeing(s, 1)'
      BY <3>1, <3>2, <3>3
      DEF WellFormed, Freeing, Owns, LinkedForward, Blocks, AllocationCheck
    <3>5. TypeOK'
      BY <3>1, <3>2 DEF Inv, TypeOK, WellFormed
    <3>6. FreeKeepsRest'
      BY <3>2, <3>4 DEF FreeKeepsRest
    <3> QED
      BY <3>2, <3>5, <3>6
      DEF Inv, ListWellFormed, ReverseKeepsNodes, Balanced, CountsLiveBlocks
  <2> QED BY <2>1, <2>2
<1>2. CASE FreeStep
  <2>1. PICK s \in [1 .. size -> Node], k \in 1 .. size + 1 : Freeing(s, k)
    BY <1>2 DEF Inv, FreeKeepsRest, FreeStep
  <2>2. /\ k \in 1 .. size /\ currEle = s[k] /\ value[currEle] \in Str
        /\ currEle \in heap.live /\ value[currEle] \in heap.live
        /\ k + 1 \in 1 .. size + 1
        /\ currEle' = IF k + 1 > size THEN NULL ELSE s[k + 1]
        /\ Owns(s, k + 1, size)'
        /\ LinkedForward(s, k + 1)'
        /\ heap.live \ {value[currEle], currEle}
              = {q} \cup Blocks(s, k + 1, size)'
    BY <1>2, <2>1, FreeStepKeepsRest DEF Inv
  <2>3. /\ q' = q /\ head' = head /\ tail' = tail /\ size' = size
        /\ nextEle' = nextEle /\ currNode' = currNode /\ ret' = ret
        /\ pc' = "free" /\ size \in Nat /\ q \in Header /\ currEle \in Node
    BY <1>2, <2>1, <2>2 DEF Inv, TypeOK, FreeStep, header, Freeing
  <2>4. AllocationCheck(heap) = 1 + 2 * (size - k + 1)
    BY <2>1 DEF Freeing
  <2>5. /\ heap' \in HeapOver(Block)
        /\ heap'.live = heap.live \ {value[currEle], currEle}
        /\ AllocationCheck(heap') = AllocationCheck(heap) - 2
        /\ CountsLiveBlocks(heap')
    <3> DEFINE h == TestFree(heap, value[currEle])
    <3>1. /\ h \in HeapOver(Block)
          /\ h.live = heap.live \ {value[currEle]}
          /\ AllocationCheck(h) = AllocationCheck(heap) - 1
          /\ CountsLiveBlocks(h)
      BY <2>2, <2>3, <2>4, FreeCounts DEF Inv, TypeOK, Balanced
    <3>2. currEle \in h.live /\ AllocationCheck(h) # 0
      BY <3>1, <2>2, <2>3, <2>4, AddressAssumption
    <3>3. heap' = TestFree(h, currEle)
      BY <1>2 DEF FreeStep, Release
    <3> HIDE DEF h
    <3>4. /\ TestFree(h, currEle) \in HeapOver(Block)
          /\ TestFree(h, currEle).live = h.live \ {currEle}
          /\ AllocationCheck(TestFree(h, currEle)) = AllocationCheck(h) - 1
          /\ CountsLiveBlocks(TestFree(h, currEle))
      BY <3>1, <3>2, FreeCounts
    <3>5. AllocationCheck(heap) \in Nat
      BY DEF Inv, TypeOK, HeapOver, AllocationCheck
    <3> QED BY <3>1, <3>3, <3>4, <3>5
  <2>6. AllocationCheck(heap') = 1 + 2 * (size - (k + 1) + 1)
    BY <2>2, <2>3, <2>4, <2>5
  <2>7. Freeing(s, k + 1)'
    BY <2>2, <2>3, <2>5, <2>6 DEF Freeing
  <2>8. TypeOK'
    <3>1. /\ next' \in [Node -> Node \cup {NULL, FILL}]
          /\ value' \in [Node -> Str \cup {FILL}]
          /\ text' \in [Str -> Text \cup {FILL}]
      BY <1>2 DEF Inv, TypeOK, FreeStep, Release
    <3>2. currEle' \in Node \cup {NULL}
      BY <2>2, <2>3
    <3> QED BY <3>1, <3>2, <2>3, <2>5 DEF Inv, TypeOK
  <2>9. FreeKeepsRest'
    BY <2>2, <2>3, <2>7 DEF FreeKeepsRest
  <2> QED
    BY <2>3, <2>5, <2>8, <2>9
    DEF Inv, ListWellFormed, ReverseKeepsNodes, Balanced
<1>3. CASE FreeEnd
  <2>1. PICK s \in [1 .. size -> Node], k \in 1 .. size + 1 : Freeing(s, k)
    BY <1>3 DEF Inv, FreeKeepsRest, FreeEnd
  <2>2. size \in Nat /\ k = size + 1
    <3>1. size \in Nat /\ (k \in 1 .. size => s[k] \in Node)
      BY DEF Inv, TypeOK
    <3> QED
      BY <3>1, <1>3, <2>1, AddressAssumption DEF FreeEnd, Freeing, Block
  <2>3. heap.live = {q} /\ AllocationCheck(heap) = 1
    <3>1. k .. size = {}
      BY <2>2
    <3> QED BY <3>1, <2>1, <2>2 DEF Freeing, Blocks
  <2>4. /\ heap' \in HeapOver(Block) /\ heap'.live = {}
        /\ AllocationCheck(heap') = 0 /\ CountsLiveBlocks(heap')
    BY <1>3, <2>3, FreeCounts DEF Inv, TypeOK, Balanced, FreeEnd
  <2> QED
    BY <1>3, <2>4
    DEF FreeEnd, list, Inv, TypeOK, ListWellFormed, NoQueue,
        ReverseKeepsNodes, FreeKeepsRest, Balanced
<1> QED BY <1>1, <1>2, <1>3

(* queue_new.                                                                *)
LEMMA NewKeepsInv ==
    ASSUME Inv, QueueNew
    PROVE  Inv'
<1>1. CASE UNCHANGED <<header, heap>> /\ ret' = Failed
  BY <1>1, ResultTypes, ListUntouched DEF QueueNew, Inv, TypeOK
<1>2. ASSUME NEW h \in Free(Header),
             heap' = TestMalloc(heap, h), ret' = Succeeded,
             q' = h, head' = NULL, tail' = NULL, size' = 0
      PROVE  Inv'
  <2>1. /\ next' = next /\ value' = value /\ text' = text
        /\ nextEle' = nextEle /\ currNode' = currNode /\ currEle' = currEle
        /\ pc' = "idle" /\ pc = "idle" /\ q = NULL /\ h \in Header
    BY DEF QueueNew, list, locals, Free
  <2>2. heap.live = {} /\ AllocationCheck(heap) = 0
    BY <2>1 DEF Inv, ListWellFormed, NoQueue, Balanced
  <2>3. /\ heap' \in HeapOver(Block) /\ heap'.live = {h}
        /\ AllocationCheck(heap') = 1 /\ CountsLiveBlocks(heap')
    <3>1. heap \in HeapOver(Block) /\ h \in Block \ heap.live /\ CountsLiveBlocks(heap)
      BY <2>1, <2>2 DEF Inv, TypeOK, Balanced, Block
    <3>2. /\ TestMalloc(heap, h) \in HeapOver(Block)
          /\ TestMalloc(heap, h).live = heap.live \cup {h}
          /\ AllocationCheck(TestMalloc(heap, h)) = AllocationCheck(heap) + 1
          /\ CountsLiveBlocks(TestMalloc(heap, h))
      BY <3>1, MallocCounts
    <3> QED BY <3>2, <2>2, <1>2
  <2>4. TypeOK'
    BY <1>2, <2>1, <2>3, ResultTypes DEF Inv, TypeOK
  <2>5. ListWellFormed'
    <3>1. PICK s \in [1 .. 0 -> Node] : TRUE
      <4>1. [i \in 1 .. 0 |-> NULL] \in [1 .. 0 -> Node]
        OBVIOUS
      <4> QED BY <4>1
    <3>2. WellFormed(s)'
      BY <1>2, <2>1, <2>3 DEF WellFormed, Owns, LinkedForward, Blocks
    <3> QED BY <1>2, <2>1, <3>2, AddressAssumption DEF ListWellFormed, Block
  <2>6. Balanced'
    BY <1>2, <2>1, <2>3, AddressAssumption DEF Balanced, Block
  <2> QED BY <2>1, <2>4, <2>5, <2>6 DEF Inv, ReverseKeepsNodes, FreeKeepsRest
<1> QED BY <1>1, <1>2 DEF QueueNew

-----------------------------------------------------------------------------
(* Before queue_new there is no list and nothing is live.                    *)
LEMMA InitInv == Init => Inv
<1> SUFFICES ASSUME Init PROVE Inv
  OBVIOUS
<1>1. heap \in HeapOver(Block) /\ heap.live = {} /\ AllocationCheck(heap) = 0
  BY DEF Init, InitHeap, HeapOver, AllocationCheck
<1>2. CountsLiveBlocks(heap)
  BY <1>1, FS_EmptySet DEF CountsLiveBlocks, AllocationCheck
<1> QED
  BY <1>1, <1>2, ResultTypes
  DEF Init, Inv, TypeOK, ListWellFormed, NoQueue, ReverseKeepsNodes,
      FreeKeepsRest, Balanced

(* Every function of queue.c, and every step of its loops, keeps Inv.        *)
LEMMA NextInv == Inv /\ [Next]_vars => Inv'
<1> SUFFICES ASSUME Inv, [Next]_vars PROVE Inv'
  OBVIOUS
<1>1. CASE QueueNew
  BY <1>1, NewKeepsInv
<1>2. CASE QueueFree \/ FreeStep \/ FreeEnd
  BY <1>2, FreeKeepsInv
<1>3. CASE QueueReverse \/ ReverseStep \/ ReverseEnd
  BY <1>3, ReverseKeepsInv
<1>4. ASSUME pc = "idle", UNCHANGED locals, InsertFails
      PROVE  Inv'
  <2>1. heap' = heap
    <3>1. \A n \in Free(Node) : TestFree(TestMalloc(heap, n), n) = heap
      BY MallocThenFree DEF Inv, TypeOK, Free, Block
    <3> QED BY <1>4, <3>1 DEF InsertFails
  <2> QED BY <1>4, <2>1, ResultTypes, ListUntouched DEF InsertFails, Inv, TypeOK
<1>5. ASSUME NEW x \in Text, QueueInsertHead(x) \/ QueueInsertTail(x)
      PROVE  Inv'
  BY <1>4, <1>5, InsertKeepsInv DEF QueueInsertHead, QueueInsertTail
<1>6. ASSUME NEW b \in BufSizes, QueueRemoveHead(b)
      PROVE  Inv'
  <2>1. CASE RemoveFails
    BY <1>6, <2>1, ResultTypes, ListUntouched
    DEF QueueRemoveHead, RemoveFails, Inv, TypeOK
  <2>2. CASE ~RemoveFails
    <3>1. /\ pc = "idle" /\ UNCHANGED locals /\ q # NULL /\ size # 0
          /\ Unlink /\ Release(head)
          /\ ret' = IF b = 0 THEN Succeeded
                    ELSE Copied(Prefix(text[value[head]], b - 1), b)
      BY <1>6, <2>2 DEF QueueRemoveHead
    <3>2. b \in Nat
      BY InputAssumption
    <3>3. text[value[head]] \in Text
      <4>1. PICK s \in [1 .. size -> Node] : WellFormed(s)
        BY <3>1 DEF Inv, ListWellFormed
      <4>2. 1 \in 1 .. size
        BY <3>1 DEF Inv, TypeOK
      <4> QED BY <3>1, <4>1, <4>2 DEF WellFormed, Owns
    <3>4. ret' \in Returned
      BY <3>1, <3>2, <3>3, ResultTypes
    <3> QED BY <3>1, <3>4, RemoveKeepsInv
  <2> QED BY <2>1, <2>2
<1>7. CASE QueueSize
  <2>1. ret' \in Returned
    BY <1>7 DEF QueueSize, Counted, Returned, Inv, TypeOK
  <2> QED BY <1>7, <2>1, ListUntouched DEF QueueSize, Inv, TypeOK
<1>8. ASSUME NEW p \in FailProbabilities, SetFailProbability(p)
      PROVE  Inv'
  <2>1. /\ heap' \in HeapOver(Block) /\ heap'.live = heap.live
        /\ heap'.allocated_count = heap.allocated_count
    BY <1>8, InputAssumption DEF SetFailProbability, Inv, TypeOK, HeapOver
  <2> QED
    BY <1>8, <2>1, ListUntouched
    DEF SetFailProbability, Inv, TypeOK, AllocationCheck
<1>9. CASE MemoryChanges \/ UNCHANGED vars
  <2>1. /\ q' = q /\ head' = head /\ tail' = tail /\ size' = size
        /\ next' = next /\ value' = value /\ text' = text
        /\ heap' \in HeapOver(Block) /\ heap'.live = heap.live
        /\ heap'.allocated_count = heap.allocated_count
        /\ nextEle' = nextEle /\ currNode' = currNode /\ currEle' = currEle
        /\ pc' = pc /\ ret' = ret
    BY <1>9 DEF MemoryChanges, vars, header, list, locals, Inv, TypeOK, HeapOver
  <2>2. CASE pc = "idle"
    BY <2>1, <2>2, ListUntouched DEF header, list, locals, Inv, TypeOK, AllocationCheck
  <2>3. CASE pc = "reverse"
    <3>1. PICK s \in [1 .. size -> Node], k \in 1 .. size : Reversing(s, k)
      BY <2>3 DEF Inv, ReverseKeepsNodes
    <3>2. Reversing(s, k)'
      BY <2>1, <3>1 DEF Reversing, Owns, LinkedForward, Blocks, AllocationCheck
    <3> QED
      BY <2>1, <2>3, <3>2
      DEF Inv, TypeOK, ListWellFormed, ReverseKeepsNodes, FreeKeepsRest, Balanced,
          CountsLiveBlocks
  <2>4. CASE pc = "free"
    <3>1. PICK s \in [1 .. size -> Node], k \in 1 .. size + 1 : Freeing(s, k)
      BY <2>4 DEF Inv, FreeKeepsRest
    <3>2. Freeing(s, k)'
      BY <2>1, <3>1 DEF Freeing, Owns, LinkedForward, Blocks, AllocationCheck
    <3> QED
      BY <2>1, <2>4, <3>2
      DEF Inv, TypeOK, ListWellFormed, ReverseKeepsNodes, FreeKeepsRest, Balanced,
          CountsLiveBlocks
  <2> QED BY <2>2, <2>3, <2>4 DEF Inv, TypeOK
<1> QED
  BY <1>1, <1>2, <1>3, <1>5, <1>6, <1>7, <1>8, <1>9 DEF Next

(* The inductive invariant holds throughout, for every set of addresses.     *)
THEOREM Invariance == Spec => []Inv
BY InitInv, NextInv, PTL DEF Spec

(* Every variable keeps its type, size never going below 0 in particular.    *)
THEOREM TypeCorrect == Spec => []TypeOK
<1>1. Inv => TypeOK
  BY DEF Inv
<1> QED BY <1>1, Invariance, PTL

(* Between calls the header describes one intact list, whose blocks are all  *)
(* the live ones: no node or string is lost, shared or used after free.      *)
THEOREM ListStaysWellFormed == Spec => []ListWellFormed
<1>1. Inv => ListWellFormed
  BY DEF Inv
<1> QED BY <1>1, Invariance, PTL

(* queue_reverse loses no node at any point of its loop.                     *)
THEOREM ReverseLosesNothing == Spec => []ReverseKeepsNodes
<1>1. Inv => ReverseKeepsNodes
  BY DEF Inv
<1> QED BY <1>1, Invariance, PTL

(* queue_free never reads or frees a block it has already given back.        *)
THEOREM FreeIsSafe == Spec => []FreeKeepsRest
<1>1. Inv => FreeKeepsRest
  BY DEF Inv
<1> QED BY <1>1, Invariance, PTL

(* The leak check of do_free is exact: the counter is the number of live     *)
(* blocks, and is 0 when there is no queue.                                  *)
THEOREM NoLeak == Spec => []Balanced
<1>1. Inv => Balanced
  BY DEF Inv
<1> QED BY <1>1, Invariance, PTL

-----------------------------------------------------------------------------
(* The refinement.  First, what Chain finds in a list: a chain is determined *)
(* by where it starts, and the list that next runs through is one.           *)

(* A set of numbers that is not empty has a least one.                       *)
LEMMA LeastNatural ==
    ASSUME NEW T \in SUBSET Nat, T # {}
    PROVE  \E m \in T : \A k \in T : m =< k
<1>1. PICK x \in T : \A y \in T : ~ (<<y, x>> \in OpToRel(<, Nat))
  BY NatLessThanWellFounded, WFMin
<1>2. \A y \in T : ~(y < x)
  BY <1>1 DEF OpToRel
<1> QED BY <1>2

(* There is at most one chain from p.                                        *)
LEMMA ChainUnique ==
    ASSUME NEW ptr, NEW p, NEW m \in Nat, NEW k \in Nat,
           NEW s \in [1 .. m -> Node], NEW z \in [1 .. k -> Node],
           IsChain(ptr, s, p), IsChain(ptr, z, p)
    PROVE  s = z
<1>1. /\ Len(s) = m /\ Len(z) = k
      /\ s = <<>> <=> m = 0
      /\ z = <<>> <=> k = 0
  OBVIOUS
<1>2. ASSUME NEW i \in 1 .. m, i \in 1 .. k, s[i] # z[i]
      PROVE  FALSE
  <2> DEFINE T == {j \in 1 .. m : j \in 1 .. k /\ s[j] # z[j]}
  <2>1. T \in SUBSET Nat /\ T # {}
    BY <1>2
  <2>2. PICK j \in T : \A l \in T : j =< l
    <3> HIDE DEF T
    <3> QED BY <2>1, LeastNatural
  <2>3. j # 1
    BY <2>2, <1>1 DEF IsChain
  <2>4. j - 1 \in 1 .. m - 1 /\ j - 1 \in 1 .. k - 1 /\ ~(j =< j - 1)
    BY <2>2, <2>3
  <2>5. s[j - 1] = z[j - 1]
    BY <2>2, <2>4
  <2>6. ptr[s[j - 1]] = s[j] /\ ptr[z[j - 1]] = z[j]
    BY <2>2, <2>4, <1>1 DEF IsChain
  <2> QED BY <2>2, <2>5, <2>6
<1>3. ASSUME m < k PROVE FALSE
  <2>1. CASE m = 0
    <3>1. 1 \in 1 .. k /\ p = z[1]
      BY <1>1, <1>3 DEF IsChain
    <3> QED BY <2>1, <3>1, <1>1 DEF IsChain
  <2>2. CASE m # 0
    <3>1. m \in 1 .. m /\ m \in 1 .. k - 1 /\ m + 1 \in 1 .. k
      BY <2>2, <1>3
    <3>2. s[m] = z[m] /\ ptr[s[m]] \notin Node /\ ptr[z[m]] = z[m + 1]
      BY <2>2, <3>1, <1>1, <1>2 DEF IsChain
    <3> QED BY <3>1, <3>2
  <2> QED BY <2>1, <2>2
<1>4. ASSUME k < m PROVE FALSE
  <2>1. CASE k = 0
    <3>1. 1 \in 1 .. m /\ p = s[1]
      BY <1>1, <1>4 DEF IsChain
    <3> QED BY <2>1, <3>1, <1>1 DEF IsChain
  <2>2. CASE k # 0
    <3>1. k \in 1 .. k /\ k \in 1 .. m - 1 /\ k + 1 \in 1 .. m
      BY <2>2, <1>4
    <3>2. s[k] = z[k] /\ ptr[z[k]] \notin Node /\ ptr[s[k]] = s[k + 1]
      BY <2>2, <3>1, <1>1, <1>2 DEF IsChain
    <3> QED BY <3>1, <3>2
  <2> QED BY <2>1, <2>2
<1> QED BY <1>2, <1>3, <1>4

(* Distinct nodes are no more than there are.                                *)
LEMMA NodesAreEnough ==
    ASSUME NEW m \in Nat, NEW s \in [1 .. m -> Node],
           \A i, j \in 1 .. m : i # j => s[i] # s[j]
    PROVE  m =< Cardinality(Node) /\ Cardinality(Node) \in Nat
<1>1. s \in Injection(1 .. m, Node)
  BY DEF Injection, IsInjective
<1>2. Cardinality(1 .. m) = m
  BY FS_Interval
<1> QED BY <1>1, <1>2, FS_Injection, FS_CardinalityType, FiniteMemory

(* The chain that a list of distinct nodes makes is that list.               *)
LEMMA ChainIsList ==
    ASSUME NEW ptr, NEW p, NEW m \in Nat, NEW s \in [1 .. m -> Node],
           \A i, j \in 1 .. m : i # j => s[i] # s[j],
           p = IF m = 0 THEN NULL ELSE s[1],
           \A i \in 1 .. m : ptr[s[i]] = IF i = m THEN NULL ELSE s[i + 1]
    PROVE  Chain(ptr, p) = s
<1> DEFINE C == BoundedSeq(Node, Cardinality(Node))
<1>1. m \in 0 .. Cardinality(Node) /\ Cardinality(Node) \in Nat
  BY NodesAreEnough
<1>2. s \in C
  BY <1>1 DEF BoundedSeq, SeqOf
<1>3. Len(s) = m /\ (s = <<>> <=> m = 0)
  OBVIOUS
<1>4. NULL \notin Node
  BY AddressAssumption DEF Block
<1>5. IsChain(ptr, s, p)
  BY <1>3, <1>4 DEF IsChain
<1>6. ASSUME NEW z \in C, IsChain(ptr, z, p)
      PROVE  z = s
  <2>1. PICK k \in 0 .. Cardinality(Node) : z \in [1 .. k -> Node]
    BY DEF BoundedSeq, SeqOf
  <2>2. k \in Nat
    BY <1>1
  <2> QED BY <2>1, <2>2, <1>5, <1>6, ChainUnique
<1> QED BY <1>2, <1>5, <1>6 DEF Chain

-----------------------------------------------------------------------------
(* What the queue holds, in each state of its functions.                     *)

(* The strings of a list, read off its nodes.                                *)
Strings(s) == [i \in 1 .. size |-> text[value[s[i]]]]

(* Nothing is met from NULL.                                                 *)
LEMMA EmptyChain ==
    ASSUME NEW ptr
    PROVE  Chain(ptr, NULL) = <<>>
<1>1. PICK m \in Nat : m = 0
  OBVIOUS
<1>2. PICK s : s = [i \in 1 .. m |-> NULL]
  OBVIOUS
<1>3. s \in [1 .. m -> Node] /\ s = <<>> /\ \A i \in 1 .. m : FALSE
  BY <1>1, <1>2
<1>4. Chain(ptr, NULL) = s
  BY <1>1, <1>3, ChainIsList
<1> QED BY <1>3, <1>4

(* From the head the nodes met are those of the list.                        *)
LEMMA ChainOfList ==
    ASSUME TypeOK, NEW s \in [1 .. size -> Node], WellFormed(s)
    PROVE  Chain(next, head) = s
BY ChainIsList DEF TypeOK, WellFormed, Owns, LinkedForward

(* What Contents is in each of the states the functions go through.          *)
ContentsAreStrings ==
    /\ pc = "free" => Contents = <<>>
    /\ pc = "idle" /\ q = NULL /\ NoQueue => Contents = <<>>
    /\ TypeOK /\ pc = "idle" =>
          \A s \in [1 .. size -> Node] : WellFormed(s) => Contents = Strings(s)
    /\ TypeOK /\ pc = "reverse" =>
          \A s \in [1 .. size -> Node], k \in 1 .. size :
             Reversing(s, k) => Contents = Strings(s)

LEMMA ContentsOfList == ContentsAreStrings
<1>1. pc = "free" => Contents = <<>>
  BY DEF Contents, ListNodes
<1>2. pc = "idle" /\ q = NULL /\ NoQueue => Contents = <<>>
  BY EmptyChain DEF NoQueue, Contents, ListNodes
<1>3. ASSUME TypeOK, pc = "idle", NEW s \in [1 .. size -> Node], WellFormed(s)
      PROVE  Contents = Strings(s)
  <2>1. Chain(next, head) = s
    BY <1>3, ChainOfList
  <2>2. Len(s) = size /\ ListNodes = s
    BY <1>3, <2>1 DEF TypeOK, ListNodes
  <2> QED BY <2>2 DEF Contents, Strings
<1>4. ASSUME TypeOK, pc = "reverse", NEW s \in [1 .. size -> Node],
             NEW k \in 1 .. size, Reversing(s, k)
      PROVE  Contents = Strings(s)
  <2>1. size \in Nat /\ k \in Nat /\ k - 1 \in Nat /\ size - k + 1 \in Nat
    BY <1>4 DEF TypeOK
  <2>2. \A i, j \in 1 .. size : i # j => s[i] # s[j]
    BY <1>4 DEF Reversing, Owns
  <2>3. PICK back \in [1 .. k - 1 -> Node] : back = [i \in 1 .. k - 1 |-> s[k - i]]
    <3>1. \A i \in 1 .. k - 1 : k - i \in 1 .. size
      BY <2>1
    <3> QED BY <3>1
  <2>4. PICK rest \in [1 .. size - k + 1 -> Node] :
             rest = [i \in 1 .. size - k + 1 |-> s[k - 1 + i]]
    <3>1. \A i \in 1 .. size - k + 1 : k - 1 + i \in 1 .. size
      BY <2>1
    <3> QED BY <3>1
  <2>5. Chain(next, currNode) = back
    <3>1. \A i, j \in 1 .. k - 1 : i # j => back[i] # back[j]
      <4> TAKE i, j \in 1 .. k - 1
      <4>1. k - i \in 1 .. size /\ k - j \in 1 .. size /\ (i # j => k - i # k - j)
        BY <2>1
      <4> QED BY <4>1, <2>2, <2>3
    <3>2. currNode = IF k - 1 = 0 THEN NULL ELSE back[1]
      BY <1>4, <2>1, <2>3 DEF Reversing
    <3>3. ASSUME NEW i \in 1 .. k - 1
          PROVE  next[back[i]] = IF i = k - 1 THEN NULL ELSE back[i + 1]
      <4>1. PICK j \in 1 .. k - 1 : j = k - i
        BY <2>1
      <4>2. next[s[j]] = IF j = 1 THEN NULL ELSE s[j - 1]
        BY <1>4 DEF Reversing
      <4>3. back[i] = s[j] /\ (i # k - 1 => back[i + 1] = s[j - 1])
        BY <4>1, <2>1, <2>3
      <4> QED BY <4>1, <4>2, <4>3, <2>1
    <3>4. PICK m \in Nat : m = k - 1
      BY <2>1
    <3>5. /\ back \in [1 .. m -> Node]
          /\ \A i, j \in 1 .. m : i # j => back[i] # back[j]
          /\ currNode = IF m = 0 THEN NULL ELSE back[1]
          /\ \A i \in 1 .. m : next[back[i]] = IF i = m THEN NULL ELSE back[i + 1]
      BY <3>1, <3>2, <3>3, <3>4
    <3> QED BY <3>5, ChainIsList
  <2>6. Chain(next, nextEle) = rest
    <3>1. \A i, j \in 1 .. size - k + 1 : i # j => rest[i] # rest[j]
      <4> TAKE i, j \in 1 .. size - k + 1
      <4>1. /\ k - 1 + i \in 1 .. size /\ k - 1 + j \in 1 .. size
            /\ i # j => k - 1 + i # k - 1 + j
        BY <2>1
      <4> QED BY <4>1, <2>2, <2>4
    <3>2. nextEle = IF size - k + 1 = 0 THEN NULL ELSE rest[1]
      BY <1>4, <2>1, <2>4 DEF Reversing
    <3>3. ASSUME NEW i \in 1 .. size - k + 1
          PROVE  next[rest[i]] = IF i = size - k + 1 THEN NULL ELSE rest[i + 1]
      <4>1. PICK j \in k .. size : j = k - 1 + i
        BY <2>1
      <4>2. next[s[j]] = IF j = size THEN NULL ELSE s[j + 1]
        BY <1>4 DEF Reversing, LinkedForward
      <4>3. rest[i] = s[j] /\ (i # size - k + 1 => rest[i + 1] = s[j + 1])
        BY <4>1, <2>1, <2>4, SMTT(30)
      <4> QED BY <4>1, <4>2, <4>3, <2>1
    <3> QED BY <3>1, <3>2, <3>3, <2>1, ChainIsList
  <2>7. Reverse(back) \o rest = s
    <3>1. Len(back) = k - 1 /\ Len(rest) = size - k + 1 /\ Len(s) = size
      BY <2>1
    <3>2. PICK front : front = [i \in 1 .. k - 1 |-> back[k - 1 - i + 1]]
      OBVIOUS
    <3>3. Reverse(back) = front
      BY <3>1, <3>2 DEF Reverse
    <3>4. \A i \in 1 .. k - 1 : k - 1 - i + 1 \in 1 .. k - 1 /\ front[i] = s[i]
      BY <2>1, <2>3, <3>2, SMTT(30)
    <3>5. front \in [1 .. k - 1 -> Node]
      BY <3>2, <3>4
    <3>6. front \in Seq(Node) /\ rest \in Seq(Node) /\ s \in Seq(Node) /\ Len(front) = k - 1
      BY <2>1, <3>5, SMTT(30)
    <3>7. \A i \in 1 .. size : s[i] = IF i =< k - 1 THEN front[i] ELSE rest[i - (k - 1)]
      BY <2>1, <2>4, <3>4, SMTT(30)
    <3>8. /\ front \o rest \in Seq(Node) /\ Len(front \o rest) = size
          /\ \A i \in 1 .. size : (front \o rest)[i] = s[i]
      BY <2>1, <3>1, <3>6, <3>7
    <3>9. front \o rest = s
      BY <3>1, <3>6, <3>8, SeqEqual
    <3> QED BY <3>3, <3>9
  <2>8. ListNodes = s /\ Len(s) = size
    BY <1>4, <2>1, <2>5, <2>6, <2>7 DEF ListNodes
  <2> QED BY <2>8 DEF Contents, Strings
<1> QED BY <1>1, <1>2, <1>3, <1>4 DEF ContentsAreStrings

LEMMA ContentsOfListNext == ContentsAreStrings'
BY ContentsOfList, PTL

(* An insertion can find no memory only when the list fills it: each of its  *)
(* elements has a node and a string, and nothing else is kept in either.     *)
LEMMA FullWhenNoneFree ==
    ASSUME TypeOK, NEW s \in [1 .. size -> Node], WellFormed(s),
           Free(Node) = {} \/ Free(Str) = {}
    PROVE  size = Min({Cardinality(Node), Cardinality(Str)})
<1>1. /\ size \in Nat /\ q \in Header
      /\ \A i \in 1 .. size : s[i] \in Node /\ value[s[i]] \in Str
      /\ \A i, j \in 1 .. size : i # j => s[i] # s[j] /\ value[s[i]] # value[s[j]]
      /\ heap.live = {q} \cup {s[i] : i \in 1 .. size} \cup {value[s[i]] : i \in 1 .. size}
  BY DEF TypeOK, WellFormed, Owns, Blocks
<1>2. PICK t \in [1 .. size -> Str] : t = [i \in 1 .. size |-> value[s[i]]]
  BY <1>1
<1>3. s \in Injection(1 .. size, Node) /\ t \in Injection(1 .. size, Str)
  BY <1>1, <1>2 DEF Injection, IsInjective
<1>4. Cardinality(1 .. size) = size
  BY <1>1, FS_Interval
<1>5. /\ Cardinality(Node) \in Nat /\ size =< Cardinality(Node)
      /\ Cardinality(Str) \in Nat /\ size =< Cardinality(Str)
      /\ s \in Surjection(1 .. size, Node) => size = Cardinality(Node)
      /\ t \in Surjection(1 .. size, Str) => size = Cardinality(Str)
  BY <1>3, <1>4, FS_Injection, FS_CardinalityType, FiniteMemory
<1>6. CASE Free(Node) = {}
  <2>1. \A n \in Node : \E i \in 1 .. size : s[i] = n
    BY <1>1, <1>6, AddressAssumption DEF Free
  <2>2. s \in Surjection(1 .. size, Node)
    BY <2>1 DEF Surjection
  <2> QED BY <1>5, <2>2 DEF Min
<1>7. CASE Free(Str) = {}
  <2>1. \A b \in Str : \E i \in 1 .. size : t[i] = b
    BY <1>1, <1>2, <1>7, AddressAssumption DEF Free
  <2>2. t \in Surjection(1 .. size, Str)
    BY <2>1 DEF Surjection
  <2> QED BY <1>5, <2>2 DEF Min
<1> QED BY <1>6, <1>7

(* A call that leaves the list and pc alone leaves what the queue holds.     *)
LEMMA SameContents ==
    ASSUME UNCHANGED <<header, list, locals>>
    PROVE  Contents' = Contents
BY DEF header, list, locals, Contents, ListNodes

(* Between calls, what the queue holds is a sequence of size strings.        *)
LEMMA IdleList ==
    ASSUME Inv, pc = "idle", q # NULL
    PROVE  \E s \in [1 .. size -> Node] :
              /\ WellFormed(s)
              /\ Contents = Strings(s)
              /\ Contents \in Seq(Text)
              /\ Len(Contents) = size
              /\ \A i \in 1 .. size : Contents[i] = text[value[s[i]]]
<1>1. PICK s \in [1 .. size -> Node] : WellFormed(s)
  BY DEF Inv, ListWellFormed
<1>2. Contents = Strings(s)
  BY <1>1, ContentsOfList DEF ContentsAreStrings, Inv
<1>3. /\ size \in Nat
      /\ \A i \in 1 .. size : text[value[s[i]]] \in Text
  BY <1>1 DEF Inv, TypeOK, WellFormed, Owns
<1>4. Strings(s) \in [1 .. size -> Text]
  BY <1>3 DEF Strings
<1>5. Strings(s) \in Seq(Text) /\ Len(Strings(s)) = size
  BY <1>3, <1>4
<1>6. \A i \in 1 .. size : Strings(s)[i] = text[value[s[i]]]
  BY DEF Strings
<1> QED BY <1>1, <1>2, <1>5, <1>6

(* The same after a step that ends between calls, of any list it leaves.     *)
LEMMA NextList ==
    ASSUME TypeOK', pc' = "idle", NEW z \in [1 .. size' -> Node], WellFormed(z)'
    PROVE  /\ Contents' \in Seq(Text)
           /\ Len(Contents') = size'
           /\ \A i \in 1 .. size' : Contents'[i] = text'[value'[z[i]]]
<1>1. Contents' = Strings(z)'
  BY ContentsOfListNext DEF ContentsAreStrings
<1>2. /\ size' \in Nat
      /\ \A i \in 1 .. size' : text'[value'[z[i]]] \in Text
  BY DEF TypeOK, WellFormed, Owns
<1>3. Strings(z)' \in [1 .. size' -> Text]
  BY <1>2 DEF Strings
<1>4. Strings(z)' \in Seq(Text) /\ Len(Strings(z)') = size'
  BY <1>2, <1>3
<1>5. \A i \in 1 .. size' : Strings(z)'[i] = text'[value'[z[i]]]
  BY DEF Strings
<1> QED BY <1>1, <1>4, <1>5

(* A queue of no element holds nothing, and neither does one that is gone or *)
(* is being released.                                                        *)
Empty == (pc = "idle" /\ size = 0) \/ pc = "free"

LEMMA NothingHeld == Inv /\ Empty => Contents = <<>>
<1> SUFFICES ASSUME Inv, Empty PROVE Contents = <<>>
  OBVIOUS
<1>1. CASE pc = "free"
  BY <1>1, ContentsOfList DEF ContentsAreStrings
<1>2. CASE pc = "idle" /\ q = NULL
  BY <1>2, ContentsOfList DEF ContentsAreStrings, Inv, ListWellFormed
<1>3. CASE pc = "idle" /\ q # NULL /\ size = 0
  BY <1>3, IdleList
<1> QED BY <1>1, <1>2, <1>3 DEF Empty

LEMMA NothingHeldNext == Inv' /\ Empty' => Contents' = <<>>
<1>1. (Inv /\ Empty => Contents = <<>>)'
  BY NothingHeld, PTL
<1> QED BY <1>1

-----------------------------------------------------------------------------
(* Each function does to the sequence what QueueSpec says of it.             *)

(* The results of queue.c are those of the abstract queue.                   *)
LEMMA SameResults ==
    /\ Failed = Abstract!Result(FALSE, NULL, 0, 0)
    /\ Succeeded = Abstract!Result(TRUE, NULL, 0, 0)
    /\ \A t, b : Copied(t, b) = Abstract!Result(TRUE, t, 0, b)
    /\ \A n : Counted(n) = Abstract!Result(TRUE, NULL, n, 0)
    /\ \A t, n : Prefix(t, n) = Abstract!Prefix(t, n)
BY DEF Failed, Succeeded, Copied, Counted, Prefix, Abstract!Result, Abstract!Prefix

(* queue_new.                                                                *)
LEMMA NewSimulated ==
    ASSUME Inv, Inv', QueueNew
    PROVE  Abstract!New
<1>1. /\ pc = "idle" /\ q = NULL /\ pc' = "idle"
      /\ heap'.fail_probability = heap.fail_probability
      /\ heap'.scarce = heap.scarce
  BY DEF QueueNew, locals, TestMalloc, Inv, TypeOK, HeapOver
<1>2. Contents = <<>>
  BY <1>1, NothingHeld DEF Empty, Inv, ListWellFormed, NoQueue
<1>3. CASE MallocFails(Header) /\ ret' = Failed /\ UNCHANGED <<header, heap>>
  <2>1. Contents' = Contents
    BY <1>3, SameContents DEF QueueNew
  <2>2. Free(Header) = Header /\ Header # {}
    BY <1>1, FiniteMemory DEF Inv, ListWellFormed, NoQueue, Free
  <2>3. Unreliable /\ Unreliable' = Unreliable
    BY <1>3, <2>2 DEF MallocFails, MemoryRunsOut, Unreliable
  <2> QED BY <1>1, <1>3, <2>1, <2>3, SameResults DEF Abstract!New, Abstract!Refuse, header
<1>4. CASE size' = 0 /\ ret' = Succeeded /\ q' \in Header
  <2>1. Contents' = <<>>
    BY <1>1, <1>4, NothingHeldNext DEF Empty
  <2>2. q' # NULL
    BY <1>4, AddressAssumption DEF Block
  <2> QED BY <1>1, <1>4, <2>1, <2>2, SameResults DEF Abstract!New, Unreliable, AllocationCanFail
<1> QED BY <1>3, <1>4 DEF QueueNew, Free

(* An insertion that returns false.                                          *)
LEMMA RefusalSimulated ==
    ASSUME Inv, pc = "idle", InsertFails, UNCHANGED locals, NEW newItems
    PROVE  Abstract!Insert(newItems)
<1>1. heap' = heap
  <2>1. \A n \in Free(Node) : TestFree(TestMalloc(heap, n), n) = heap
    BY MallocThenFree DEF Inv, TypeOK, Free, Block
  <2> QED BY <2>1 DEF InsertFails
<1>2. ret' = Failed /\ UNCHANGED <<header, list, locals>> /\ q' = q /\ pc' = pc
  BY DEF InsertFails, header, locals
<1>3. Contents' = Contents
  BY <1>2, SameContents
<1>4. ASSUME q # NULL, ~Unreliable
      PROVE  Len(Contents) = Min({Cardinality(Node), Cardinality(Str)})
  <2>1. Free(Node) = {} \/ Free(Str) = {}
    BY <1>4 DEF InsertFails, MallocFails, MemoryRunsOut, Unreliable
  <2> QED BY <1>4, <2>1, IdleList, FullWhenNoneFree DEF Inv
<1> QED BY <1>1, <1>2, <1>3, <1>4, SameResults DEF Abstract!Insert, Abstract!Refuse, Unreliable

(* queue_insert_head.                                                        *)
LEMMA InsertHeadSimulated ==
    ASSUME Inv, Inv', NEW x \in Text, QueueInsertHead(x)
    PROVE  Abstract!InsertHead(x)
<1>1. CASE InsertFails
  BY <1>1, RefusalSimulated DEF QueueInsertHead, Abstract!InsertHead
<1>2. ASSUME NEW n \in Free(Node), NEW t \in Free(Str),
             NewElement(n, t, x), InsertAtHead(n)
      PROVE  Abstract!InsertHead(x)
  <2>1. /\ pc = "idle" /\ pc' = "idle" /\ q # NULL /\ q' = q /\ ret' = Succeeded
        /\ heap'.fail_probability = heap.fail_probability
        /\ heap'.scarce = heap.scarce
        /\ size' = size + 1 /\ size \in Nat /\ TypeOK
    BY <1>2 DEF QueueInsertHead, NewElement, locals, TestMalloc, Inv, TypeOK, HeapOver
  <2>2. PICK s \in [1 .. size -> Node] :
           /\ WellFormed(s)
           /\ Contents \in Seq(Text) /\ Len(Contents) = size
           /\ \A i \in 1 .. size : Contents[i] = text[value[s[i]]]
    BY <2>1, IdleList
  <2>3. PICK z \in [1 .. size' -> Node] :
           /\ WellFormed(z)'
           /\ \A i \in 1 .. size' : text'[value'[z[i]]]
                 = IF i = 1 THEN x ELSE text[value[s[i - 1]]]
    <3>1. TypeOK /\ WellFormed(s) /\ NewElement(n, t, x) /\ InsertAtHead(n)
      BY <1>2, <2>1, <2>2
    <3> QED BY <3>1, InsertHeadKeepsList, ZenonT(60)
  <2>4. /\ Contents' \in Seq(Text) /\ Len(Contents') = size'
        /\ \A i \in 1 .. size' : Contents'[i] = text'[value'[z[i]]]
    BY <2>1, <2>3, NextList DEF Inv
  <2>5. Contents' = <<x>> \o Contents
    <3> DEFINE new == <<x>> \o Contents
    <3>1. /\ new \in Seq(Text) /\ Len(new) = size + 1
          /\ \A i \in 1 .. size + 1 : new[i] = IF i = 1 THEN x ELSE Contents[i - 1]
      BY <2>1, <2>2
    <3>2. \A i \in 1 .. size + 1 : i # 1 => i - 1 \in 1 .. size
      BY <2>1
    <3> HIDE DEF new
    <3>3. ASSUME NEW i \in 1 .. Len(Contents')
          PROVE  Contents'[i] = new[i]
      <4>1. i \in 1 .. size' /\ i \in 1 .. size + 1
        BY <2>1, <2>4
      <4>2. Contents'[i] = IF i = 1 THEN x ELSE text[value[s[i - 1]]]
        BY <2>3, <2>4, <4>1
      <4> QED BY <2>2, <3>1, <3>2, <4>1, <4>2
    <3>4. Contents' = new
      BY <2>1, <2>4, <3>1, <3>3, SeqEqual
    <3> QED BY <3>4 DEF new
  <2> QED BY <2>1, <2>5, SameResults DEF Abstract!InsertHead, Abstract!Insert, Unreliable, AllocationCanFail
<1> QED BY <1>1, <1>2 DEF QueueInsertHead

(* queue_insert_tail.                                                        *)
LEMMA InsertTailSimulated ==
    ASSUME Inv, Inv', NEW x \in Text, QueueInsertTail(x)
    PROVE  Abstract!InsertTail(x)
<1>1. CASE InsertFails
  BY <1>1, RefusalSimulated DEF QueueInsertTail, Abstract!InsertTail
<1>2. ASSUME NEW n \in Free(Node), NEW t \in Free(Str),
             NewElement(n, t, x), InsertAtTail(n)
      PROVE  Abstract!InsertTail(x)
  <2>1. /\ pc = "idle" /\ pc' = "idle" /\ q # NULL /\ q' = q /\ ret' = Succeeded
        /\ heap'.fail_probability = heap.fail_probability
        /\ heap'.scarce = heap.scarce
        /\ size' = size + 1 /\ size \in Nat /\ TypeOK
    BY <1>2 DEF QueueInsertTail, NewElement, locals, TestMalloc, Inv, TypeOK, HeapOver
  <2>2. PICK s \in [1 .. size -> Node] :
           /\ WellFormed(s)
           /\ Contents \in Seq(Text) /\ Len(Contents) = size
           /\ \A i \in 1 .. size : Contents[i] = text[value[s[i]]]
    BY <2>1, IdleList
  <2>3. PICK z \in [1 .. size' -> Node] :
           /\ WellFormed(z)'
           /\ \A i \in 1 .. size' : text'[value'[z[i]]]
                 = IF i = size' THEN x ELSE text[value[s[i]]]
    <3>1. TypeOK /\ WellFormed(s) /\ NewElement(n, t, x) /\ InsertAtTail(n)
      BY <1>2, <2>1, <2>2
    <3> QED BY <3>1, InsertTailKeepsList, ZenonT(60)
  <2>4. /\ Contents' \in Seq(Text) /\ Len(Contents') = size'
        /\ \A i \in 1 .. size' : Contents'[i] = text'[value'[z[i]]]
    BY <2>1, <2>3, NextList DEF Inv
  <2>5. Contents' = Append(Contents, x)
    <3> DEFINE new == Append(Contents, x)
    <3>1. /\ new \in Seq(Text) /\ Len(new) = size + 1
          /\ \A i \in 1 .. size + 1 : new[i] = IF i = size + 1 THEN x ELSE Contents[i]
      BY <2>1, <2>2
    <3>2. \A i \in 1 .. size + 1 : i # size + 1 => i \in 1 .. size
      BY <2>1
    <3> HIDE DEF new
    <3>3. ASSUME NEW i \in 1 .. Len(Contents')
          PROVE  Contents'[i] = new[i]
      <4>1. i \in 1 .. size' /\ i \in 1 .. size + 1 /\ (i = size' <=> i = size + 1)
        BY <2>1, <2>4
      <4>2. Contents'[i] = IF i = size + 1 THEN x ELSE text[value[s[i]]]
        BY <2>3, <2>4, <4>1
      <4> QED BY <2>2, <3>1, <3>2, <4>1, <4>2
    <3>4. Contents' = new
      BY <2>1, <2>4, <3>1, <3>3, SeqEqual
    <3> QED BY <3>4 DEF new
  <2> QED BY <2>1, <2>5, SameResults DEF Abstract!InsertTail, Abstract!Insert, Unreliable, AllocationCanFail
<1> QED BY <1>1, <1>2 DEF QueueInsertTail
(* queue_remove_head.                                                        *)
LEMMA RemoveHeadSimulated ==
    ASSUME Inv, Inv', NEW b \in BufSizes, QueueRemoveHead(b)
    PROVE  Abstract!RemoveHead(b)
<1>1. CASE RemoveFails
  <2>1. /\ pc = "idle" /\ pc' = pc /\ q' = q /\ heap' = heap /\ ret' = Failed
        /\ q = NULL \/ size = 0
        /\ UNCHANGED <<header, list, locals>>
    BY <1>1 DEF QueueRemoveHead, RemoveFails, header, locals
  <2>2. Contents = <<>>
    BY <2>1, NothingHeld DEF Empty, Inv, ListWellFormed, NoQueue
  <2> QED BY <2>1, <2>2, SameContents, SameResults DEF Abstract!RemoveHead, Abstract!Refuse, Unreliable
<1>2. CASE ~RemoveFails
  <2>1. /\ pc = "idle" /\ pc' = "idle" /\ q # NULL /\ q' = q /\ size # 0
        /\ Unlink /\ Release(head) /\ size' = size - 1 /\ size \in Nat \ {0}
        /\ TypeOK
        /\ ret' = IF b = 0 THEN Succeeded
                  ELSE Copied(Prefix(text[value[head]], b - 1), b)
    BY <1>2 DEF QueueRemoveHead, Unlink, locals, Inv, TypeOK
  <2>2. /\ heap'.fail_probability = heap.fail_probability
        /\ heap'.scarce = heap.scarce
    BY <2>1 DEF Release, TestFree, TypeOK, HeapOver
  <2>3. PICK s \in [1 .. size -> Node] :
           /\ WellFormed(s)
           /\ Contents \in Seq(Text) /\ Len(Contents) = size
           /\ \A i \in 1 .. size : Contents[i] = text[value[s[i]]]
    BY <2>1, IdleList
  <2>4. PICK z \in [1 .. size' -> Node] :
           /\ WellFormed(z)'
           /\ \A i \in 1 .. size' : text'[value'[z[i]]] = text[value[s[i + 1]]]
    BY <2>1, <2>3, RemoveHeadKeepsList
  <2>5. /\ Contents' \in Seq(Text) /\ Len(Contents') = size'
        /\ \A i \in 1 .. size' : Contents'[i] = text'[value'[z[i]]]
    BY <2>1, <2>4, NextList DEF Inv
  <2>6. Contents # <<>> /\ Head(Contents) = text[value[head]]
    <3>1. 1 \in 1 .. size /\ head = s[1]
      BY <2>1, <2>3 DEF WellFormed
    <3> QED BY <2>1, <2>3, <3>1
  <2>7. Contents' = Tail(Contents)
    <3> DEFINE rest == Tail(Contents)
    <3>1. /\ rest \in Seq(Text) /\ Len(rest) = size - 1
          /\ \A i \in 1 .. size - 1 : rest[i] = Contents[i + 1]
      BY <2>1, <2>3, <2>6
    <3>2. \A i \in 1 .. size - 1 : i + 1 \in 1 .. size
      BY <2>1
    <3> HIDE DEF rest
    <3>3. \A i \in 1 .. Len(Contents') : Contents'[i] = rest[i]
      BY <2>1, <2>3, <2>4, <2>5, <3>1, <3>2
    <3>4. Contents' = rest
      BY <2>1, <2>5, <3>1, <3>3, SeqEqual
    <3> QED BY <3>4 DEF rest
  <2> QED
    BY <2>1, <2>2, <2>6, <2>7, SameResults DEF Abstract!RemoveHead, Unreliable, AllocationCanFail
<1> QED BY <1>1, <1>2

(* queue_size.                                                               *)
LEMMA SizeSimulated ==
    ASSUME Inv, QueueSize
    PROVE  Abstract!Size
<1>1. /\ pc = "idle" /\ pc' = pc /\ q' = q /\ heap' = heap
      /\ UNCHANGED <<header, list, locals>>
      /\ ret' = Counted(IF q = NULL \/ size = 0 THEN 0 ELSE size)
  BY DEF QueueSize, header, locals
<1>2. Len(Contents) = IF q = NULL \/ size = 0 THEN 0 ELSE size
  <2>1. CASE q = NULL
    <3>1. Contents = <<>>
      BY <1>1, <2>1, NothingHeld DEF Empty, Inv, ListWellFormed, NoQueue
    <3> QED BY <2>1, <3>1
  <2>2. CASE q # NULL
    BY <1>1, <2>2, IdleList
  <2> QED BY <2>1, <2>2
<1> QED BY <1>1, <1>2, SameContents, SameResults DEF Abstract!Size, Unreliable

(* queue_reverse: nothing is seen of it until its loop ends.                 *)
LEMMA ReverseSimulated ==
    ASSUME Inv, Inv', QueueReverse \/ ReverseStep \/ ReverseEnd
    PROVE  Abstract!Reverse \/ UNCHANGED Abstract!vars
<1>1. CASE QueueReverse /\ (q = NULL \/ size = 0)
  <2>1. UNCHANGED <<header, list, locals, heap, ret>> /\ q' = q /\ pc' = pc
    BY <1>1 DEF QueueReverse, header, locals
  <2> QED BY <2>1, SameContents DEF Abstract!vars, Unreliable
<1>2. CASE QueueReverse /\ q # NULL /\ size # 0
  <2>1. /\ pc = "idle" /\ pc' = "reverse" /\ q' = q /\ heap' = heap /\ ret' = ret
        /\ next' = next /\ value' = value /\ text' = text /\ size' = size
        /\ nextEle' = head /\ currNode' = NULL /\ size \in Nat \ {0}
    BY <1>2 DEF QueueReverse, list, Inv, TypeOK
  <2>2. PICK s \in [1 .. size -> Node] : WellFormed(s)
    BY <1>2, <2>1 DEF Inv, ListWellFormed
  <2>3. Chain(next, head) = s
    BY <2>2, ChainOfList DEF Inv
  <2>4. s \in Seq(Node)
    BY <2>1
  <2>5. Reverse(<<>>) \o s = s
    BY <2>4 DEF Reverse
  <2>6. ListNodes' = ListNodes
    BY <2>1, <2>3, <2>5, EmptyChain DEF ListNodes
  <2>7. Contents' = Contents
    BY <2>1, <2>6 DEF Contents
  <2> QED BY <2>1, <2>7 DEF Abstract!vars, Unreliable
<1>3. CASE ReverseStep
  <2>1. /\ pc = "reverse" /\ pc' = "reverse" /\ q' = q /\ size' = size
        /\ heap' = heap /\ ret' = ret /\ value' = value /\ text' = text
    BY <1>3 DEF ReverseStep, header
  <2>2. PICK s \in [1 .. size -> Node], k \in 1 .. size : Reversing(s, k)
    BY <2>1 DEF Inv, ReverseKeepsNodes
  <2>3. k + 1 \in 1 .. size /\ Reversing(s, k + 1)'
    BY <1>3, <2>2, ReverseStepKeepsNodes DEF Inv
  <2>4. Contents = Strings(s)
    BY <2>1, <2>2, ContentsOfList DEF ContentsAreStrings, Inv
  <2>5. Contents' = Strings(s)'
    BY <2>1, <2>3, ContentsOfListNext DEF ContentsAreStrings, Inv
  <2>6. Strings(s)' = Strings(s)
    BY <2>1 DEF Strings
  <2> QED BY <2>1, <2>4, <2>5, <2>6 DEF Abstract!vars, Unreliable
<1>4. CASE ReverseEnd
  <2>1. /\ pc = "reverse" /\ pc' = "idle" /\ q' = q /\ size' = size
        /\ heap' = heap /\ ret' = ret /\ size \in Nat
    BY <1>4 DEF ReverseEnd, Inv, TypeOK
  <2>2. PICK s \in [1 .. size -> Node], k \in 1 .. size : Reversing(s, k)
    BY <2>1 DEF Inv, ReverseKeepsNodes
  <2>3. PICK z \in [1 .. size' -> Node] :
           /\ WellFormed(z)'
           /\ \A i \in 1 .. size' : text'[value'[z[i]]] = text[value[s[size + 1 - i]]]
    BY <1>4, <2>2, ReverseEndReverses DEF Inv
  <2>4. Contents = Strings(s)
    BY <2>1, <2>2, ContentsOfList DEF ContentsAreStrings, Inv
  <2>5. Contents' = Strings(z)'
    BY <2>1, <2>3, ContentsOfListNext DEF ContentsAreStrings, Inv
  <2>6. Len(Strings(s)) = size
    BY <2>1 DEF Strings
  <2>7. \A i \in 1 .. size : size + 1 - i \in 1 .. size
    BY <2>1
  <2>8. Strings(z)' = [i \in 1 .. size |-> Strings(s)[size + 1 - i]]
    BY <2>1, <2>3, <2>7 DEF Strings
  <2>9. q # NULL /\ Contents' = [i \in 1 .. Len(Contents) |-> Contents[Len(Contents) + 1 - i]]
    BY <2>2, <2>4, <2>5, <2>6, <2>8, AddressAssumption DEF Reversing, Block
  <2> QED BY <2>1, <2>9 DEF Abstract!Reverse, Unreliable
<1> QED BY <1>1, <1>2, <1>3, <1>4

(* queue_free: the queue is gone from the call on.                           *)
LEMMA FreeSimulated ==
    ASSUME Inv, Inv', QueueFree \/ FreeStep \/ FreeEnd
    PROVE  Abstract!FreeQueue \/ UNCHANGED Abstract!vars
<1>1. CASE QueueFree /\ q = NULL
  <2>1. UNCHANGED <<header, list, locals, heap, ret>> /\ q' = q /\ pc' = pc
    BY <1>1 DEF QueueFree, header, locals
  <2> QED BY <2>1, SameContents DEF Abstract!vars, Unreliable
<1>2. CASE QueueFree /\ q # NULL
  <2>1. pc' = "free" /\ heap' = heap /\ ret' = ret
    BY <1>2 DEF QueueFree
  <2>2. Contents' = <<>>
    BY <2>1, NothingHeldNext DEF Empty
  <2> QED BY <2>1, <2>2 DEF Abstract!FreeQueue, Unreliable
<1>3. CASE FreeStep \/ FreeEnd
  <2>1. /\ pc = "free" /\ ret' = ret
        /\ pc' = "free" \/ (pc' = "idle" /\ q' = NULL /\ size' = 0)
    BY <1>3 DEF FreeStep, FreeEnd
  <2>2. /\ heap'.fail_probability = heap.fail_probability
        /\ heap'.scarce = heap.scarce
    BY <1>3 DEF FreeStep, FreeEnd, Release, TestFree, Inv, TypeOK, HeapOver
  <2>3. Contents = <<>> /\ Contents' = <<>>
    BY <2>1, NothingHeld, NothingHeldNext DEF Empty
  <2> QED BY <2>1, <2>2, <2>3 DEF Abstract!vars, Unreliable, AllocationCanFail
<1> QED BY <1>1, <1>2, <1>3

LEMMA StepSimulated ==
    Inv /\ Inv' /\ [Next]_vars => [Abstract!Next]_(Abstract!vars)
<1> SUFFICES ASSUME Inv, Inv', [Next]_vars
             PROVE  Abstract!Next \/ UNCHANGED Abstract!vars
  OBVIOUS
<1>1. CASE QueueNew
  BY <1>1, NewSimulated DEF Abstract!Next
<1>2. CASE QueueFree \/ FreeStep \/ FreeEnd
  BY <1>2, FreeSimulated DEF Abstract!Next
<1>3. CASE QueueReverse \/ ReverseStep \/ ReverseEnd
  BY <1>3, ReverseSimulated DEF Abstract!Next
<1>4. CASE QueueSize
  BY <1>4, SizeSimulated DEF Abstract!Next
<1>5. ASSUME NEW x \in Text, QueueInsertHead(x) \/ QueueInsertTail(x)
      PROVE  Abstract!Next
  BY <1>5, InsertHeadSimulated, InsertTailSimulated DEF Abstract!Next
<1>6. ASSUME NEW b \in BufSizes, QueueRemoveHead(b)
      PROVE  Abstract!Next
  BY <1>6, RemoveHeadSimulated DEF Abstract!Next
<1>7. ASSUME NEW p \in FailProbabilities, SetFailProbability(p)
      PROVE  Abstract!Next
  <2>1. UNCHANGED <<header, list, locals, ret>> /\ q' = q /\ pc' = pc
    BY <1>7 DEF SetFailProbability, header, locals
  <2>2. Unreliable' \in BOOLEAN
    BY DEF AllocationCanFail, Unreliable
  <2> QED BY <2>1, <2>2, SameContents DEF Abstract!Next, Abstract!ChangeFaults
<1>8. CASE MemoryChanges
  <2>1. UNCHANGED <<header, list, locals, ret>> /\ q' = q /\ pc' = pc
    BY <1>8 DEF MemoryChanges, header, locals
  <2>2. Unreliable' \in BOOLEAN
    BY DEF AllocationCanFail, Unreliable
  <2> QED BY <2>1, <2>2, SameContents DEF Abstract!Next, Abstract!ChangeFaults
<1>9. CASE UNCHANGED vars
  <2>1. UNCHANGED <<header, list, locals, heap, ret>> /\ q' = q /\ pc' = pc
    BY <1>9 DEF vars, header, locals
  <2> QED BY <2>1, SameContents DEF Abstract!vars, Unreliable
<1> QED
  BY <1>1, <1>2, <1>3, <1>4, <1>5, <1>6, <1>7, <1>8, <1>9 DEF Next

(* queue.c implements the sequence of strings that queue.h promises, for     *)
(* every memory, every string, every buffer and every choice of failures.    *)
THEOREM Refines == Spec => ImplementsSequence
<1>1. Init => Abstract!Init
  <2> SUFFICES ASSUME Init PROVE Abstract!Init
    OBVIOUS
  <2>1. Contents = <<>>
    BY InitInv, NothingHeld DEF Init, Empty
  <2>2. Unreliable \in BOOLEAN
    BY DEF AllocationCanFail, Unreliable
  <2> QED BY <2>1, <2>2, SameResults DEF Init, Abstract!Init
<1> QED BY <1>1, StepSimulated, Invariance, PTL DEF Spec, ImplementsSequence, Abstract!Spec
=============================================================================
