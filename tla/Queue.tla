------------------------------- MODULE Queue -------------------------------
(* queue.c: a string queue kept as a singly linked list with a header that   *)
(* holds head, tail and size.  Creation, insertion, removal and size are one *)
(* action per call; queue_reverse and queue_free walk the list one node per  *)
(* step.  Definitions named Faulty are slips in the definition of that name  *)
(* below them; no specification uses them.                                   *)
EXTENDS Harness, Sequences

CONSTANTS
    Header, Node, Str,  \* addresses of queue_t, list_ele_t and string blocks
    Char,               \* characters of the strings
    Text,               \* the strings a caller may insert
    BufSizes,           \* sizes of the caller's buffer; 0 stands for buf == NULL
    FailProbabilities,  \* values the tester gives to fail_probability
    NULL,               \* the null pointer
    FILL                \* what a block holds before it is written and after free

Block == Header \cup Node \cup Str

ASSUME AddressAssumption ==
    /\ Header \cap Node = {}
    /\ Header \cap Str = {}
    /\ Node \cap Str = {}
    /\ NULL \notin Block
    /\ FILL \notin Block \cup {NULL}

ASSUME FiniteMemory ==
    /\ IsFiniteSet(Header) /\ Header # {}
    /\ IsFiniteSet(Node)
    /\ IsFiniteSet(Str)

ASSUME InputAssumption ==
    /\ Text \subseteq Seq(Char)
    /\ FILL \notin Text
    /\ BufSizes \subseteq Nat
    /\ FailProbabilities \subseteq Int

VARIABLES
    q,                      \* the queue, or NULL
    head, tail, size,       \* *q; NULL, NULL, 0 while there is no queue
    next, value,            \* the two fields of every node
    text,                   \* the characters of every string block
    heap,                   \* the harness
    nextEle, currNode,      \* locals of queue_reverse
    currEle,                \* local of queue_free
    pc,                     \* the loop being run, or "idle" between calls
    ret                     \* result of the last call that returns something

header == <<q, head, tail, size>>
list   == <<next, value, text>>
locals == <<nextEle, currNode, currEle, pc>>
vars   == <<header, list, heap, locals, ret>>

(* room is the size of the buffer a removal was given; with out NULL it does *)
(* not matter.                                                               *)
Returned ==
    [ok : BOOLEAN, out : Seq(Char) \cup {NULL}, cnt : Nat, room : Nat]

TypeOK ==
    /\ q \in Header \cup {NULL}
    /\ head \in Node \cup {NULL}
    /\ tail \in Node \cup {NULL}
    /\ size \in Nat
    /\ next \in [Node -> Node \cup {NULL, FILL}]
    /\ value \in [Node -> Str \cup {FILL}]
    /\ text \in [Str -> Text \cup {FILL}]
    /\ heap \in HeapOver(Block)
    /\ nextEle \in Node \cup {NULL}
    /\ currNode \in Node \cup {NULL}
    /\ currEle \in Node \cup {NULL}
    /\ pc \in {"idle", "reverse", "free"}
    /\ ret \in Returned

Failed       == [ok |-> FALSE, out |-> NULL, cnt |-> 0, room |-> 0]
Succeeded    == [ok |-> TRUE, out |-> NULL, cnt |-> 0, room |-> 0]
Copied(s, b) == [ok |-> TRUE, out |-> s, cnt |-> 0, room |-> b]
Counted(n)   == [ok |-> TRUE, out |-> NULL, cnt |-> n, room |-> 0]

Init ==
    /\ q = NULL /\ head = NULL /\ tail = NULL /\ size = 0
    /\ next = [n \in Node |-> FILL]
    /\ value = [n \in Node |-> FILL]
    /\ text = [t \in Str |-> FILL]
    /\ heap = InitHeap
    /\ nextEle = NULL /\ currNode = NULL /\ currEle = NULL
    /\ pc = "idle"
    /\ ret = Succeeded

(* strncpy of at most n characters followed by the terminator.               *)
Prefix(s, n) == SubSeq(s, 1, IF n < Len(s) THEN n ELSE Len(s))

Free(S) == S \ heap.live

(* malloc itself finds no memory for a block of S.                           *)
MemoryRunsOut(S) == heap.scarce \/ Free(S) = {}

(* test_malloc of a block of S returns NULL: the harness makes it fail, or   *)
(* there is no memory and the fatal event this is was not heard.             *)
MallocFails(S) == AllocationCanFail(heap) \/ MemoryRunsOut(S)
-----------------------------------------------------------------------------
(* queue_new.  Its caller has freed the old queue and cleared its pointer.   *)
QueueNew ==
    /\ pc = "idle" /\ q = NULL
    /\ \/ /\ MallocFails(Header)
          /\ ret' = Failed
          /\ UNCHANGED <<header, heap>>
       \/ \E h \in Free(Header) :
            /\ AllocationCanSucceed(heap)
            /\ heap' = TestMalloc(heap, h)
            /\ q' = h /\ head' = NULL /\ tail' = NULL /\ size' = 0
            /\ ret' = Succeeded
    /\ UNCHANGED <<list, locals>>

(* The node is not released when there is no memory for the string.          *)
FaultyInsertFails ==
    /\ \/ q = NULL /\ heap' = heap
       \/ q # NULL /\ MallocFails(Node) /\ heap' = heap
       \/ /\ q # NULL
          /\ AllocationCanSucceed(heap) /\ MallocFails(Str)
          /\ \E n \in Free(Node) : heap' = TestMalloc(heap, n)
    /\ ret' = Failed
    /\ UNCHANGED <<header, list>>

(* The paths of an insertion that return false: no queue, no memory for the  *)
(* node, or no memory for the string, after which the node is released.      *)
InsertFails ==
    /\ \/ q = NULL /\ heap' = heap
       \/ q # NULL /\ MallocFails(Node) /\ heap' = heap
       \/ /\ q # NULL
          /\ AllocationCanSucceed(heap) /\ MallocFails(Str)
          /\ \E n \in Free(Node) : heap' = TestFree(TestMalloc(heap, n), n)
    /\ ret' = Failed
    /\ UNCHANGED <<header, list>>

(* The node n and the copy t of s that a successful insertion builds.        *)
NewElement(n, t, s) ==
    /\ q # NULL
    /\ AllocationCanSucceed(heap)
    /\ heap' = TestMalloc(TestMalloc(heap, n), t)
    /\ text' = [text EXCEPT ![t] = s]
    /\ value' = [value EXCEPT ![n] = t]
    /\ size' = size + 1
    /\ q' = q
    /\ ret' = Succeeded

InsertAtHead(n) ==
    /\ next' = [next EXCEPT ![n] = head]
    /\ head' = n
    /\ tail' = IF size = 0 THEN n ELSE tail

(* The tail pointer stays behind.                                            *)
FaultyInsertAtTail(n) ==
    /\ next' = IF size = 0 THEN [next EXCEPT ![n] = NULL]
                           ELSE [next EXCEPT ![n] = NULL, ![tail] = n]
    /\ tail' = IF size = 0 THEN n ELSE tail
    /\ head' = IF size = 0 THEN n ELSE head

InsertAtTail(n) ==
    /\ next' = IF size = 0 THEN [next EXCEPT ![n] = NULL]
                           ELSE [next EXCEPT ![n] = NULL, ![tail] = n]
    /\ tail' = n
    /\ head' = IF size = 0 THEN n ELSE head

QueueInsertHead(s) ==
    /\ pc = "idle"
    /\ \/ InsertFails
       \/ \E n \in Free(Node), t \in Free(Str) :
            NewElement(n, t, s) /\ InsertAtHead(n)
    /\ UNCHANGED locals

QueueInsertTail(s) ==
    /\ pc = "idle"
    /\ \/ InsertFails
       \/ \E n \in Free(Node), t \in Free(Str) :
            NewElement(n, t, s) /\ InsertAtTail(n)
    /\ UNCHANGED locals

(* queue_remove_head(q, buf, bufsize), bufsize = 0 when buf is NULL.         *)
RemoveFails ==
    /\ q = NULL \/ size = 0
    /\ ret' = Failed
    /\ UNCHANGED <<header, list, heap>>

Unlink ==
    /\ head' = IF size = 1 THEN NULL ELSE next[head]
    /\ tail' = IF size = 1 THEN NULL ELSE tail
    /\ size' = size - 1
    /\ q' = q

(* The string is not released.                                               *)
FaultyRelease(n) ==
    /\ heap' = TestFree(heap, n)
    /\ value' = [value EXCEPT ![n] = FILL]
    /\ next' = [next EXCEPT ![n] = FILL]
    /\ UNCHANGED text

(* Both blocks of node n go back; what they held may not be read again.      *)
Release(n) ==
    /\ heap' = TestFree(TestFree(heap, value[n]), n)
    /\ text' = [text EXCEPT ![value[n]] = FILL]
    /\ value' = [value EXCEPT ![n] = FILL]
    /\ next' = [next EXCEPT ![n] = FILL]

(* No room is left for the terminator.                                       *)
FaultyQueueRemoveHead(bufsize) ==
    /\ pc = "idle"
    /\ \/ RemoveFails
       \/ /\ q # NULL /\ size # 0
          /\ Unlink
          /\ ret' = IF bufsize = 0 THEN Succeeded
                    ELSE Copied(Prefix(text[value[head]], bufsize), bufsize)
          /\ Release(head)
    /\ UNCHANGED locals

QueueRemoveHead(bufsize) ==
    /\ pc = "idle"
    /\ \/ RemoveFails
       \/ /\ q # NULL /\ size # 0
          /\ Unlink
          /\ ret' = IF bufsize = 0 THEN Succeeded
                    ELSE Copied(Prefix(text[value[head]], bufsize - 1), bufsize)
          /\ Release(head)
    /\ UNCHANGED locals

QueueSize ==
    /\ pc = "idle"
    /\ ret' = Counted(IF q = NULL \/ size = 0 THEN 0 ELSE size)
    /\ UNCHANGED <<header, list, heap, locals>>
-----------------------------------------------------------------------------
(* queue_reverse: the call, one iteration of its loop, and its end.          *)
QueueReverse ==
    /\ pc = "idle"
    /\ IF q = NULL \/ size = 0
         THEN UNCHANGED <<tail, nextEle, currNode, pc>>
         ELSE /\ nextEle' = head
              /\ tail' = head
              /\ currNode' = NULL
              /\ pc' = "reverse"
    /\ UNCHANGED <<q, head, size, list, heap, currEle, ret>>

(* nextEle moves on before it is remembered.                                 *)
FaultyReverseStep ==
    /\ pc = "reverse" /\ next[nextEle] # NULL
    /\ nextEle' = next[nextEle]
    /\ next' = [next EXCEPT ![nextEle] = currNode]
    /\ currNode' = nextEle'
    /\ UNCHANGED <<header, value, text, heap, currEle, pc, ret>>

(* The following node is turned round before its own pointer was read.       *)
HastyReverseStep ==
    /\ pc = "reverse" /\ next[nextEle] # NULL
    /\ nextEle' = next[nextEle]
    /\ next' = [next EXCEPT ![next[nextEle]] = nextEle]
    /\ currNode' = nextEle
    /\ UNCHANGED <<header, value, text, heap, currEle, pc, ret>>

ReverseStep ==
    /\ pc = "reverse" /\ next[nextEle] # NULL
    /\ nextEle' = next[nextEle]
    /\ next' = [next EXCEPT ![nextEle] = currNode]
    /\ currNode' = nextEle
    /\ UNCHANGED <<header, value, text, heap, currEle, pc, ret>>

ReverseEnd ==
    /\ pc = "reverse" /\ next[nextEle] = NULL
    /\ head' = nextEle
    /\ next' = [next EXCEPT ![nextEle] = currNode]
    /\ nextEle' = NULL /\ currNode' = NULL
    /\ pc' = "idle"
    /\ UNCHANGED <<q, tail, size, value, text, heap, currEle, ret>>

(* queue_free: the call, one iteration of its loop, and the release of the   *)
(* header, after which the caller clears its pointer.                        *)
QueueFree ==
    /\ pc = "idle"
    /\ IF q = NULL
         THEN UNCHANGED <<currEle, pc>>
         ELSE /\ currEle' = IF size # 0 THEN head ELSE NULL
              /\ pc' = "free"
    /\ UNCHANGED <<header, list, heap, nextEle, currNode, ret>>

(* next is read from the node that was just released.                        *)
FaultyFreeStep ==
    /\ pc = "free" /\ currEle # NULL
    /\ Release(currEle)
    /\ currEle' = next'[currEle]
    /\ UNCHANGED <<header, nextEle, currNode, pc, ret>>

FreeStep ==
    /\ pc = "free" /\ currEle # NULL
    /\ Release(currEle)
    /\ currEle' = next[currEle]
    /\ UNCHANGED <<header, nextEle, currNode, pc, ret>>

FreeEnd ==
    /\ pc = "free" /\ currEle = NULL
    /\ heap' = TestFree(heap, q)
    /\ q' = NULL /\ head' = NULL /\ tail' = NULL /\ size' = 0
    /\ pc' = "idle"
    /\ UNCHANGED <<list, nextEle, currNode, currEle, ret>>

(* The tester changes the failure probability between calls.                 *)
SetFailProbability(p) ==
    /\ pc = "idle"
    /\ heap' = [heap EXCEPT !.fail_probability = p]
    /\ UNCHANGED <<header, list, locals, ret>>

(* The other programs of the system take its memory, or give it back.        *)
MemoryChanges ==
    /\ heap' = [heap EXCEPT !.scarce = ~@]
    /\ UNCHANGED <<header, list, locals, ret>>
-----------------------------------------------------------------------------
LoopStep == ReverseStep \/ ReverseEnd \/ FreeStep \/ FreeEnd

Next ==
    \/ QueueNew
    \/ QueueFree
    \/ QueueReverse
    \/ QueueSize
    \/ \E s \in Text : QueueInsertHead(s)
    \/ \E s \in Text : QueueInsertTail(s)
    \/ \E b \in BufSizes : QueueRemoveHead(b)
    \/ \E p \in FailProbabilities : SetFailProbability(p)
    \/ MemoryChanges
    \/ ReverseStep
    \/ ReverseEnd
    \/ FreeStep
    \/ FreeEnd

Spec == Init /\ [][Next]_vars

(* The functions run to completion: nothing else moves while a loop runs.    *)
FairSpec == Spec /\ WF_vars(LoopStep)
-----------------------------------------------------------------------------
(* The nodes s[from..to] of a list whose rest is intact: each owns a live    *)
(* string, and no two share a node or a string.                              *)
Owns(s, from, to) ==
    /\ \A i \in from .. to : value[s[i]] \in Str
    /\ \A i \in from .. to : text[value[s[i]]] \in Text
    /\ \A i, j \in from .. to : i # j => /\ s[i] # s[j]
                                         /\ value[s[i]] # value[s[j]]

Blocks(s, from, to) ==
    {s[i] : i \in from .. to} \cup {value[s[i]] : i \in from .. to}

(* next runs through s[from..size] and ends in NULL.                         *)
LinkedForward(s, from) ==
    \A i \in from .. size :
        next[s[i]] = IF i = size THEN NULL ELSE s[i + 1]

(* Between calls the header describes one list: from head, next reaches      *)
(* exactly size distinct nodes and ends at tail, every node owns a string of *)
(* its own, and the live blocks are these and the header, so no block leaked *)
(* and none is used after it was freed (queue.c, the functions together).    *)
WellFormed(s) ==
    /\ q \in Header
    /\ Owns(s, 1, size)
    /\ LinkedForward(s, 1)
    /\ head = IF size = 0 THEN NULL ELSE s[1]
    /\ tail = IF size = 0 THEN NULL ELSE s[size]
    /\ heap.live = {q} \cup Blocks(s, 1, size)

NoQueue ==
    /\ head = NULL /\ tail = NULL /\ size = 0
    /\ heap.live = {}

ListWellFormed ==
    pc = "idle" =>
        \/ q = NULL /\ NoQueue
        \/ q # NULL /\ \E s \in [1 .. size -> Node] : WellFormed(s)

(* Inside queue_reverse: s is the list as it was on entry and k the node     *)
(* nextEle stands on; the k - 1 nodes before it already point backwards, the *)
(* others still forwards, and no node is lost between the two halves.        *)
Reversing(s, k) ==
    /\ q \in Header /\ size # 0
    /\ Owns(s, 1, size)
    /\ nextEle = s[k]
    /\ currNode = IF k = 1 THEN NULL ELSE s[k - 1]
    /\ \A i \in 1 .. k - 1 : next[s[i]] = IF i = 1 THEN NULL ELSE s[i - 1]
    /\ LinkedForward(s, k)
    /\ tail = s[1]
    /\ heap.live = {q} \cup Blocks(s, 1, size)
    /\ AllocationCheck(heap) = 1 + 2 * size

ReverseKeepsNodes ==
    pc = "reverse" =>
        \E s \in [1 .. size -> Node], k \in 1 .. size : Reversing(s, k)

(* Inside queue_free: the nodes before k and their strings are released,     *)
(* those from k on are intact, and currEle is the first of them.             *)
Freeing(s, k) ==
    /\ q \in Header
    /\ Owns(s, k, size)
    /\ LinkedForward(s, k)
    /\ currEle = IF k > size THEN NULL ELSE s[k]
    /\ heap.live = {q} \cup Blocks(s, k, size)
    /\ AllocationCheck(heap) = 1 + 2 * (size - k + 1)

FreeKeepsRest ==
    pc = "free" =>
        \E s \in [1 .. size -> Node], k \in 1 .. size + 1 : Freeing(s, k)

(* allocated_count, which do_free and queue_quit report as a leak when it is *)
(* not 0, is the number of live blocks at every step, and between calls it   *)
(* is two blocks per element and one for the header.                         *)
Balanced ==
    /\ CountsLiveBlocks(heap)
    /\ pc = "idle" =>
          AllocationCheck(heap) = IF q = NULL THEN 0 ELSE 1 + 2 * size

(* queue_reverse and queue_free return: their loops do not run for ever.     *)
LoopsReturn == (pc # "idle") ~> (pc = "idle")
=============================================================================
