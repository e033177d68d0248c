----------------------------- MODULE QueueSpec -----------------------------
(* What queue.h promises of a queue, without the list: a sequence of         *)
(* strings, and for every call what it returns and what the queue holds      *)
(* afterwards.                                                               *)
EXTENDS Integers, Sequences

CONSTANTS Text, BufSizes, NULL,
          Capacity      \* strings there is memory for

VARIABLES
    exists,     \* the caller holds a queue
    items,      \* its strings, head first
    faulty,     \* allocation may fail: by design, or because memory is scarce
    ret         \* result of the last call that returns something

vars == <<exists, items, faulty, ret>>

(* room is the size of the buffer, when the call copied into one.            *)
Result(ok, out, cnt, room) ==
    [ok |-> ok, out |-> out, cnt |-> cnt, room |-> room]

(* At most n characters of s.                                                *)
Prefix(s, n) == SubSeq(s, 1, IF n < Len(s) THEN n ELSE Len(s))

Init ==
    /\ exists = FALSE
    /\ items = <<>>
    /\ faulty \in BOOLEAN
    /\ ret = Result(TRUE, NULL, 0, 0)

(* A call that allocates may return false or NULL only if there is no queue  *)
(* to work on, an allocation failed or memory is full, and then it changes   *)
(* nothing.                                                                  *)
Refuse(reason) ==
    /\ reason
    /\ ret' = Result(FALSE, NULL, 0, 0)
    /\ UNCHANGED <<exists, items>>

New ==
    /\ ~exists
    /\ \/ Refuse(faulty)
       \/ exists' = TRUE /\ items' = <<>> /\ ret' = Result(TRUE, NULL, 0, 0)
    /\ UNCHANGED faulty

Insert(newItems) ==
    /\ \/ Refuse(~exists \/ faulty \/ Len(items) = Capacity)
       \/ /\ exists
          /\ items' = newItems
          /\ ret' = Result(TRUE, NULL, 0, 0)
          /\ UNCHANGED exists
    /\ UNCHANGED faulty

InsertHead(s) == Insert(<<s>> \o items)
InsertTail(s) == Insert(Append(items, s))

RemoveHead(bufsize) ==
    /\ \/ Refuse(items = <<>>)
       \/ /\ items # <<>>
          /\ items' = Tail(items)
          /\ ret' = IF bufsize = 0 THEN Result(TRUE, NULL, 0, 0)
                    ELSE Result(TRUE, Prefix(Head(items), bufsize - 1), 0, bufsize)
          /\ UNCHANGED exists
    /\ UNCHANGED faulty

Size ==
    /\ ret' = Result(TRUE, NULL, Len(items), 0)
    /\ UNCHANGED <<exists, items, faulty>>

Reverse ==
    /\ items' = [i \in 1 .. Len(items) |-> items[Len(items) + 1 - i]]
    /\ UNCHANGED <<exists, faulty, ret>>

FreeQueue ==
    /\ exists' = FALSE
    /\ items' = <<>>
    /\ UNCHANGED <<faulty, ret>>

ChangeFaults ==
    /\ faulty' \in BOOLEAN
    /\ UNCHANGED <<exists, items, ret>>

Next ==
    \/ New \/ FreeQueue \/ Reverse \/ Size
    \/ \E s \in Text : InsertHead(s) \/ InsertTail(s)
    \/ \E b \in BufSizes : RemoveHead(b)
    \/ ChangeFaults

Spec == Init /\ [][Next]_vars
=============================================================================
