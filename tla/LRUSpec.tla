------------------------------ MODULE LRUSpec ------------------------------
(* The cache that csim is asked to simulate: sets of at most E blocks with   *)
(* least-recently-used replacement, and the three totals it must report.     *)
EXTENDS Integers, FiniteSets

CONSTANTS SetIndex, Tag, E

VARIABLES
    lastUse,                \* per set, the time each resident tag was last used
    now,                    \* number of accesses so far
    hit, miss, eviction

vars == <<lastUse, now, hit, miss, eviction>>

Resident(set) == DOMAIN lastUse[set]

Init ==
    /\ lastUse = [set \in SetIndex |-> [t \in {} |-> 0]]
    /\ now = 0 /\ hit = 0 /\ miss = 0 /\ eviction = 0

(* After an access to t the given tags and t are resident, t used just now.  *)
Use(set, t, kept) ==
    /\ now' = now + 1
    /\ lastUse' = [lastUse EXCEPT ![set] =
                      [u \in kept \cup {t} |->
                          IF u = t THEN now + 1 ELSE lastUse[set][u]]]

Hit(set, t) ==
    /\ t \in Resident(set)
    /\ Use(set, t, Resident(set))
    /\ hit' = hit + 1
    /\ UNCHANGED <<miss, eviction>>

Fill(set, t) ==
    /\ t \notin Resident(set) /\ Cardinality(Resident(set)) < E
    /\ Use(set, t, Resident(set))
    /\ miss' = miss + 1
    /\ UNCHANGED <<hit, eviction>>

Evict(set, t, victim) ==
    /\ t \notin Resident(set) /\ Cardinality(Resident(set)) = E
    /\ victim \in Resident(set)
    /\ \A u \in Resident(set) : lastUse[set][victim] <= lastUse[set][u]
    /\ Use(set, t, Resident(set) \ {victim})
    /\ miss' = miss + 1
    /\ eviction' = eviction + 1
    /\ UNCHANGED hit

Next ==
    \E set \in SetIndex, t \in Tag :
        \/ Hit(set, t)
        \/ Fill(set, t)
        \/ \E victim \in Resident(set) : Evict(set, t, victim)

Spec == Init /\ [][Next]_vars
=============================================================================
