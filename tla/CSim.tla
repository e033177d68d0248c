-------------------------------- MODULE CSim -------------------------------
(* csim.c: the cache simulator.  Each line of the trace is one action, a     *)
(* modify being a load and then a store to the same address.  Definitions    *)
(* named Faulty are slips in the definition of that name below them; no      *)
(* specification uses them.                                                  *)
EXTENDS Integers, FiniteSets

CONSTANTS
    S, E, B,        \* number of sets, lines per set, bytes per block
    Half,           \* an int holds -Half .. Half - 1; 2^31 in the program
    Address,        \* addresses in the trace
    MaxAccesses,    \* bound of the model: accesses in a trace
    Leftover        \* what malloc'ed lines may hold before they are written

ASSUME CacheAssumption ==
    /\ S \in Nat \ {0} /\ E \in Nat \ {0} /\ B \in Nat \ {0}
    /\ Half \in Nat \ {0, 1}
    /\ Address \subseteq Nat
    /\ MaxAccesses \in Nat

VARIABLES
    cache,
    global_timer, hit, miss, eviction,
    again           \* the access a modify still has to make, if any

totals == <<hit, miss, eviction>>
vars == <<cache, global_timer, totals, again>>

SetIndex == 0 .. S - 1
Lines    == 0 .. E - 1
Tag      == {a \div (B * S) : a \in Address}

(* The set bits are left in the tag.                                         *)
FaultyTagOf(a) == a \div B

(* S and B are powers of two: masks and shifts are remainder and quotient.   *)
SetOf(a) == (a \div B) % S
TagOf(a) == a \div (B * S)

(* Conversion of a long to the int field lru_stamp.                          *)
ToInt(t) == ((t + Half) % (2 * Half)) - Half

IntField == -Half .. Half - 1
Line == [valid : IntField, tag : Nat, lru_stamp : IntField]

ASSUME LeftoverAssumption == Leftover \subseteq Line

Access == [set : SetIndex, tag : Tag]

TypeOK ==
    /\ cache \in [SetIndex -> [Lines -> Line]]
    /\ global_timer \in Nat
    /\ hit \in Nat /\ miss \in Nat /\ eviction \in Nat
    /\ again \in SUBSET Access

EmptyLine == [valid |-> 0, tag |-> 0, lru_stamp |-> 0]

(* The initialisation loop writes line 0 of every set E times and leaves the *)
(* other lines as malloc returned them.                                      *)
Init ==
    /\ cache \in [SetIndex -> [Lines -> Leftover \cup {EmptyLine}]]
    /\ \A set \in SetIndex :
          cache[set][0] = EmptyLine /\ \A i \in Lines \ {0} : cache[set][i] \in Leftover
    /\ global_timer = 0 /\ hit = 0 /\ miss = 0 /\ eviction = 0
    /\ again = {}
-----------------------------------------------------------------------------
Valid(set, i) == cache[set][i].valid # 0
Holds(set, i, t) == Valid(set, i) /\ cache[set][i].tag = t

(* Of several lines that would do, the scan keeps the first.                 *)
First(I) == CHOOSE i \in I : \A j \in I : i =< j

Stamp(set, i) == cache[set][i].lru_stamp

(* The most recently used line is taken.                                     *)
FaultyOldest(set) ==
    {i \in Lines : \A j \in Lines : Stamp(set, j) =< Stamp(set, i)}

(* Lines with the smallest stamp, which only a strictly smaller one replaces *)
(* in the scan.                                                              *)
Oldest(set) ==
    {i \in Lines : \A j \in Lines : Stamp(set, i) =< Stamp(set, j)}

(* The line is stamped before the timer advances.                            *)
FaultyTouch(set, i, t) ==
    /\ global_timer' = global_timer + 1
    /\ cache' = [cache EXCEPT ![set][i] =
                    [valid |-> 1, tag |-> t, lru_stamp |-> ToInt(global_timer)]]

(* The tag of the evicted block is kept.                                     *)
TaglessTouch(set, i, t) ==
    /\ global_timer' = global_timer + 1
    /\ cache' = [cache EXCEPT ![set][i] =
                    [@ EXCEPT !.valid = 1, !.lru_stamp = ToInt(global_timer + 1)]]

Touch(set, i, t) ==
    /\ global_timer' = global_timer + 1
    /\ cache' = [cache EXCEPT ![set][i] =
                    [valid |-> 1, tag |-> t, lru_stamp |-> ToInt(global_timer + 1)]]

Matching(set, t) == {i \in Lines : Holds(set, i, t)}
Empty(set)       == {i \in Lines : ~Valid(set, i)}

Hit(set, t) ==
    /\ Matching(set, t) # {}
    /\ Touch(set, First(Matching(set, t)), t)
    /\ hit' = hit + 1
    /\ UNCHANGED <<miss, eviction>>

Fill(set, t) ==
    /\ Matching(set, t) = {} /\ Empty(set) # {}
    /\ Touch(set, First(Empty(set)), t)
    /\ miss' = miss + 1
    /\ UNCHANGED <<hit, eviction>>

(* The eviction is not counted.                                              *)
FaultyEvict(set, t) ==
    /\ Matching(set, t) = {} /\ Empty(set) = {}
    /\ Touch(set, First(Oldest(set)), t)
    /\ miss' = miss + 1
    /\ UNCHANGED <<hit, eviction>>

Evict(set, t) ==
    /\ Matching(set, t) = {} /\ Empty(set) = {}
    /\ Touch(set, First(Oldest(set)), t)
    /\ miss' = miss + 1
    /\ eviction' = eviction + 1
    /\ UNCHANGED hit

access_cache(set, t) ==
    /\ global_timer < MaxAccesses
    /\ Hit(set, t) \/ Fill(set, t) \/ Evict(set, t)

(* A line "L" or "S" of the trace.                                           *)
LoadOrStore(a) ==
    /\ again = {}
    /\ access_cache(SetOf(a), TagOf(a))
    /\ UNCHANGED again

(* A line "M": the load, then the store.                                     *)
ModifyLoad(a) ==
    /\ again = {}
    /\ access_cache(SetOf(a), TagOf(a))
    /\ again' = {[set |-> SetOf(a), tag |-> TagOf(a)]}

ModifyStore ==
    /\ \E x \in again : access_cache(x.set, x.tag)
    /\ again' = {}

(* A line "I", or of any other operation, makes no access: it is a stutter.  *)
Next ==
    \/ \E a \in Address : LoadOrStore(a) \/ ModifyLoad(a)
    \/ ModifyStore

Spec == Init /\ [][Next]_vars
-----------------------------------------------------------------------------
(* Every access is a hit or a miss, and of the misses those that evicted     *)
(* nothing are exactly the lines in use.                                     *)
InUse == {p \in SetIndex \X Lines : Valid(p[1], p[2])}

TotalsAddUp ==
    /\ hit + miss = global_timer
    /\ miss = eviction + Cardinality(InUse)

(* No set holds the same block twice, so that a hit updates the only copy.   *)
UniqueTags ==
    \A set \in SetIndex, i, j \in Lines :
        Valid(set, i) /\ Valid(set, j) /\ cache[set][i].tag = cache[set][j].tag
            => i = j

(* Stamps order the lines of a set by their last use: the line used at time  *)
(* n carries n, no two lines share a stamp, and lines never used carry 0.    *)
StampsOrderUses ==
    \A set \in SetIndex, i \in Lines :
        /\ Stamp(set, i) \in 0 .. global_timer
        /\ Valid(set, i) <=> Stamp(set, i) # 0
        /\ \A j \in Lines :
              Stamp(set, i) = Stamp(set, j) /\ Valid(set, i) => i = j

(* csim.c, main: "Default init." of every line, so that the first access of  *)
(* a trace finds its set empty.                                              *)
FirstAccessMisses ==
    [][global_timer = 0 /\ global_timer' = 1 => miss' = 1]_vars

(* The store of a modify finds the block its load has just brought in.       *)
StoreOfModifyHits == [][again # {} /\ again' = {} => hit' = hit + 1]_vars

(* The refinement mapping: per set, the resident tags and when each was last *)
(* used.                                                                     *)
LineOf(set, t) == CHOOSE i \in Lines : Holds(set, i, t)
ResidentTags(set) == {cache[set][i].tag : i \in {k \in Lines : Valid(set, k)}}

LastUse ==
    [set \in SetIndex |->
        [t \in ResidentTags(set) |-> Stamp(set, LineOf(set, t))]]

LRU == INSTANCE LRUSpec WITH lastUse <- LastUse, now <- global_timer

(* The simulated cache is the LRU cache: the same hits, misses and evictions *)
(* and, at every step, the same blocks resident with the same order of use.  *)
ImplementsLRU == LRU!Spec
=============================================================================
