----------------------------- MODULE CSimProofs ----------------------------
(* The simulator of csim.c for caches of every geometry: as long as no line  *)
(* that malloc returned reads as valid its totals add up, and as long as the *)
(* number of accesses fits the int it keeps its stamps in it is an LRU cache.*)
EXTENDS CSim, FiniteSetTheorems, WellFoundedInduction, TLAPS

(* A set of naturals that is not empty has a least element.                  *)
LEMMA NatMin ==
    ASSUME NEW T \in SUBSET Nat, T # {}
    PROVE  \E x \in T : \A y \in T : x =< y
<1> DEFINE R == OpToRel(<, Nat)
<1>1. IsWellFoundedOn(R, Nat)
  BY NatLessThanWellFounded
<1>2. \A x, y \in Nat : <<y, x>> \in R <=> y < x
  BY DEF OpToRel
<1> HIDE DEF R
<1>3. PICK x \in T : \A y \in T : ~(<<y, x>> \in R)
  BY <1>1, WFMin
<1> SUFFICES \A y \in T : x =< y
  BY <1>3
<1> TAKE y \in T
<1>4. x \in Nat /\ y \in Nat
  OBVIOUS
<1>5. ~(y < x)
  BY <1>2, <1>3, <1>4
<1> QED BY <1>4, <1>5

(* A time below Half is stored in an int unchanged.                          *)
LEMMA ToIntIsIdentity ==
    ASSUME NEW t \in Nat, t < Half
    PROVE  ToInt(t) = t
<1>1. Half \in Nat \ {0}
  BY CacheAssumption
<1>2. (t + Half) % (2 * Half) = t + Half
  BY <1>1
<1> QED BY <1>1, <1>2 DEF ToInt

(* main sends every address to a set that exists and to a tag of the trace.  *)
LEMMA Placement ==
    ASSUME NEW a \in Address
    PROVE  SetOf(a) \in SetIndex /\ TagOf(a) \in Nat /\ TagOf(a) \in Tag
<1>1. a \in Nat /\ S \in Nat \ {0} /\ B \in Nat \ {0}
  BY CacheAssumption
<1>2. B * S \in Nat \ {0}
  BY <1>1
<1>3. \A x \in Nat, y \in Nat \ {0} : x \div y \in Nat
  OBVIOUS
<1>4. \A x \in Nat, y \in Nat \ {0} : x % y \in 0 .. y - 1
  OBVIOUS
<1> QED BY <1>1, <1>2, <1>3, <1>4 DEF SetOf, TagOf, SetIndex, Tag

(* The scan for the first line of a kind finds one if there is one.          *)
LEMMA FirstIsIn ==
    ASSUME NEW I \in SUBSET Lines, I # {}
    PROVE  First(I) \in I /\ First(I) \in Lines
<1>1. Lines \subseteq Nat
  BY CacheAssumption DEF Lines
<1>2. PICK i \in I : \A j \in I : i =< j
  BY <1>1, NatMin
<1> QED BY <1>2 DEF First
-----------------------------------------------------------------------------
(* What the theorems assume of a run, each of them no more than it needs.    *)
(* No line reads as valid before it is written: a set has only the line that *)
(* the initialisation loop does write, or malloc returned no such line.      *)
Unclaimed == E = 1 \/ \A l \in Leftover : l.valid = 0

(* The lines that the loop leaves out read as if it had written them.        *)
Zeroed == E = 1 \/ Leftover \subseteq {EmptyLine}

(* The stamps do not wrap.                                                   *)
Countable == MaxAccesses < Half

(* The inductive invariant: an access touches a line that holds its tag or,  *)
(* only if there is none, another one, which is then in use.                 *)
IInv ==
    /\ TypeOK
    /\ global_timer =< MaxAccesses
    /\ UniqueTags
    /\ TotalsAddUp

(* The lines in use can be counted, before a step and after it.              *)
LEMMA InUseIsFinite == TypeOK => IsFiniteSet(InUse) /\ IsFiniteSet(InUse')
<1>1. IsFiniteSet(SetIndex) /\ IsFiniteSet(Lines)
  BY CacheAssumption, FS_Interval DEF SetIndex, Lines
<1>2. IsFiniteSet(SetIndex \X Lines)
  BY <1>1, FS_Product
<1>3. InUse \subseteq SetIndex \X Lines /\ InUse' \subseteq SetIndex \X Lines
  BY DEF InUse
<1> QED BY <1>2, <1>3, FS_Subset

(* With one line to a set the initialisation loop reaches every line.        *)
LEMMA OnlyLine == E = 1 => \A i \in Lines : i = 0
BY DEF Lines

(* A cache whose lines are all invalid satisfies the invariant.              *)
LEMMA InitInvalid ==
    ASSUME Unclaimed, Init
    PROVE  \A set \in SetIndex, i \in Lines : ~Valid(set, i)
<1> SUFFICES ASSUME NEW set \in SetIndex, NEW i \in Lines PROVE ~Valid(set, i)
  OBVIOUS
<1>1. CASE i = 0
  BY <1>1 DEF Init, Valid, EmptyLine
<1>2. CASE i # 0
  <2>1. cache[set][i] \in Leftover
    BY <1>2 DEF Init
  <2> QED BY <1>2, <2>1, OnlyLine DEF Unclaimed, Valid
<1> QED BY <1>1, <1>2

LEMMA InitInv == Unclaimed /\ Init => IInv
<1> SUFFICES ASSUME Unclaimed, Init PROVE IInv
  OBVIOUS
<1>2. EmptyLine \in Line
  BY CacheAssumption DEF EmptyLine, Line, IntField
<1>3. TypeOK
  BY <1>2, LeftoverAssumption DEF Init, TypeOK
<1>4. \A set \in SetIndex, i \in Lines : ~Valid(set, i)
  BY InitInvalid
<1>5. UniqueTags
  BY <1>4 DEF UniqueTags
<1>6. InUse = {}
  BY <1>4 DEF InUse
<1>7. TotalsAddUp
  BY <1>6, FS_EmptySet DEF TotalsAddUp, Init
<1>8. global_timer =< MaxAccesses
  BY CacheAssumption DEF Init
<1> QED BY <1>3, <1>5, <1>7, <1>8 DEF IInv

(* What a touch of line i does, whichever branch of access_cache makes it.   *)
Touched(set, i, t) ==
    /\ global_timer' = global_timer + 1
    /\ global_timer' =< MaxAccesses
    /\ cache' \in [SetIndex -> [Lines -> Line]]
    /\ cache'[set][i] = [valid |-> 1, tag |-> t, lru_stamp |-> ToInt(global_timer + 1)]
    /\ \A s \in SetIndex, j \in Lines :
          <<s, j>> # <<set, i>> => cache'[s][j] = cache[s][j]

(* The stamp that is stored is an int, also when the conversion changes it.  *)
LEMMA StampIsInt ==
    ASSUME NEW t \in Nat
    PROVE  ToInt(t) \in -Half .. Half - 1
<1>1. Half \in Nat \ {0}
  BY CacheAssumption
<1>2. \A x \in Nat, y \in Nat \ {0} : x % y \in 0 .. y - 1
  OBVIOUS
<1>3. 2 * Half \in Nat \ {0} /\ t + Half \in Nat
  BY <1>1
<1>4. (t + Half) % (2 * Half) \in 0 .. 2 * Half - 1
  BY <1>2, <1>3
<1> QED BY <1>1, <1>4 DEF ToInt

(* A touch stamps line i with the new time and changes no other line.        *)
LEMMA TouchChanges ==
    ASSUME IInv, global_timer < MaxAccesses,
           NEW set \in SetIndex, NEW i \in Lines, NEW t \in Nat, Touch(set, i, t)
    PROVE  Touched(set, i, t)
<1>1. global_timer \in Nat /\ MaxAccesses \in Nat
  BY CacheAssumption DEF IInv, TypeOK
<1>2. global_timer + 1 \in Nat /\ global_timer + 1 =< MaxAccesses
  BY <1>1
<1> DEFINE new == [valid |-> 1, tag |-> t, lru_stamp |-> ToInt(global_timer + 1)]
<1>4. cache' = [cache EXCEPT ![set][i] = new]
  BY DEF Touch
<1>5. new \in Line
  BY <1>2, StampIsInt, CacheAssumption DEF Line, IntField
<1> HIDE DEF new
<1>6. cache \in [SetIndex -> [Lines -> Line]]
  BY DEF IInv, TypeOK
<1>7. cache' \in [SetIndex -> [Lines -> Line]]
  BY <1>4, <1>5, <1>6
<1>8. cache'[set][i] = new
  BY <1>4, <1>6
<1>9. \A s \in SetIndex, j \in Lines : <<s, j>> # <<set, i>> => cache'[s][j] = cache[s][j]
  BY <1>4, <1>6
<1> QED BY <1>2, <1>7, <1>8, <1>9 DEF Touch, Touched, new

(* The stamp it writes is the new time.                                      *)
LEMMA TouchStamps ==
    ASSUME Countable, IInv,
           NEW set \in SetIndex, NEW i \in Lines, NEW t \in Nat, Touched(set, i, t)
    PROVE  Stamp(set, i)' = global_timer + 1
<1>1. global_timer \in Nat /\ MaxAccesses \in Nat /\ Half \in Nat /\ MaxAccesses < Half
  BY CacheAssumption DEF IInv, TypeOK, Countable
<1>2. global_timer + 1 \in Nat /\ global_timer + 1 < Half
  BY <1>1 DEF Touched
<1> QED BY <1>2, ToIntIsIdentity DEF Touched, Stamp

(* The stamp a touch writes is larger than every other one.                  *)
LEMMA TouchKeepsStamps ==
    ASSUME Countable, IInv, StampsOrderUses,
           NEW set \in SetIndex, NEW i \in Lines, NEW t \in Nat, Touched(set, i, t)
    PROVE  StampsOrderUses'
<1> USE DEF Touched
<1>1. global_timer \in Nat
  BY DEF IInv, TypeOK
<1> DEFINE st(s, j) == cache[s][j].lru_stamp
<1>2. \A s \in SetIndex, j \in Lines :
        /\ st(s, j) \in 0 .. global_timer
        /\ Valid(s, j) <=> st(s, j) # 0
        /\ \A k \in Lines : st(s, j) = st(s, k) /\ Valid(s, j) => j = k
  BY DEF StampsOrderUses, Stamp
<1>3. st(set, i)' = global_timer + 1 /\ Valid(set, i)'
  <2>1. Stamp(set, i)' = global_timer + 1
    BY TouchStamps
  <2> QED BY <2>1 DEF Valid, Stamp
<1>4. \A s \in SetIndex, j \in Lines :
        <<s, j>> # <<set, i>> => /\ st(s, j)' = st(s, j)
                                 /\ Valid(s, j)' <=> Valid(s, j)
  BY DEF Valid
<1>5. global_timer' = global_timer + 1
  OBVIOUS
<1> HIDE DEF st
<1>6. ASSUME NEW s \in SetIndex, NEW j \in Lines
      PROVE  /\ st(s, j)' \in 0 .. global_timer'
             /\ Valid(s, j)' <=> st(s, j)' # 0
             /\ \A k \in Lines : st(s, j)' = st(s, k)' /\ Valid(s, j)' => j = k
  <2>1. CASE <<s, j>> = <<set, i>>
    <3>1. \A k \in Lines : k # i => st(set, k)' \in 0 .. global_timer
      BY <1>2, <1>4
    <3> QED BY <2>1, <3>1, <1>1, <1>3, <1>5
  <2>2. CASE <<s, j>> # <<set, i>>
    <3>1. st(s, j) \in 0 .. global_timer
      BY <1>2
    <3> QED BY <2>2, <3>1, <1>1, <1>2, <1>3, <1>4, <1>5
  <2> QED BY <2>1, <2>2
<1> QED BY <1>6 DEF StampsOrderUses, Stamp, st

(* A touch writes a tag twice only if another line held it.                  *)
LEMMA TouchKeepsUniqueTags ==
    ASSUME IInv,
           NEW set \in SetIndex, NEW i \in Lines, NEW t \in Nat, Touched(set, i, t),
           \A j \in Lines : Holds(set, j, t) => j = i
    PROVE  UniqueTags'
<1> USE DEF Touched
<1> DEFINE tag(s, j) == cache[s][j].tag
<1>1. \A s \in SetIndex, j, k \in Lines :
         Valid(s, j) /\ Valid(s, k) /\ tag(s, j) = tag(s, k) => j = k
  BY DEF IInv, UniqueTags
<1>2. tag(set, i)' = t
  OBVIOUS
<1>3. \A s \in SetIndex, j \in Lines :
        <<s, j>> # <<set, i>> => /\ tag(s, j)' = tag(s, j)
                                 /\ Valid(s, j)' <=> Valid(s, j)
  BY DEF Valid
<1>4. \A j \in Lines : Valid(set, j) /\ tag(set, j) = t => j = i
  BY DEF Holds
<1> HIDE DEF tag
<1>5. \A s \in SetIndex, j, k \in Lines :
         Valid(s, j)' /\ Valid(s, k)' /\ tag(s, j)' = tag(s, k)' => j = k
  BY <1>1, <1>2, <1>3, <1>4
<1> QED BY <1>5 DEF UniqueTags, tag

(* A touch brings line i into use and no other.                              *)
LEMMA TouchUses ==
    ASSUME IInv,
           NEW set \in SetIndex, NEW i \in Lines, NEW t \in Nat, Touched(set, i, t)
    PROVE  InUse' = InUse \cup {<<set, i>>}
<1> USE DEF Touched
<1>1. Valid(set, i)'
  BY DEF Valid
<1>2. \A s \in SetIndex, j \in Lines : <<s, j>> # <<set, i>> => (Valid(s, j)' <=> Valid(s, j))
  BY DEF Valid
<1>3. \A p \in SetIndex \X Lines : p = <<p[1], p[2]>> /\ p[1] \in SetIndex /\ p[2] \in Lines
  OBVIOUS
<1>4. <<set, i>> \in SetIndex \X Lines
  OBVIOUS
<1>5. \A p \in SetIndex \X Lines : p \in InUse' <=> (p \in InUse \/ p = <<set, i>>)
  BY <1>1, <1>2, <1>3, <1>4 DEF InUse
<1> QED BY <1>4, <1>5 DEF InUse

(* The scan for the least recently used line finds one.                      *)
LEMMA OldestExists ==
    ASSUME cache \in [SetIndex -> [Lines -> Line]], NEW set \in SetIndex
    PROVE  Oldest(set) # {}
<1>1. Half \in Nat /\ 0 \in Lines
  BY CacheAssumption DEF Lines
<1>2. \A i \in Lines : Stamp(set, i) \in Int /\ Stamp(set, i) + Half \in Nat
  BY <1>1 DEF Stamp, Line, IntField
<1> DEFINE T == {Stamp(set, i) + Half : i \in Lines}
<1>3. T # {} /\ T \in SUBSET Nat
  BY <1>1, <1>2
<1>4. PICK x \in T : \A y \in T : x =< y
  BY <1>3, NatMin
<1>5. PICK i \in Lines : x = Stamp(set, i) + Half
  BY <1>4
<1>6. \A j \in Lines : Stamp(set, i) + Half =< Stamp(set, j) + Half
  BY <1>4, <1>5
<1>7. \A j \in Lines : Stamp(set, i) =< Stamp(set, j)
  BY <1>1, <1>2, <1>6
<1> QED BY <1>7 DEF Oldest

(* Every branch of access_cache keeps the invariant.                         *)
LEMMA AccessInv ==
    ASSUME IInv, NEW set \in SetIndex, NEW t \in Nat,
           access_cache(set, t), again' \in SUBSET Access
    PROVE  IInv' /\ \E i \in Lines : Touched(set, i, t)
<1> USE DEF IInv
<1>1. global_timer < MaxAccesses
  BY DEF access_cache
<1>2. /\ hit \in Nat /\ miss \in Nat /\ eviction \in Nat /\ global_timer \in Nat
      /\ hit + miss = global_timer
      /\ miss = eviction + Cardinality(InUse)
  BY DEF TypeOK, TotalsAddUp
<1>3. IsFiniteSet(InUse)
  BY InUseIsFinite
<1>4. \A i \in Lines : <<set, i>> \in InUse <=> Valid(set, i)
  BY DEF InUse
<1>5. CASE Hit(set, t)
  <2> DEFINE i == First(Matching(set, t))
  <2>1. i \in Lines /\ Holds(set, i, t)
    BY <1>5, FirstIsIn DEF Hit, Matching
  <2>2. Touched(set, i, t)
    BY <1>1, <1>5, <2>1, TouchChanges DEF Hit
  <2>3. \A j \in Lines : Holds(set, j, t) => j = i
    BY <2>1 DEF Holds, UniqueTags
  <2> HIDE DEF i
  <2>4. InUse' = InUse
    BY <1>4, <2>1, <2>2, TouchUses DEF Holds
  <2>5. TotalsAddUp' /\ hit' \in Nat /\ miss' \in Nat /\ eviction' \in Nat
    <3> HIDE DEF IInv
    <3>1. hit' = hit + 1 /\ miss' = miss /\ eviction' = eviction
      BY <1>5 DEF Hit
    <3>2. global_timer' = global_timer + 1
      BY <2>2 DEF Touched
    <3> QED BY <1>2, <2>4, <3>1, <3>2 DEF TotalsAddUp
  <2>6. UniqueTags'
    BY <2>1, <2>2, <2>3, TouchKeepsUniqueTags
  <2> QED BY <2>1, <1>2, <2>2, <2>5, <2>6 DEF TypeOK, Touched
<1>6. CASE Fill(set, t)
  <2> DEFINE i == First(Empty(set))
  <2>1. i \in Lines /\ ~Valid(set, i)
    BY <1>6, FirstIsIn DEF Fill, Empty
  <2>2. Touched(set, i, t)
    BY <1>1, <1>6, <2>1, TouchChanges DEF Fill
  <2>3. \A j \in Lines : Holds(set, j, t) => j = i
    BY <1>6 DEF Fill, Matching
  <2> HIDE DEF i
  <2>4. InUse' = InUse \cup {<<set, i>>}
    BY <2>1, <2>2, TouchUses
  <2>5. Cardinality(InUse') = Cardinality(InUse) + 1 /\ Cardinality(InUse) \in Nat
    BY <1>3, <1>4, <2>1, <2>4, FS_AddElement, FS_CardinalityType
  <2>6. TotalsAddUp' /\ hit' \in Nat /\ miss' \in Nat /\ eviction' \in Nat
    <3> HIDE DEF IInv
    <3>1. miss' = miss + 1 /\ hit' = hit /\ eviction' = eviction
      BY <1>6 DEF Fill
    <3>2. global_timer' = global_timer + 1
      BY <2>2 DEF Touched
    <3> QED BY <1>2, <2>5, <3>1, <3>2 DEF TotalsAddUp
  <2>7. UniqueTags'
    BY <2>1, <2>2, <2>3, TouchKeepsUniqueTags
  <2> QED BY <2>1, <1>2, <2>2, <2>6, <2>7 DEF TypeOK, Touched
<1>7. CASE Evict(set, t)
  <2> DEFINE i == First(Oldest(set))
  <2>1. i \in Lines
    BY OldestExists, FirstIsIn DEF Oldest, IInv, TypeOK
  <2>2. Valid(set, i)
    BY <1>7, <2>1 DEF Evict, Empty
  <2>3. Touched(set, i, t)
    BY <1>1, <1>7, <2>1, TouchChanges DEF Evict
  <2>4. \A j \in Lines : Holds(set, j, t) => j = i
    BY <1>7 DEF Evict, Matching
  <2> HIDE DEF i
  <2>5. InUse' = InUse
    BY <1>4, <2>1, <2>2, <2>3, TouchUses
  <2>6. Cardinality(InUse) \in Nat
    BY <1>3, FS_CardinalityType
  <2>7. TotalsAddUp' /\ hit' \in Nat /\ miss' \in Nat /\ eviction' \in Nat
    <3> HIDE DEF IInv
    <3>1. miss' = miss + 1 /\ eviction' = eviction + 1 /\ hit' = hit
      BY <1>7 DEF Evict
    <3>2. global_timer' = global_timer + 1
      BY <2>3 DEF Touched
    <3> QED BY <1>2, <2>5, <2>6, <3>1, <3>2 DEF TotalsAddUp
  <2>8. UniqueTags'
    BY <2>1, <2>3, <2>4, TouchKeepsUniqueTags
  <2> QED BY <2>1, <1>2, <2>3, <2>7, <2>8 DEF TypeOK, Touched
<1> QED BY <1>5, <1>6, <1>7 DEF access_cache

(* Every line of the trace keeps the invariant and touches at most one line. *)
LEMMA NextInv ==
    IInv /\ [Next]_vars =>
        /\ IInv'
        /\ \/ \E set \in SetIndex, i \in Lines, t \in Nat : Touched(set, i, t)
           \/ UNCHANGED vars
<1> SUFFICES ASSUME IInv, [Next]_vars
             PROVE  /\ IInv'
                    /\ \/ \E set \in SetIndex, i \in Lines, t \in Nat : Touched(set, i, t)
                       \/ UNCHANGED vars
  OBVIOUS
<1>1. ASSUME NEW set \in SetIndex, NEW t \in Nat, access_cache(set, t),
             again' \in SUBSET Access
      PROVE  IInv' /\ \E s \in SetIndex, i \in Lines, u \in Nat : Touched(s, i, u)
  BY <1>1, AccessInv
<1>2. ASSUME NEW a \in Address, LoadOrStore(a) \/ ModifyLoad(a)
      PROVE  IInv' /\ \E s \in SetIndex, i \in Lines, u \in Nat : Touched(s, i, u)
  <2>1. SetOf(a) \in SetIndex /\ TagOf(a) \in Nat /\ TagOf(a) \in Tag
    BY Placement
  <2>2. [set |-> SetOf(a), tag |-> TagOf(a)] \in Access
    BY <2>1 DEF Access
  <2>3. again' \in SUBSET Access
    BY <1>2, <2>2 DEF LoadOrStore, ModifyLoad, IInv, TypeOK
  <2> QED BY <1>1, <1>2, <2>1, <2>3 DEF LoadOrStore, ModifyLoad
<1>3. CASE ModifyStore
  <2>1. PICK x \in again : access_cache(x.set, x.tag)
    BY <1>3 DEF ModifyStore
  <2>2. x.set \in SetIndex /\ x.tag \in Nat
    BY Placement DEF IInv, TypeOK, Access, Tag, TagOf
  <2>3. again' \in SUBSET Access
    BY <1>3 DEF ModifyStore
  <2> QED BY <1>1, <2>1, <2>2, <2>3
<1>4. CASE UNCHANGED vars
  <2>1. InUse' = InUse
    BY <1>4 DEF vars, InUse, Valid
  <2> QED BY <1>4, <2>1 DEF IInv, TypeOK, vars, totals, UniqueTags, TotalsAddUp, Valid
<1> QED BY <1>2, <1>3, <1>4 DEF Next

(* The totals and the tags of csim.c are consistent after every access, for  *)
(* every geometry and every trace, also when the stamps have wrapped.        *)
THEOREM Invariance == Unclaimed => (Spec => []IInv)
<1> SUFFICES ASSUME Unclaimed PROVE Spec => []IInv
  OBVIOUS
<1>1. Init => IInv
  BY InitInv
<1>2. IInv /\ [Next]_vars => IInv'
  BY NextInv
<1> QED BY <1>1, <1>2, PTL DEF Spec

(* The totals that printSummary prints: hits and misses make up the accesses *)
(* and the misses that evicted nothing are the lines in use.                 *)
THEOREM TotalsAlwaysAddUp == Unclaimed => (Spec => []TotalsAddUp)
<1>1. IInv => TotalsAddUp
  BY DEF IInv
<1> QED BY <1>1, Invariance, PTL

(* What the comment "Default init." promises holds of memory in which no     *)
(* line reads as valid, and of a direct-mapped cache whatever the memory     *)
(* holds: the first access misses.                                           *)
THEOREM FirstAccessOftenMisses == Unclaimed => (Spec => FirstAccessMisses)
<1> SUFFICES ASSUME Unclaimed PROVE Spec => FirstAccessMisses
  OBVIOUS
<1>1. ASSUME IInv, global_timer = 0 PROVE InUse = {} /\ miss = 0
  <2>1. /\ hit \in Nat /\ miss \in Nat /\ eviction \in Nat /\ hit + miss = 0
        /\ miss = eviction + Cardinality(InUse)
    BY <1>1 DEF IInv, TypeOK, TotalsAddUp
  <2>2. IsFiniteSet(InUse) /\ Cardinality(InUse) \in Nat
    BY <1>1, InUseIsFinite, FS_CardinalityType DEF IInv
  <2>3. PICK n \in Nat : n = Cardinality(InUse)
    BY <2>2
  <2>4. n = 0 /\ miss = 0
    <3>1. miss = eviction + n
      BY <2>1, <2>3
    <3>2. miss = 0
      BY <2>1
    <3> QED BY <2>1, <3>1, <3>2
  <2> QED BY <2>2, <2>3, <2>4, FS_EmptySet
<1>2. ASSUME IInv, global_timer = 0, NEW set \in SetIndex, NEW t, access_cache(set, t)
      PROVE  miss' = 1
  <2>1. \A i \in Lines : ~Valid(set, i)
    <3>1. \A i \in Lines : Valid(set, i) => <<set, i>> \in InUse
      BY DEF InUse
    <3> QED BY <1>1, <1>2, <3>1
  <2>2. Matching(set, t) = {}
    BY <2>1 DEF Matching, Holds
  <2>3. miss' = miss + 1
    BY <1>2, <2>2 DEF access_cache, Hit, Fill, Evict
  <2> QED BY <1>1, <1>2, <2>3
<1>3. IInv /\ [Next]_vars => [global_timer = 0 /\ global_timer' = 1 => miss' = 1]_vars
  <2> SUFFICES ASSUME IInv, Next, global_timer = 0 PROVE miss' = 1
    OBVIOUS
  <2>1. ASSUME NEW a \in Address, LoadOrStore(a) \/ ModifyLoad(a) PROVE miss' = 1
    BY <1>2, <2>1, Placement DEF LoadOrStore, ModifyLoad
  <2>2. ASSUME ModifyStore PROVE miss' = 1
    <3>1. PICK x \in again : access_cache(x.set, x.tag)
      BY <2>2 DEF ModifyStore
    <3>2. x.set \in SetIndex
      BY DEF IInv, TypeOK, Access
    <3> QED BY <1>2, <3>1, <3>2
  <2> QED BY <2>1, <2>2 DEF Next
<1> QED BY <1>3, Invariance, PTL DEF Spec, FirstAccessMisses

(* No set holds a block twice and the stamps order its lines by last use:    *)
(* that no two lines are stamped alike, and that only lines in use carry a   *)
(* stamp, follows from all stamps being at most global_timer.                *)
THEOREM StampsAlwaysOrderUses ==
    Zeroed /\ Countable => (Spec => [](UniqueTags /\ StampsOrderUses))
<1> SUFFICES ASSUME Zeroed, Countable PROVE Spec => [](UniqueTags /\ StampsOrderUses)
  OBVIOUS
<1>1. Unclaimed
  BY DEF Zeroed, Unclaimed, EmptyLine
<1>2. Init => StampsOrderUses
  <2> SUFFICES ASSUME Init PROVE StampsOrderUses
    OBVIOUS
  <2>1. ASSUME NEW set \in SetIndex, NEW i \in Lines PROVE cache[set][i] = EmptyLine
    <3>1. CASE i = 0
      BY <3>1 DEF Init
    <3>2. CASE i # 0
      BY <3>2, OnlyLine DEF Init, Zeroed
    <3> QED BY <3>1, <3>2
  <2>2. \A set \in SetIndex, i \in Lines : ~Valid(set, i) /\ Stamp(set, i) = 0
    BY <2>1 DEF Valid, Stamp, EmptyLine
  <2> QED BY <2>2 DEF StampsOrderUses, Init
<1>3. IInv /\ StampsOrderUses /\ [Next]_vars => StampsOrderUses'
  <2> SUFFICES ASSUME IInv, StampsOrderUses, [Next]_vars PROVE StampsOrderUses'
    OBVIOUS
  <2>1. CASE \E set \in SetIndex, i \in Lines, t \in Nat : Touched(set, i, t)
    BY <2>1, TouchKeepsStamps
  <2>2. CASE UNCHANGED vars
    BY <2>2 DEF vars, StampsOrderUses, Stamp, Valid
  <2> QED BY <2>1, <2>2, NextInv
<1>4. IInv => UniqueTags
  BY DEF IInv
<1>5. Spec => []IInv
  BY <1>1, Invariance
<1> QED BY <1>2, <1>3, <1>4, <1>5, PTL DEF Spec
-----------------------------------------------------------------------------
(* The refinement.                                                           *)
ValidLines(set) == {i \in Lines : Valid(set, i)}

(* The line that holds a tag is the one LineOf chooses, before and after.    *)
LEMMA LineOfIs ==
    ASSUME NEW set \in SetIndex, NEW i \in Lines, NEW t
    PROVE  /\ UniqueTags /\ Holds(set, i, t) => LineOf(set, t) = i
           /\ UniqueTags' /\ Holds(set, i, t)' => LineOf(set, t)' = i
<1>1. ASSUME UniqueTags, Holds(set, i, t)
      PROVE  LineOf(set, t) = i
  <2>1. \A j \in Lines : Holds(set, j, t) => j = i
    BY <1>1 DEF UniqueTags, Holds
  <2> QED BY <1>1, <2>1 DEF LineOf
<1>2. ASSUME UniqueTags', Holds(set, i, t)'
      PROVE  LineOf(set, t)' = i
  <2>1. \A j \in Lines : Holds(set, j, t)' => j = i
    BY <1>2 DEF UniqueTags, Holds
  <2> QED BY <1>2, <2>1 DEF LineOf
<1> QED BY <1>1, <1>2

(* A set has as many resident tags as valid lines.                           *)
LEMMA AsManyTagsAsLines ==
    ASSUME IInv, NEW set \in SetIndex
    PROVE  /\ Cardinality(ResidentTags(set)) = Cardinality(ValidLines(set))
           /\ Empty(set) = {} => Cardinality(ResidentTags(set)) = E
           /\ Empty(set) # {} => Cardinality(ResidentTags(set)) < E
<1> DEFINE V == ValidLines(set)
           R == ResidentTags(set)
           f == [i \in V |-> cache[set][i].tag]
<1>1. IsFiniteSet(Lines) /\ Cardinality(Lines) = E /\ E \in Nat
  BY CacheAssumption, FS_Interval DEF Lines
<1>2. V \in SUBSET Lines
  BY DEF ValidLines
<1>3. /\ IsFiniteSet(V) /\ Cardinality(V) =< E
      /\ Cardinality(V) = E => V = Lines
  BY <1>1, <1>2, FS_Subset
<1>4. f \in [V -> R] /\ \A t \in R : \E i \in V : f[i] = t
  BY DEF ValidLines, ResidentTags
<1>5. \A i, j \in V : f[i] = f[j] => i = j
  BY DEF ValidLines, IInv, UniqueTags
<1>6. f \in Surjection(V, R)
  BY <1>4 DEF Surjection
<1>7. f \in Injection(V, R)
  BY <1>4, <1>5 DEF Injection, IsInjective
<1> HIDE DEF V, R, f
<1>8. Cardinality(R) = Cardinality(V)
  BY <1>3, <1>6, <1>7, FS_Surjection
<1>9. Cardinality(V) \in Nat
  BY <1>3, FS_CardinalityType
<1>10. V = Lines <=> Empty(set) = {}
  BY DEF V, ValidLines, Empty
<1> QED BY <1>1, <1>3, <1>8, <1>9, <1>10 DEF V, R

(* Touching line i is a use of t after which t and the tags of the other     *)
(* valid lines are resident.                                                 *)
LEMMA TouchIsUse ==
    ASSUME Countable, IInv, IInv', NEW set \in SetIndex, NEW i \in Lines, NEW t \in Nat,
           Touched(set, i, t), NEW kept,
           kept \cup {t} = {t} \cup {cache[set][j].tag : j \in ValidLines(set) \ {i}},
           kept \subseteq ResidentTags(set)
    PROVE  LRU!Use(set, t, kept)
<1> USE DEF Touched
<1>1. UniqueTags /\ UniqueTags'
  BY DEF IInv
<1>2. Holds(set, i, t)' /\ Stamp(set, i)' = global_timer + 1
  BY TouchStamps DEF Holds, Valid
<1>3. \A s \in SetIndex, j \in Lines :
        <<s, j>> # <<set, i>> =>
            /\ Valid(s, j)' <=> Valid(s, j)
            /\ Stamp(s, j)' = Stamp(s, j)
            /\ cache'[s][j].tag = cache[s][j].tag
            /\ \A u : Holds(s, j, u)' <=> Holds(s, j, u)
  BY DEF Valid, Stamp, Holds
<1> DEFINE g == [u \in kept \cup {t} |->
                    IF u = t THEN global_timer + 1 ELSE LastUse[set][u]]
<1>4. ASSUME NEW s \in SetIndex, s # set
      PROVE  LastUse'[s] = LastUse[s]
  <2>1. ResidentTags(s)' = ResidentTags(s)
    BY <1>3, <1>4 DEF ResidentTags
  <2>2. ASSUME NEW u \in ResidentTags(s)
        PROVE  Stamp(s, LineOf(s, u))' = Stamp(s, LineOf(s, u))
    <3>1. PICK j \in Lines : Holds(s, j, u)
      BY DEF ResidentTags, Holds
    <3>2. LineOf(s, u) = j /\ LineOf(s, u)' = j
      BY <1>1, <1>3, <1>4, <3>1, LineOfIs
    <3> QED BY <1>3, <1>4, <3>2 DEF Stamp
  <2> QED BY <2>1, <2>2 DEF LastUse
<1>5. ResidentTags(set)' = kept \cup {t}
  <2>1. \A u \in kept \cup {t} : u \in ResidentTags(set)'
    <3> TAKE u \in kept \cup {t}
    <3>1. CASE u = t
      BY <1>2, <3>1 DEF ResidentTags, Holds
    <3>2. CASE u # t
      <4>1. PICK j \in ValidLines(set) \ {i} : u = cache[set][j].tag
        BY <3>2
      <4> QED BY <1>3, <4>1 DEF ResidentTags, ValidLines
    <3> QED BY <3>1, <3>2
  <2>2. ASSUME NEW u \in ResidentTags(set)'
        PROVE  u \in kept \cup {t}
    <3>1. PICK j \in Lines : Valid(set, j)' /\ u = cache'[set][j].tag
      BY DEF ResidentTags
    <3>2. CASE j = i
      BY <1>2, <3>1, <3>2 DEF Holds
    <3>3. CASE j # i
      BY <1>3, <3>1, <3>3 DEF ValidLines
    <3> QED BY <3>2, <3>3
  <2> QED BY <2>1, <2>2
<1>6. ASSUME NEW u \in kept \cup {t}
      PROVE  Stamp(set, LineOf(set, u))' = g[u]
  <2>1. CASE u = t
    <3>1. LineOf(set, u)' = i
      BY <1>1, <1>2, <2>1, LineOfIs
    <3> QED BY <1>2, <2>1, <3>1 DEF Stamp
  <2>2. CASE u # t
    <3>1. PICK j \in ValidLines(set) \ {i} : u = cache[set][j].tag
      BY <2>2
    <3>2. j \in Lines /\ Holds(set, j, u)
      BY <3>1 DEF ValidLines, Holds
    <3>3. LineOf(set, u) = j /\ LineOf(set, u)' = j
      BY <1>1, <1>3, <3>1, <3>2, LineOfIs
    <3>4. u \in ResidentTags(set)
      BY <2>2
    <3>5. LastUse[set][u] = Stamp(set, j)
      BY <3>3, <3>4 DEF LastUse
    <3> QED BY <1>3, <2>2, <3>1, <3>2, <3>3, <3>5 DEF Stamp
  <2> QED BY <2>1, <2>2
<1>7. LastUse'[set] = g
  BY <1>5, <1>6 DEF LastUse
<1>8. LastUse' = [LastUse EXCEPT ![set] = g]
  <2>1. DOMAIN LastUse = SetIndex /\ DOMAIN LastUse' = SetIndex
    BY DEF LastUse
  <2>2. LastUse' = [s \in SetIndex |-> LastUse'[s]] /\ LastUse = [s \in SetIndex |-> LastUse[s]]
    BY DEF LastUse
  <2> HIDE DEF g
  <2> QED BY <1>4, <1>7, <2>1, <2>2
<1> QED BY <1>8 DEF LRU!Use

(* The instance of LRUSpec counts as this module does.                       *)
LEMMA SameCardinality == \A X : LRU!Cardinality(X) = Cardinality(X)
BY DEF LRU!Cardinality, Cardinality, LRU!IsFiniteSet, IsFiniteSet

(* Each branch of access_cache is the transition of that name of LRUSpec.    *)
LEMMA AccessIsLRU ==
    ASSUME Countable, IInv, IInv', NEW set \in SetIndex, NEW t \in Tag, t \in Nat,
           access_cache(set, t)
    PROVE  LRU!Next
<1> DEFINE R == ResidentTags(set)
<1>1. global_timer < MaxAccesses /\ UniqueTags
  BY DEF access_cache, IInv
<1>2. LRU!Resident(set) = R
  BY DEF LRU!Resident, LastUse
<1>3. t \in R <=> Matching(set, t) # {}
  BY DEF ResidentTags, Matching, Holds
<1>4. CASE Hit(set, t)
  <2> DEFINE i == First(Matching(set, t))
  <2>1. i \in Lines /\ Holds(set, i, t)
    BY <1>4, FirstIsIn DEF Hit, Matching
  <2>2. Touched(set, i, t)
    BY <1>1, <1>4, <2>1, TouchChanges DEF Hit
  <2> HIDE DEF i
  <2>3. R \cup {t} = {t} \cup {cache[set][j].tag : j \in ValidLines(set) \ {i}}
    BY <2>1 DEF ResidentTags, ValidLines, Holds
  <2>4. LRU!Use(set, t, R)
    BY <2>1, <2>2, <2>3, TouchIsUse
  <2>5. LRU!Hit(set, t)
    BY <1>2, <1>3, <1>4, <2>4 DEF Hit, LRU!Hit
  <2> QED BY <2>5 DEF LRU!Next
<1>5. CASE Fill(set, t)
  <2> DEFINE i == First(Empty(set))
  <2>1. i \in Lines /\ ~Valid(set, i)
    BY <1>5, FirstIsIn DEF Fill, Empty
  <2>2. Touched(set, i, t)
    BY <1>1, <1>5, <2>1, TouchChanges DEF Fill
  <2> HIDE DEF i
  <2>3. R \cup {t} = {t} \cup {cache[set][j].tag : j \in ValidLines(set) \ {i}}
    BY <2>1 DEF ResidentTags, ValidLines
  <2>4. LRU!Use(set, t, R)
    BY <2>1, <2>2, <2>3, TouchIsUse
  <2>5. Cardinality(R) < E
    BY <1>5, AsManyTagsAsLines DEF Fill
  <2>6. LRU!Fill(set, t)
    BY <1>2, <1>3, <1>5, <2>4, <2>5, SameCardinality DEF Fill, LRU!Fill
  <2> QED BY <2>6 DEF LRU!Next
<1>6. CASE Evict(set, t)
  <2> DEFINE i == First(Oldest(set))
             victim == cache[set][i].tag
  <2>1. i \in Lines /\ \A j \in Lines : Stamp(set, i) =< Stamp(set, j)
    <3>1. Oldest(set) # {} /\ Oldest(set) \in SUBSET Lines
      BY OldestExists DEF Oldest, IInv, TypeOK
    <3>2. i \in Oldest(set)
      BY <3>1, FirstIsIn
    <3> QED BY <3>1, <3>2 DEF Oldest
  <2>2. \A j \in Lines : Valid(set, j)
    BY <1>6 DEF Evict, Empty
  <2>3. Touched(set, i, t)
    BY <1>1, <1>6, <2>1, TouchChanges DEF Evict
  <2> HIDE DEF i
  <2>4. victim \in R
    BY <2>1, <2>2 DEF ResidentTags
  <2>5. R \ {victim} = {cache[set][j].tag : j \in ValidLines(set) \ {i}}
    BY <1>1, <2>1, <2>2 DEF ResidentTags, ValidLines, UniqueTags
  <2>6. LRU!Use(set, t, R \ {victim})
    BY <2>1, <2>3, <2>5, TouchIsUse
  <2>7. \A j \in Lines : LastUse[set][cache[set][j].tag] = Stamp(set, j)
    <3> TAKE j \in Lines
    <3>1. Holds(set, j, cache[set][j].tag) /\ cache[set][j].tag \in R
      BY <2>2 DEF Holds, ResidentTags
    <3>2. LineOf(set, cache[set][j].tag) = j
      BY <1>1, <3>1, LineOfIs
    <3> QED BY <3>1, <3>2 DEF LastUse
  <2>8. \A u \in R : LastUse[set][victim] =< LastUse[set][u]
    BY <2>1, <2>7 DEF ResidentTags
  <2>9. Cardinality(R) = E
    BY <1>6, AsManyTagsAsLines DEF Evict
  <2>10. LRU!Evict(set, t, victim)
    BY <1>2, <1>3, <1>6, <2>4, <2>6, <2>8, <2>9, SameCardinality DEF Evict, LRU!Evict
  <2> QED BY <1>2, <2>4, <2>10 DEF LRU!Next
<1> QED BY <1>4, <1>5, <1>6 DEF access_cache

(* A cache whose lines are all invalid is the empty LRU cache.               *)
LEMMA InitIsLRU == Unclaimed /\ Init => LRU!Init
<1> SUFFICES ASSUME Unclaimed, Init PROVE LRU!Init
  OBVIOUS
<1>2. \A set \in SetIndex : ResidentTags(set) = {}
  BY InitInvalid DEF ResidentTags
<1>3. LastUse = [set \in SetIndex |-> [t \in {} |-> 0]]
  BY <1>2 DEF LastUse
<1> QED BY <1>3 DEF Init, LRU!Init

(* Every step of the simulator is a step of the LRU cache.                   *)
LEMMA NextIsLRU ==
    Countable /\ IInv /\ IInv' /\ [Next]_vars => [LRU!Next]_(LRU!vars)
<1> SUFFICES ASSUME Countable, IInv, IInv', [Next]_vars
             PROVE  LRU!Next \/ UNCHANGED LRU!vars
  OBVIOUS
<1>1. ASSUME NEW a \in Address, LoadOrStore(a) \/ ModifyLoad(a)
      PROVE  LRU!Next
  BY <1>1, Placement, AccessIsLRU DEF LoadOrStore, ModifyLoad
<1>2. CASE ModifyStore
  <2>1. PICK x \in again : access_cache(x.set, x.tag)
    BY <1>2 DEF ModifyStore
  <2>2. x.set \in SetIndex /\ x.tag \in Tag
    BY DEF IInv, TypeOK, Access
  <2>3. x.tag \in Nat
    BY <2>2, Placement DEF Tag, TagOf
  <2> QED BY <2>1, <2>2, <2>3, AccessIsLRU
<1>3. CASE UNCHANGED vars
  <2>1. LastUse' = LastUse
    BY <1>3 DEF vars, LastUse, ResidentTags, LineOf, Holds, Valid, Stamp
  <2> QED BY <1>3, <2>1 DEF vars, totals, LRU!vars
<1> QED BY <1>1, <1>2, <1>3 DEF Next

(* csim.c is an LRU cache of every geometry: each access hits, fills or      *)
(* evicts exactly when and what LRUSpec does.                                *)
THEOREM Refinement == Unclaimed /\ Countable => (Spec => ImplementsLRU)
<1> SUFFICES ASSUME Unclaimed, Countable PROVE Spec => ImplementsLRU
  OBVIOUS
<1>1. Init => LRU!Init
  BY InitIsLRU
<1>2. IInv /\ IInv' /\ [Next]_vars => [LRU!Next]_(LRU!vars)
  BY NextIsLRU
<1>3. Spec => []IInv
  BY Invariance
<1> QED BY <1>1, <1>2, <1>3, PTL DEF Spec, ImplementsLRU, LRU!Spec
-----------------------------------------------------------------------------
(* A store right after a load of the same block finds it, whatever the       *)
(* memory held at first and however many accesses came before: the block was *)
(* written into a line of its set, and nothing touched the cache since.      *)
PendingResident ==
    \A x \in again : Matching(x.set, x.tag) # {}

PInv ==
    /\ cache \in [SetIndex -> [Lines -> Line]]
    /\ global_timer \in Nat
    /\ again \in SUBSET Access
    /\ PendingResident

(* The block a touch was for is in its set afterwards.                       *)
LEMMA TouchLeavesBlock ==
    ASSUME PInv, NEW set \in SetIndex, NEW i \in Lines, NEW t \in Nat, Touch(set, i, t)
    PROVE  /\ cache' \in [SetIndex -> [Lines -> Line]]
           /\ global_timer' \in Nat
           /\ Matching(set, t)' # {}
<1> DEFINE st == ToInt(global_timer + 1)
<1>1. st \in -Half .. Half - 1
  BY StampIsInt DEF PInv
<1> HIDE DEF st
<1>2. [valid |-> 1, tag |-> t, lru_stamp |-> st] \in Line
  BY <1>1, CacheAssumption DEF Line, IntField
<1>3. cache' = [cache EXCEPT ![set][i] = [valid |-> 1, tag |-> t, lru_stamp |-> st]]
  BY DEF Touch, st
<1>4. cache' \in [SetIndex -> [Lines -> Line]]
  BY <1>2, <1>3 DEF PInv
<1>5. Holds(set, i, t)'
  BY <1>3 DEF PInv, Holds, Valid
<1> QED BY <1>4, <1>5 DEF PInv, Touch, Matching

(* The block an access was for is in its set afterwards.                     *)
LEMMA AccessLeavesBlock ==
    ASSUME PInv, NEW set \in SetIndex, NEW t \in Nat, access_cache(set, t)
    PROVE  /\ cache' \in [SetIndex -> [Lines -> Line]]
           /\ global_timer' \in Nat
           /\ Matching(set, t)' # {}
<1>1. CASE Hit(set, t)
  BY <1>1, FirstIsIn, TouchLeavesBlock DEF Hit, Matching
<1>2. CASE Fill(set, t)
  BY <1>2, FirstIsIn, TouchLeavesBlock DEF Fill, Empty
<1>3. CASE Evict(set, t)
  BY <1>3, OldestExists, FirstIsIn, TouchLeavesBlock DEF Evict, Oldest, PInv
<1> QED BY <1>1, <1>2, <1>3 DEF access_cache

(* The load of a modify leaves its block for the store.                      *)
LEMMA PendingInv ==
    PInv /\ [Next]_vars =>
        PInv' /\ (again # {} /\ again' = {} => hit' = hit + 1 \/ UNCHANGED vars)
<1> SUFFICES ASSUME PInv, [Next]_vars
             PROVE  PInv' /\ (again # {} /\ again' = {} => hit' = hit + 1 \/ UNCHANGED vars)
  OBVIOUS
<1>1. ASSUME NEW a \in Address, LoadOrStore(a)
      PROVE  PInv' /\ again = {}
  BY <1>1, Placement, AccessLeavesBlock DEF LoadOrStore, PInv, PendingResident
<1>2. ASSUME NEW a \in Address, ModifyLoad(a)
      PROVE  PInv' /\ again = {}
  <2>1. [set |-> SetOf(a), tag |-> TagOf(a)] \in Access
    BY Placement DEF Access
  <2> QED BY <1>2, <2>1, Placement, AccessLeavesBlock DEF ModifyLoad, PInv, PendingResident
<1>3. CASE ModifyStore
  <2>1. PICK x \in again : access_cache(x.set, x.tag)
    BY <1>3 DEF ModifyStore
  <2>2. x.set \in SetIndex /\ x.tag \in Tag
    BY DEF PInv, Access
  <2>3. x.tag \in Nat
    BY <2>2, Placement DEF Tag, TagOf
  <2>4. PInv'
    BY <1>3, <2>1, <2>2, <2>3, AccessLeavesBlock DEF ModifyStore, PInv, PendingResident
  <2>5. Matching(x.set, x.tag) # {}
    BY DEF PInv, PendingResident
  <2>6. hit' = hit + 1
    BY <2>1, <2>5 DEF access_cache, Hit, Fill, Evict
  <2> QED BY <2>4, <2>6
<1>4. CASE UNCHANGED vars
  BY <1>4 DEF vars, PInv, PendingResident, Matching, Holds, Valid
<1> QED BY <1>1, <1>2, <1>3, <1>4 DEF Next

(* The store of a modify hits, as the handout's rule that a modify is at     *)
(* most one miss needs (csim.c, the case 'M').                               *)
THEOREM StoreHits == Spec => StoreOfModifyHits
<1>1. Init => PInv
  <2> SUFFICES ASSUME Init PROVE PInv
    OBVIOUS
  <2>1. EmptyLine \in Line
    BY CacheAssumption DEF EmptyLine, Line, IntField
  <2> QED BY <2>1, LeftoverAssumption DEF Init, PInv, PendingResident
<1>2. PInv /\ [Next]_vars => PInv'
  BY PendingInv
<1>3. PInv /\ [Next]_vars => [again # {} /\ again' = {} => hit' = hit + 1]_vars
  BY PendingInv
<1> QED BY <1>1, <1>2, <1>3, PTL DEF Spec, StoreOfModifyHits

(* The simulator keeps its types, whatever memory malloc returned and even   *)
(* after the stamps have wrapped around.                                     *)
THEOREM TypeCorrect == Spec => []TypeOK
<1> DEFINE Counters == hit \in Nat /\ miss \in Nat /\ eviction \in Nat
<1>1. Init => PInv /\ Counters
  <2> SUFFICES ASSUME Init PROVE PInv /\ Counters
    OBVIOUS
  <2>1. EmptyLine \in Line
    BY CacheAssumption DEF EmptyLine, Line, IntField
  <2> QED BY <2>1, LeftoverAssumption DEF Init, PInv, PendingResident
<1>2. PInv /\ Counters /\ [Next]_vars => PInv' /\ Counters'
  <2> SUFFICES ASSUME PInv, Counters, [Next]_vars PROVE PInv' /\ Counters'
    OBVIOUS
  <2>1. ASSUME NEW set, NEW t, access_cache(set, t) PROVE Counters'
    BY <2>1 DEF access_cache, Hit, Fill, Evict
  <2>2. UNCHANGED vars => Counters'
    BY DEF vars, totals
  <2> HIDE DEF Counters
  <2>3. Next => Counters'
    BY <2>1 DEF Next, LoadOrStore, ModifyLoad, ModifyStore
  <2>4. PInv'
    BY PendingInv
  <2> QED BY <2>2, <2>3, <2>4
<1>3. PInv /\ Counters => TypeOK
  BY DEF PInv, TypeOK
<1> QED BY <1>1, <1>2, <1>3, PTL DEF Spec
=============================================================================
