-------------------------- MODULE TransMissesProofs --------------------------
(* The replay composes tracegen and csim without disturbing either: below    *)
(* its steps each of them runs as it does alone, so that what is proved of   *)
(* each holds of the program that computes the score.                        *)
EXTENDS TransMisses, TraceGenProofs

SimProofs == INSTANCE CSimProofs WITH B <- BlockBytes

-----------------------------------------------------------------------------
(* Every address that is replayed is one of the arrays' or the markers'.     *)

LEMMA Flat ==
    ASSUME NEW m \in Nat, NEW n \in Nat, m =< 256, n =< 256,
           NEW r \in 0 .. n - 1, NEW c \in 0 .. m - 1
    PROVE  m * r + c \in Nat /\ m * r + c < 65536
<1>1. r * m + c \in 0 .. n * m - 1
  BY NumberOf
<1>2. n * m =< 256 * m
  <2>1. PICK d \in Nat : 256 = n + d
    <3>1. 256 - n \in Nat /\ 256 = n + (256 - n)
      OBVIOUS
    <3> QED BY <3>1
  <2>2. 256 * m = n * m + d * m
    BY <2>1
  <2>3. d * m >= 0
    OBVIOUS
  <2> QED BY <2>2, <2>3
<1>3. m * r = r * m /\ m * r \in Nat
  OBVIOUS
<1>4. PICK k \in Nat : k = n * m
  <2>1. n * m \in Nat
    OBVIOUS
  <2> QED BY <2>1
<1>5. m * r + c \in Nat /\ m * r + c < k
  BY <1>1, <1>3, <1>4
<1>6. k =< 65536
  BY <1>2, <1>4
<1> QED BY <1>5, <1>6

LEMMA EveryInt ==
    /\ ArrayBytes = 262144 /\ MarkerAddress = 524288
    /\ \A n \in Nat : n =< 131072 => 4 * n \in Address
<1>1. 4 * 256 * 256 = 262144 /\ 2 * 262144 = 524288 /\ 524288 \div 4 = 131072
  OBVIOUS
<1>2. ArrayBytes = 262144 /\ MarkerAddress = 524288
  BY <1>1 DEF ArrayBytes, MarkerAddress
<1> DEFINE last == MarkerAddress \div 4
<1>3. \A n \in 0 .. last : 4 * n \in Address
  BY SimulatorAssumption
<1>4. last = 131072
  BY <1>1, <1>2
<1> HIDE DEF last
<1>5. ASSUME NEW n \in Nat, n =< 131072 PROVE n \in 0 .. last
  <2>1. last \in Int /\ n =< last
    BY <1>4, <1>5
  <2> QED BY <2>1
<1> QED BY <1>2, <1>3, <1>5

LEMMA AddressesKnown ==
    ASSUME M \in Nat, N \in Nat, M =< 256, N =< 256, NEW cell, Within(cell, M, N)
    PROVE  AddressOf(cell) \in Address
<1>1. CASE cell[1] = "A"
  <2>1. cell[2] \in 0 .. N - 1 /\ cell[3] \in 0 .. M - 1
    BY <1>1 DEF Within
  <2>2. M * cell[2] + cell[3] \in Nat /\ M * cell[2] + cell[3] < 65536
    BY <2>1, Flat
  <2>3. PICK k \in Nat : k = M * cell[2] + cell[3] /\ k < 65536
    BY <2>2
  <2>4. AddressOf(cell) = 4 * k
    BY <1>1, <2>3 DEF AddressOf
  <2> QED BY <2>3, <2>4, EveryInt, SMT
<1>2. CASE cell[1] = "B"
  <2>1. cell[2] \in 0 .. M - 1 /\ cell[3] \in 0 .. N - 1
    BY <1>2 DEF Within
  <2>2. N * cell[2] + cell[3] \in Nat /\ N * cell[2] + cell[3] < 65536
    BY <2>1, Flat
  <2>3. PICK k \in Nat : k = N * cell[2] + cell[3] /\ k < 65536
    BY <2>2
  <2>4. AddressOf(cell) = 262144 + 4 * k
    BY <1>2, <2>3, EveryInt DEF AddressOf
  <2>5. 262144 + 4 * k = 4 * (65536 + k) /\ 65536 + k \in Nat /\ 65536 + k =< 131072
    BY <2>3
  <2>6. PICK n \in Nat : n = 65536 + k
    BY <2>5
  <2>7. n =< 131072 /\ AddressOf(cell) = 4 * n
    BY <2>4, <2>5, <2>6, SMT
  <2> QED BY <2>7, EveryInt, SMT
<1> QED BY <1>1, <1>2 DEF Within

LEMMA MarkerKnown == MarkerAddress \in Address
<1>1. MarkerAddress = 4 * 131072 /\ 131072 \in Nat
  BY EveryInt
<1> QED BY <1>1, EveryInt

LEMMA AccessesKnown ==
    ASSUME M \in Nat, N \in Nat, M =< 256, N =< 256, NEW it, Fine(it, M, N)
    PROVE  Accesses(it) \in Seq(Address)
<1>1. /\ it.loads \in Seq(Cell) /\ it.stores \in Seq([to : Cell, from : Nat])
      /\ \A p \in DOMAIN it.loads : Within(it.loads[p], M, N)
      /\ \A p \in DOMAIN it.stores : Within(it.stores[p].to, M, N)
  BY DEF Fine, Iteration
<1>2. [p \in DOMAIN it.loads |-> AddressOf(it.loads[p])] \in Seq(Address)
  BY <1>1, AddressesKnown
<1>3. [p \in DOMAIN it.stores |-> AddressOf(it.stores[p].to)] \in Seq(Address)
  BY <1>1, AddressesKnown
<1> QED BY <1>2, <1>3 DEF Accesses
-----------------------------------------------------------------------------
(* The invariant of the composition: tracegen's own, and that the trace      *)
(* holds addresses the simulator knows.                                      *)
ReplayInv == TransposeInv /\ trace \in Seq(Address)

LEMMA ReplayInitInv == ReplayInit => ReplayInv
BY InitTransposes DEF ReplayInit, ReplayInv

(* A step of the replay is one of tracegen and none of csim, or the reverse. *)
LEMMA ReplayStep ==
    ASSUME ReplayInv, [ReplayNext]_replayvars
    PROVE  /\ ReplayInv'
           /\ \/ Next /\ UNCHANGED simulator
              \/ /\ UNCHANGED vars
                 /\ \E a \in Address : Sim!LoadOrStore(a)
              \/ UNCHANGED <<vars, simulator>>
<1>1. CASE Generate
  <2>1. Next /\ UNCHANGED simulator
    BY <1>1 DEF Generate, Next
  <2>2. TransposeInv'
    BY <2>1, TransposeStep DEF ReplayInv
  <2>3. M \in Nat /\ N \in Nat /\ M =< 256 /\ N =< 256
    <3>1. arguments \in Invocations
      BY DEF ReplayInv, TransposeInv, TypeOK
    <3> QED BY <3>1, Sizes
  <2>4. ASSUME Iterate PROVE Accesses(Head(todo)) \in Seq(Address)
    BY <2>3, <2>4, IterateLeaves, AccessesKnown DEF ReplayInv, TransposeInv, Work
  <2>5. <<>> \in Seq(Address) /\ <<MarkerAddress>> \in Seq(Address)
    BY MarkerKnown
  <2>6. trace' \in Seq(Address)
    BY <1>1, <2>4, <2>5 DEF Generate, Traced
  <2> QED BY <2>1, <2>2, <2>6 DEF ReplayInv
<1>2. CASE Replay
  <2>1. Head(trace) \in Address /\ Tail(trace) \in Seq(Address)
    BY <1>2 DEF Replay, ReplayInv
  <2>2. TransposeInv'
    BY <1>2, TransposeStep DEF Replay, ReplayInv
  <2> QED BY <1>2, <2>1, <2>2 DEF Replay, ReplayInv
<1>3. CASE UNCHANGED replayvars
  <2>1. TransposeInv'
    BY <1>3, TransposeStep DEF replayvars, ReplayInv
  <2> QED BY <1>3, <2>1 DEF replayvars, ReplayInv
<1> QED BY <1>1, <1>2, <1>3 DEF ReplayNext, Replayed

THEOREM ReplayInvariant == ReplaySpec => []ReplayInv
<1>1. ReplayInv /\ [ReplayNext]_replayvars => ReplayInv'
  BY ReplayStep
<1> QED BY <1>1, ReplayInitInv, PTL DEF ReplaySpec

(* Replaying the trace of every iteration as soon as it is made does not     *)
(* change what tracegen does: its steps are those of TraceGen alone.         *)
THEOREM ReplayTransposes == ReplaySpec => Spec
<1>1. ReplayInit => Init
  BY DEF ReplayInit
<1>2. ReplayInv /\ [ReplayNext]_replayvars => [Next]_vars
  BY ReplayStep
<1> QED BY <1>1, <1>2, ReplayInvariant, PTL DEF ReplaySpec, Spec

(* The simulator is driven as csim's main drives it, by loads and stores of  *)
(* addresses it knows (test-trans.c, eval_perf): a step of the replay is one *)
(* line of a trace, or none.                                                 *)
THEOREM ReplaySimulates == ReplaySpec => Sim!Spec
<1>1. ReplayInit => Sim!Init
  BY DEF ReplayInit
<1>2. ReplayInv /\ [ReplayNext]_replayvars => [Sim!Next]_(Sim!vars)
  BY ReplayStep DEF Sim!Next, Sim!vars, Sim!totals, simulator
<1> QED BY <1>1, <1>2, ReplayInvariant, PTL DEF ReplaySpec, Sim!Spec

(* What is proved of tracegen alone holds while the simulator replays: the   *)
(* types, the bounds and the results of the functions whose misses are       *)
(* scored.                                                                   *)
THEOREM ReplayedFunctionsTranspose ==
    ReplaySpec => [](TypeOK /\ InBounds /\ AllValid) /\ PlacedStays
BY ReplayTransposes, TransposeTypes, AlwaysInBounds, EveryFunctionTransposes,
   PlacedAlwaysStays, PTL
-----------------------------------------------------------------------------
(* The simulator of the replay and the one CSimProofs is about are the same. *)

LEMMA SimulatorConstants ==
    /\ S \in Nat \ {0} /\ E \in Nat \ {0} /\ BlockBytes \in Nat \ {0}
    /\ Half \in Nat \ {0, 1}
    /\ Address \subseteq Nat
    /\ MaxAccesses \in Nat
    /\ Leftover \subseteq SimProofs!Line
BY SimulatorAssumption DEF Sim!Line, Sim!IntField, SimProofs!Line, SimProofs!IntField

LEMMA SameInit == Sim!Init <=> SimProofs!Init
BY DEF Sim!Init, SimProofs!Init, Sim!SetIndex, SimProofs!SetIndex,
       Sim!Lines, SimProofs!Lines, Sim!EmptyLine, SimProofs!EmptyLine

LEMMA SameNext == Sim!Next <=> SimProofs!Next
<1>1. \A set, t : Sim!access_cache(set, t) <=> SimProofs!access_cache(set, t)
  BY DEF Sim!access_cache, SimProofs!access_cache, Sim!Hit, SimProofs!Hit,
         Sim!Fill, SimProofs!Fill, Sim!Evict, SimProofs!Evict,
         Sim!Touch, SimProofs!Touch, Sim!ToInt, SimProofs!ToInt,
         Sim!First, SimProofs!First, Sim!Matching, SimProofs!Matching,
         Sim!Empty, SimProofs!Empty, Sim!Oldest, SimProofs!Oldest,
         Sim!Stamp, SimProofs!Stamp, Sim!Holds, SimProofs!Holds,
         Sim!Valid, SimProofs!Valid, Sim!Lines, SimProofs!Lines
<1>2. \A a : Sim!SetOf(a) = SimProofs!SetOf(a) /\ Sim!TagOf(a) = SimProofs!TagOf(a)
  BY DEF Sim!SetOf, SimProofs!SetOf, Sim!TagOf, SimProofs!TagOf
<1> QED BY <1>1, <1>2 DEF Sim!Next, SimProofs!Next, Sim!LoadOrStore, SimProofs!LoadOrStore,
           Sim!ModifyLoad, SimProofs!ModifyLoad, Sim!ModifyStore, SimProofs!ModifyStore

LEMMA SameSpec == Sim!Spec => SimProofs!Spec
<1>1. [Sim!Next]_(Sim!vars) => [SimProofs!Next]_(SimProofs!vars)
  BY SameNext DEF Sim!vars, SimProofs!vars, Sim!totals, SimProofs!totals
<1> QED BY <1>1, SameInit, PTL DEF Sim!Spec, SimProofs!Spec

LEMMA SameTotals == SimProofs!TotalsAddUp => Sim!TotalsAddUp
BY DEF Sim!TotalsAddUp, SimProofs!TotalsAddUp, Sim!InUse, SimProofs!InUse,
       Sim!Valid, SimProofs!Valid, Sim!SetIndex, SimProofs!SetIndex,
       Sim!Lines, SimProofs!Lines, Sim!Cardinality, SimProofs!Cardinality

LEMMA SameLRU == SimProofs!ImplementsLRU => Sim!ImplementsLRU
<1>1. Sim!LRU!Init <=> SimProofs!LRU!Init
  BY DEF Sim!LRU!Init, SimProofs!LRU!Init, Sim!LastUse, SimProofs!LastUse,
         Sim!ResidentTags, SimProofs!ResidentTags, Sim!LineOf, SimProofs!LineOf,
         Sim!Holds, SimProofs!Holds, Sim!Valid, SimProofs!Valid, Sim!Stamp, SimProofs!Stamp,
         Sim!Lines, SimProofs!Lines, Sim!SetIndex, SimProofs!SetIndex
<1>2. Sim!LRU!vars = SimProofs!LRU!vars /\ Sim!LRU!vars' = SimProofs!LRU!vars'
  BY DEF Sim!LRU!vars, SimProofs!LRU!vars, Sim!LastUse, SimProofs!LastUse,
         Sim!ResidentTags, SimProofs!ResidentTags, Sim!LineOf, SimProofs!LineOf,
         Sim!Holds, SimProofs!Holds, Sim!Valid, SimProofs!Valid, Sim!Stamp, SimProofs!Stamp,
         Sim!Lines, SimProofs!Lines, Sim!SetIndex, SimProofs!SetIndex
<1>3. Sim!LRU!Next <=> SimProofs!LRU!Next
  BY DEF Sim!LRU!Next, SimProofs!LRU!Next, Sim!LRU!Hit, SimProofs!LRU!Hit,
         Sim!LRU!Fill, SimProofs!LRU!Fill, Sim!LRU!Evict, SimProofs!LRU!Evict,
         Sim!LRU!Use, SimProofs!LRU!Use, Sim!LRU!Resident, SimProofs!LRU!Resident,
         Sim!LRU!Cardinality, SimProofs!LRU!Cardinality,
         Sim!LastUse, SimProofs!LastUse, Sim!ResidentTags, SimProofs!ResidentTags,
         Sim!LineOf, SimProofs!LineOf, Sim!Holds, SimProofs!Holds,
         Sim!Valid, SimProofs!Valid, Sim!Stamp, SimProofs!Stamp, Sim!Tag, SimProofs!Tag,
         Sim!Lines, SimProofs!Lines, Sim!SetIndex, SimProofs!SetIndex
<1>4. [SimProofs!LRU!Next]_(SimProofs!LRU!vars) => [Sim!LRU!Next]_(Sim!LRU!vars)
  BY <1>2, <1>3
<1> QED BY <1>1, <1>4, PTL DEF Sim!ImplementsLRU, SimProofs!ImplementsLRU,
           Sim!LRU!Spec, SimProofs!LRU!Spec

(* The misses that are scored add up with the hits and the evictions, in     *)
(* particular on the direct-mapped cache of the score, whatever its memory   *)
(* held before.                                                              *)
THEOREM ScoredTotalsAddUp ==
    SimProofs!Unclaimed => (ReplaySpec => []Sim!TotalsAddUp)
<1>1. SimProofs!Unclaimed => (SimProofs!Spec => []SimProofs!TotalsAddUp)
  BY SimProofs!TotalsAlwaysAddUp, SimulatorConstants, PTL
<1> QED BY <1>1, ReplaySimulates, SameSpec, SameTotals, PTL

(* They are the misses of an LRU cache on the accesses of the functions.     *)
THEOREM ScoreIsLRU ==
    SimProofs!Unclaimed /\ SimProofs!Countable => (ReplaySpec => Sim!ImplementsLRU)
<1>1. SimProofs!Unclaimed /\ SimProofs!Countable =>
         (SimProofs!Spec => SimProofs!ImplementsLRU)
  BY SimProofs!Refinement, SimulatorConstants, PTL
<1> QED BY <1>1, ReplaySimulates, SameSpec, SameLRU, PTL
-----------------------------------------------------------------------------
(* The misses of the submission on the square matrices of the score.  In a   *)
(* direct-mapped cache a set holds one block, so that only the tag each set  *)
(* holds matters.  The proof follows the blocks of 8 x 8: what is certainly  *)
(* cached after so many accesses of an iteration, and how many misses that   *)
(* leaves for the rest of it.                                                *)

(* The cache of the score: test-trans.c calls eval_perf(5, 1, 5).           *)
DirectMapped == S = 32 /\ E = 1 /\ BlockBytes = 32

(* On a scored size the function that is replayed is the submission, whose   *)
(* misses test-trans reports to driver.py.                                   *)
SubmissionScored == \A v \in Invocations : <<v[1], v[2]>> \in Scored => v[3] = 1

Held == [set \in 0 .. 31 |-> IF cache[set][0].valid # 0 THEN cache[set][0].tag ELSE -1]

SpotOf(a) == <<Sim!SetOf(a), Sim!TagOf(a)>>
SpotAt(it, p) == SpotOf(Accesses(it)[p + 1])

(* An access to a set and tag leaves the tag in the set and costs a miss     *)
(* unless it was there.                                                      *)
Fetch(h, spot) == [h EXCEPT ![spot[1]] = spot[2]]
Price(h, spot) == IF h[spot[1]] = spot[2] THEN 0 ELSE 1

(* Set and tag of the access that follows p accesses of iteration k of the   *)
(* block in row x and column y of the blocks of A.  In 32 x 32, a row of A   *)
(* goes to a column of B.                                                    *)
Spot32(x, y, k, p) ==
    IF p < 8 THEN <<4 * k + y, x>> ELSE <<4 * (p - 8) + x, 256 + y>>

(* In 64 x 64, the lower half of a block shares the sets of the upper half.  *)
SpotPark(x, y, k, p) ==
    IF p < 8       THEN <<8 * k + y, 2 * x>>
    ELSE IF p < 12 THEN <<8 * (p - 8) + x, 256 + 2 * y>>
    ELSE                <<8 * (p - 12) + x, 256 + 2 * y>>

SpotSwap(x, y, k, p) ==
    IF p < 4       THEN <<8 * k + x, 256 + 2 * y>>
    ELSE IF p < 8  THEN <<8 * (p - 4) + y, 2 * x + 1>>
    ELSE IF p < 12 THEN <<8 * k + x, 256 + 2 * y>>
    ELSE                <<8 * k + x, 257 + 2 * y>>

SpotCopy(x, y, k, p) ==
    IF p < 4 THEN <<8 * k + y, 2 * x + 1>> ELSE <<8 * (p - 4) + x, 257 + 2 * y>>

(* What the sets hold then: the row being copied, and the column it goes to, *)
(* but for the place of the row itself on the diagonal.                      *)
Kept32(h, x, y, k, p) ==
    /\ p \in 1 .. 8 => h[4 * k + y] = x
    /\ \A u \in 0 .. 7 :
          u < p - 8 \/ (k > 0 /\ (x = y /\ u = k => p = 0)) => h[4 * u + x] = 256 + y

KeptPark(h, x, y, k, p) ==
    /\ p \in 1 .. 8 => h[8 * k + y] = 2 * x
    /\ \A u \in 0 .. 3 :
          u < p - 8 \/ (k > 0 /\ (x = y /\ u = k => p = 0)) => h[8 * u + x] = 256 + 2 * y

(* Off the diagonal the parked rows stay until they are swapped; on it no    *)
(* more than the row at hand is counted on.                                  *)
KeptSwap(h, x, y, k, p) ==
    IF x = y
      THEN /\ p \in (1 .. 4) \cup (9 .. 12) => h[8 * k + x] = 256 + 2 * y
           /\ p \in 13 .. 16 => h[8 * k + x] = 257 + 2 * y
      ELSE \A u \in 0 .. 3 :
              /\ u > k \/ (u = k /\ p =< 12) => h[8 * u + x] = 256 + 2 * y
              /\ u < k \/ (u = k /\ p > 12)  => h[8 * u + x] = 257 + 2 * y
              /\ k > 0 \/ u < p - 4          => h[8 * u + y] = 2 * x + 1

KeptCopy(h, x, y, k, p) ==
    IF x = y
      THEN /\ p \in 1 .. 4 => h[8 * k + y] = 2 * x + 1
           /\ \A u \in 0 .. 3 :
                 u < p - 4 \/ (k > 0 /\ (u = k => p = 0)) => h[8 * u + x] = 257 + 2 * y
      ELSE \A u \in 0 .. 3 : h[8 * u + x] = 257 + 2 * y /\ h[8 * u + y] = 2 * x + 1

(* The misses an iteration, and the accesses of it so far, may have made.    *)
Once(b)    == IF b THEN 1 ELSE 0
UpTo(n, p) == IF p < 0 THEN 0 ELSE IF p < n THEN p ELSE n

Paid32(x, y, k, p) ==
    (IF k = 0 THEN UpTo(8, p - 8)
              ELSE 8 + k + IF x = y THEN k - 1 + Once(p - 8 > k) ELSE 0)
    + Once(p > 0)

PaidPark(x, y, k, p) ==
    (IF k = 0 THEN UpTo(4, p - 8)
              ELSE 4 + k + IF x = y THEN k - 1 + Once(p - 8 > k) ELSE 0)
    + Once(p > 0)

PaidSwap(x, y, k, p) ==
    IF x = y
      THEN 11 + 7 * k + Once(p > 0) + UpTo(4, p - 4) + Once(p > 8) + Once(p > 12)
      ELSE 8 + k + (IF k = 0 THEN UpTo(4, p - 4) ELSE 4) + Once(p > 12)

PaidCopy(x, y, k, p) ==
    IF x = y
      THEN 39 + (IF k = 0 THEN UpTo(4, p - 4) ELSE 3 + 2 * k + Once(p - 4 > k))
           + Once(p > 0)
      ELSE 16

(* A block of 64 x 64 is parked, swapped and copied.                         *)
Spot64(x, y, k, p) ==
    IF k < 4      THEN SpotPark(x, y, k, p)
    ELSE IF k < 8 THEN SpotSwap(x, y, k - 4, p)
    ELSE               SpotCopy(x, y, k - 8, p)

Kept64(h, x, y, k, p) ==
    /\ k < 4        => KeptPark(h, x, y, k, p)
    /\ k \in 4 .. 7 => KeptSwap(h, x, y, k - 4, p)
    /\ k >= 8       => KeptCopy(h, x, y, k - 8, p)

Paid64(x, y, k, p) ==
    IF k < 4      THEN PaidPark(x, y, k, p)
    ELSE IF k < 8 THEN PaidSwap(x, y, k - 4, p)
    ELSE               PaidCopy(x, y, k - 8, p)

(* The same for either size; blocks on the diagonal cost more.               *)
Across == M \div 8
X == (block - 1) \div Across
Y == (block - 1) % Across

Iterations == IF M = 32 THEN 8 ELSE 12
Length(k)  == IF M = 64 /\ k >= 8 THEN 8 ELSE 16

Spot(k, p) == IF M = 32 THEN Spot32(X, Y, k, p) ELSE Spot64(X, Y, k, p)
Kept(k, p) == IF M = 32 THEN Kept32(Held, X, Y, k, p) ELSE Kept64(Held, X, Y, k, p)

Diagonals == X + Once(Y > X)

Paid(k, p) ==
    1 + 16 * (block - 1)
    + IF M = 32 THEN 7 * Diagonals + Paid32(X, Y, k, p)
                ELSE 34 * Diagonals + Paid64(X, Y, k, p)

(* Iterations begun of the current block.                                    *)
Begun == Iterations - Len(todo)

RestOfBlock ==
    /\ Len(todo) =< Iterations
    /\ \A q \in 1 .. Len(todo) :
          todo[q] = Block("transpose_submit", block - 1, M, M)[Begun + q]

BeforeIteration ==
    /\ trace = <<>>
    /\ Kept(Begun, 0) /\ miss =< Paid(Begun, 0)

InIteration ==
    LET k == Begun - 1
        p == Length(k) - Len(trace)
    IN  /\ k >= 0 /\ p >= 0 /\ trace # <<>>
        /\ \A q \in 1 .. Len(trace) : SpotOf(trace[q]) = Spot(k, p + q - 1)
        /\ Kept(k, p) /\ miss =< Paid(k, p)

(* What the submission has done, between the markers and around them.        *)
NotBegun ==
    /\ exit_code = Running /\ block = 0 /\ todo = <<>>
    /\ trace = <<>> /\ miss = 0

MarkerMade ==
    /\ exit_code = Running /\ block = 1 /\ Len(todo) = Iterations /\ RestOfBlock
    /\ trace = <<MarkerAddress>> /\ miss = 0

Transposing ==
    /\ exit_code = Running /\ block \in 1 .. Across * Across /\ RestOfBlock
    /\ BeforeIteration \/ InIteration

Finished == exit_code # Running /\ miss + Len(trace) =< FullScore

ScoreInv ==
    <<M, N>> \in Scored /\ M = N =>
       /\ selectedFunc = 1 /\ i = 1
       /\ NotBegun \/ MarkerMade \/ Transposing \/ Finished
-----------------------------------------------------------------------------
(* An access leaves its block in its set, and is a miss unless the block was *)
(* there.                                                                    *)
LEMMA SpotOfAddress ==
    ASSUME DirectMapped, NEW a \in Nat
    PROVE  Sim!SetOf(a) = (a \div 32) % 32 /\ Sim!TagOf(a) = a \div 1024
<1>1. 32 * 32 = 1024
  OBVIOUS
<1> QED BY <1>1 DEF Sim!SetOf, Sim!TagOf, DirectMapped

LEMMA AccessHolds ==
    ASSUME DirectMapped, Sim!TypeOK, NEW a \in Address, Sim!LoadOrStore(a),
           NEW s, NEW t, Sim!SetOf(a) = s, Sim!TagOf(a) = t
    PROVE  /\ s \in 0 .. 31 /\ t \in Nat
           /\ Held \in [0 .. 31 -> Int] /\ Held' = Fetch(Held, <<s, t>>)
           /\ miss' = miss + Price(Held, <<s, t>>)
<1> USE DEF DirectMapped
<1>1. Sim!SetIndex = 0 .. 31 /\ Sim!Lines = {0}
  BY DEF Sim!SetIndex, Sim!Lines
<1>2. cache \in [0 .. 31 -> [{0} -> Sim!Line]]
  BY <1>1 DEF Sim!TypeOK
<1>3. a \in Nat
  BY SimulatorAssumption
<1>4. s \in 0 .. 31 /\ t \in Nat
  <2>1. s = (a \div 32) % 32 /\ t = a \div 1024
    BY <1>3, SpotOfAddress
  <2> QED BY <1>3, <2>1
<1>5. Held \in [0 .. 31 -> Int]
  BY <1>2 DEF Held, Sim!Line, Sim!IntField
<1>6. ASSUME NEW I \in SUBSET {0}, I # {} PROVE Sim!First(I) = 0
  <2>1. I = {0}
    BY <1>6
  <2>2. \E l \in I : \A j \in I : l =< j
    BY <2>1
  <2>3. Sim!First(I) \in I
    BY <2>2 DEF Sim!First
  <2> QED BY <2>1, <2>3
<1>7. \/ Sim!Hit(s, t) \/ Sim!Fill(s, t) \/ Sim!Evict(s, t)
  BY DEF Sim!LoadOrStore, Sim!access_cache
<1>8. Sim!Matching(s, t) # {} <=> Held[s] = t
  <2>1. Sim!Matching(s, t) # {} <=> cache[s][0].valid # 0 /\ cache[s][0].tag = t
    BY <1>1 DEF Sim!Matching, Sim!Holds, Sim!Valid
  <2> QED BY <1>4, <2>1 DEF Held
<1>9. miss' = IF Held[s] = t THEN miss ELSE miss + 1
  BY <1>7, <1>8 DEF Sim!Hit, Sim!Fill, Sim!Evict
<1>10. Sim!Touch(s, 0, t)
  <2>1. CASE Sim!Hit(s, t)
    BY <1>1, <1>6, <2>1 DEF Sim!Hit, Sim!Matching
  <2>2. CASE Sim!Fill(s, t)
    BY <1>1, <1>6, <2>2 DEF Sim!Fill, Sim!Empty
  <2>3. CASE Sim!Evict(s, t)
    <3>1. Sim!Oldest(s) \subseteq {0}
      BY <1>1 DEF Sim!Oldest
    <3>2. Sim!Oldest(s) # {}
      <4>1. Sim!Stamp(s, 0) \in Int
        BY <1>2, <1>4, SimulatorAssumption DEF Sim!Stamp, Sim!Line, Sim!IntField
      <4> QED BY <1>1, <4>1 DEF Sim!Oldest
    <3> QED BY <1>6, <2>3, <3>1, <3>2 DEF Sim!Evict
  <2> QED BY <1>7, <2>1, <2>2, <2>3
<1>11. /\ cache'[s][0].valid = 1 /\ cache'[s][0].tag = t
       /\ \A set \in 0 .. 31 : set # s => cache'[set] = cache[set]
  BY <1>2, <1>4, <1>10 DEF Sim!Touch
<1>12. Held' = [Held EXCEPT ![s] = t]
  <2> DEFINE H(c, set) == IF c[set][0].valid # 0 THEN c[set][0].tag ELSE -1
  <2>1. 1 # 0 /\ H(cache', s) = t
    BY <1>11
  <2>2. \A set \in 0 .. 31 : set # s => H(cache', set) = H(cache, set)
    BY <1>11
  <2>3. /\ Held = [set \in 0 .. 31 |-> H(cache, set)]
        /\ Held' = [set \in 0 .. 31 |-> H(cache', set)]
    BY DEF Held
  <2> HIDE DEF H
  <2> QED BY <1>4, <2>1, <2>2, <2>3
<1>13. miss \in Nat
  BY DEF Sim!TypeOK
<1> QED BY <1>4, <1>5, <1>9, <1>12, <1>13 DEF Fetch, Price
-----------------------------------------------------------------------------
(* An access keeps what is counted on, and is paid for when it may miss.     *)
LEMMA Step32 ==
    ASSUME NEW x \in 0 .. 3, NEW y \in 0 .. 3, NEW k \in 0 .. 7, NEW p \in 0 .. 15,
           NEW h \in [0 .. 31 -> Int], Kept32(h, x, y, k, p),
           NEW spot, spot = Spot32(x, y, k, p)
    PROVE  /\ Kept32(Fetch(h, spot), x, y, k, p + 1)
           /\ Paid32(x, y, k, p) + Price(h, spot) =< Paid32(x, y, k, p + 1)
<1> DEFINE s == spot[1]
           t == spot[2]
           g == Fetch(h, spot)
<1>1. CASE p < 8
  <2>1. s = 4 * k + y /\ t = x
    BY <1>1 DEF Spot32
  <2>2. g[s] = t /\ \A u \in 0 .. 31 : u # s => g[u] = h[u]
    BY <2>1 DEF Fetch
  <2>3. Kept32(g, x, y, k, p + 1)
    BY <1>1, <2>1, <2>2 DEF Kept32
  <2>4. p >= 1 => h[s] = t
    BY <1>1, <2>1 DEF Kept32
  <2> QED BY <1>1, <2>3, <2>4 DEF Paid32, Price, Once, UpTo
<1>2. CASE p >= 8
  <2>1. s = 4 * (p - 8) + x /\ t = 256 + y /\ p - 8 \in 0 .. 7
    BY <1>2 DEF Spot32
  <2>2. g[s] = t /\ \A u \in 0 .. 31 : u # s => g[u] = h[u]
    BY <2>1 DEF Fetch
  <2>3. Kept32(g, x, y, k, p + 1)
    BY <1>2, <2>1, <2>2 DEF Kept32
  <2>4. k > 0 /\ (x = y => p - 8 # k) => h[s] = t
    BY <1>2, <2>1 DEF Kept32
  <2> QED BY <1>2, <2>3, <2>4 DEF Paid32, Price, Once, UpTo
<1> QED BY <1>1, <1>2

LEMMA StepPark ==
    ASSUME NEW x \in 0 .. 7, NEW y \in 0 .. 7, NEW k \in 0 .. 3, NEW p \in 0 .. 15,
           NEW h \in [0 .. 31 -> Int], KeptPark(h, x, y, k, p),
           NEW spot, spot = SpotPark(x, y, k, p)
    PROVE  /\ KeptPark(Fetch(h, spot), x, y, k, p + 1)
           /\ PaidPark(x, y, k, p) + Price(h, spot) =< PaidPark(x, y, k, p + 1)
<1> DEFINE s == spot[1]
           t == spot[2]
           g == Fetch(h, spot)
<1>1. CASE p < 8
  <2>1. s = 8 * k + y /\ t = 2 * x
    BY <1>1 DEF SpotPark
  <2>2. g[s] = t /\ \A u \in 0 .. 31 : u # s => g[u] = h[u]
    BY <2>1 DEF Fetch
  <2>3. KeptPark(g, x, y, k, p + 1)
    BY <1>1, <2>1, <2>2 DEF KeptPark
  <2>4. p >= 1 => h[s] = t
    BY <1>1, <2>1 DEF KeptPark
  <2> QED BY <1>1, <2>3, <2>4 DEF PaidPark, Price, Once, UpTo
<1>2. CASE p >= 8
  <2> DEFINE u == IF p < 12 THEN p - 8 ELSE p - 12
  <2>1. s = 8 * u + x /\ t = 256 + 2 * y /\ u \in 0 .. 3
    BY <1>2 DEF SpotPark
  <2>2. g[s] = t /\ \A v \in 0 .. 31 : v # s => g[v] = h[v]
    BY <2>1 DEF Fetch
  <2>3. KeptPark(g, x, y, k, p + 1)
    BY <1>2, <2>1, <2>2 DEF KeptPark
  <2>4. p >= 12 \/ (k > 0 /\ (x = y => u # k)) => h[s] = t
    BY <1>2, <2>1 DEF KeptPark
  <2> QED BY <1>2, <2>3, <2>4 DEF PaidPark, Price, Once, UpTo
<1> QED BY <1>1, <1>2

LEMMA StepSwap ==
    ASSUME NEW x \in 0 .. 7, NEW y \in 0 .. 7, NEW k \in 0 .. 3, NEW p \in 0 .. 15,
           NEW h \in [0 .. 31 -> Int], KeptSwap(h, x, y, k, p),
           NEW spot, spot = SpotSwap(x, y, k, p)
    PROVE  /\ KeptSwap(Fetch(h, spot), x, y, k, p + 1)
           /\ PaidSwap(x, y, k, p) + Price(h, spot) =< PaidSwap(x, y, k, p + 1)
<1> DEFINE s == spot[1]
           t == spot[2]
           g == Fetch(h, spot)
<1>1. CASE p < 4 \/ p \in 8 .. 11
  <2>1. s = 8 * k + x /\ t = 256 + 2 * y
    BY <1>1 DEF SpotSwap
  <2>2. g[s] = t /\ \A v \in 0 .. 31 : v # s => g[v] = h[v]
    BY <2>1 DEF Fetch
  <2>3. KeptSwap(g, x, y, k, p + 1)
    BY <1>1, <2>1, <2>2 DEF KeptSwap
  <2>4. x # y \/ p \in 1 .. 3 \/ p \in 9 .. 11 => h[s] = t
    BY <1>1, <2>1 DEF KeptSwap
  <2> QED BY <1>1, <2>3, <2>4 DEF PaidSwap, Price, Once, UpTo
<1>2. CASE p \in 4 .. 7
  <2>1. s = 8 * (p - 4) + y /\ t = 2 * x + 1 /\ p - 4 \in 0 .. 3
    BY <1>2 DEF SpotSwap
  <2>2. g[s] = t /\ \A v \in 0 .. 31 : v # s => g[v] = h[v]
    BY <2>1 DEF Fetch
  <2>3. KeptSwap(g, x, y, k, p + 1)
    BY <1>2, <2>1, <2>2 DEF KeptSwap
  <2>4. x # y /\ k > 0 => h[s] = t
    BY <1>2, <2>1 DEF KeptSwap
  <2> QED BY <1>2, <2>3, <2>4 DEF PaidSwap, Price, Once, UpTo
<1>3. CASE p >= 12
  <2>1. s = 8 * k + x /\ t = 257 + 2 * y
    BY <1>3 DEF SpotSwap
  <2>2. g[s] = t /\ \A v \in 0 .. 31 : v # s => g[v] = h[v]
    BY <2>1 DEF Fetch
  <2>3. KeptSwap(g, x, y, k, p + 1)
    BY <1>3, <2>1, <2>2 DEF KeptSwap
  <2>4. p > 12 => h[s] = t
    BY <1>3, <2>1 DEF KeptSwap
  <2> QED BY <1>3, <2>3, <2>4 DEF PaidSwap, Price, Once, UpTo
<1> QED BY <1>1, <1>2, <1>3

LEMMA StepCopy ==
    ASSUME NEW x \in 0 .. 7, NEW y \in 0 .. 7, NEW k \in 0 .. 3, NEW p \in 0 .. 7,
           NEW h \in [0 .. 31 -> Int], KeptCopy(h, x, y, k, p),
           NEW spot, spot = SpotCopy(x, y, k, p)
    PROVE  /\ KeptCopy(Fetch(h, spot), x, y, k, p + 1)
           /\ PaidCopy(x, y, k, p) + Price(h, spot) =< PaidCopy(x, y, k, p + 1)
<1> DEFINE s == spot[1]
           t == spot[2]
           g == Fetch(h, spot)
<1>1. CASE p < 4
  <2>1. s = 8 * k + y /\ t = 2 * x + 1
    BY <1>1 DEF SpotCopy
  <2>2. g[s] = t /\ \A v \in 0 .. 31 : v # s => g[v] = h[v]
    BY <2>1 DEF Fetch
  <2>3. KeptCopy(g, x, y, k, p + 1)
    BY <1>1, <2>1, <2>2 DEF KeptCopy
  <2>4. x # y \/ p >= 1 => h[s] = t
    BY <1>1, <2>1 DEF KeptCopy
  <2> QED BY <1>1, <2>3, <2>4 DEF PaidCopy, Price, Once, UpTo
<1>2. CASE p >= 4
  <2>1. s = 8 * (p - 4) + x /\ t = 257 + 2 * y /\ p - 4 \in 0 .. 3
    BY <1>2 DEF SpotCopy
  <2>2. g[s] = t /\ \A v \in 0 .. 31 : v # s => g[v] = h[v]
    BY <2>1 DEF Fetch
  <2>3. KeptCopy(g, x, y, k, p + 1)
    BY <1>2, <2>1, <2>2 DEF KeptCopy
  <2>4. x # y \/ (k > 0 /\ p - 4 # k) => h[s] = t
    BY <1>2, <2>1 DEF KeptCopy
  <2> QED BY <1>2, <2>3, <2>4 DEF PaidCopy, Price, Once, UpTo
<1> QED BY <1>1, <1>2
-----------------------------------------------------------------------------
(* What is counted on at the end of an iteration is there for the next one.  *)
LEMMA Next32 ==
    ASSUME NEW x \in 0 .. 3, NEW y \in 0 .. 3, NEW k \in 0 .. 7, NEW h
    PROVE  /\ Kept32(h, x, y, k, 16) => Kept32(h, x, y, k + 1, 0)
           /\ Paid32(x, y, k, 16) = Paid32(x, y, k + 1, 0)
<1>1. Kept32(h, x, y, k, 16) => Kept32(h, x, y, k + 1, 0)
  BY DEF Kept32
<1>2. Paid32(x, y, k, 16) = Paid32(x, y, k + 1, 0)
  BY DEF Paid32, Once, UpTo
<1> QED BY <1>1, <1>2

LEMMA Next64 ==
    ASSUME NEW x \in 0 .. 7, NEW y \in 0 .. 7, NEW k \in 0 .. 11, NEW h,
           NEW n, n = IF k < 8 THEN 16 ELSE 8
    PROVE  /\ Kept64(h, x, y, k, n) => Kept64(h, x, y, k + 1, 0)
           /\ Paid64(x, y, k, n) = Paid64(x, y, k + 1, 0)
<1>1. CASE k < 3
  <2>1. KeptPark(h, x, y, k, 16) => KeptPark(h, x, y, k + 1, 0)
    BY <1>1 DEF KeptPark
  <2>2. PaidPark(x, y, k, 16) = PaidPark(x, y, k + 1, 0)
    BY <1>1 DEF PaidPark, Once, UpTo
  <2> QED BY <1>1, <2>1, <2>2 DEF Kept64, Paid64
<1>2. CASE k = 3
  <2>1. KeptPark(h, x, y, 3, 16) => KeptSwap(h, x, y, 0, 0)
    BY DEF KeptPark, KeptSwap
  <2>2. PaidPark(x, y, 3, 16) = PaidSwap(x, y, 0, 0)
    BY DEF PaidPark, PaidSwap, Once, UpTo
  <2> QED BY <1>2, <2>1, <2>2 DEF Kept64, Paid64
<1>3. CASE k \in 4 .. 6
  <2> DEFINE w == k - 4
  <2>1. KeptSwap(h, x, y, w, 16) => KeptSwap(h, x, y, w + 1, 0)
    BY <1>3 DEF KeptSwap
  <2>2. PaidSwap(x, y, w, 16) = PaidSwap(x, y, w + 1, 0)
    BY <1>3 DEF PaidSwap, Once, UpTo
  <2>3. w + 1 = (k + 1) - 4
    BY <1>3
  <2> QED BY <1>3, <2>1, <2>2, <2>3 DEF Kept64, Paid64
<1>4. CASE k = 7
  <2>1. KeptSwap(h, x, y, 3, 16) => KeptCopy(h, x, y, 0, 0)
    BY DEF KeptSwap, KeptCopy
  <2>2. PaidSwap(x, y, 3, 16) = PaidCopy(x, y, 0, 0)
    BY DEF PaidSwap, PaidCopy, Once, UpTo
  <2> QED BY <1>4, <2>1, <2>2 DEF Kept64, Paid64
<1>5. CASE k \in 8 .. 11
  <2> DEFINE w == k - 8
  <2>1. KeptCopy(h, x, y, w, 8) => KeptCopy(h, x, y, w + 1, 0)
    BY <1>5 DEF KeptCopy
  <2>2. PaidCopy(x, y, w, 8) = PaidCopy(x, y, w + 1, 0)
    BY <1>5 DEF PaidCopy, Once, UpTo
  <2>3. w + 1 = (k + 1) - 8
    BY <1>5
  <2> QED BY <1>5, <2>1, <2>2, <2>3 DEF Kept64, Paid64
<1> QED BY <1>1, <1>2, <1>3, <1>4, <1>5

LEMMA Step64 ==
    ASSUME NEW x \in 0 .. 7, NEW y \in 0 .. 7, NEW k \in 0 .. 11, NEW p \in 0 .. 15,
           k >= 8 => p < 8,
           NEW h \in [0 .. 31 -> Int], Kept64(h, x, y, k, p),
           NEW spot, spot = Spot64(x, y, k, p)
    PROVE  /\ Kept64(Fetch(h, spot), x, y, k, p + 1)
           /\ Paid64(x, y, k, p) + Price(h, spot) =< Paid64(x, y, k, p + 1)
<1>1. CASE k < 4
  <2>1. KeptPark(h, x, y, k, p) /\ spot = SpotPark(x, y, k, p) /\ k \in 0 .. 3
    BY <1>1 DEF Kept64, Spot64
  <2>2. /\ KeptPark(Fetch(h, spot), x, y, k, p + 1)
        /\ PaidPark(x, y, k, p) + Price(h, spot) =< PaidPark(x, y, k, p + 1)
    BY <2>1, StepPark
  <2> QED BY <1>1, <2>2 DEF Kept64, Paid64
<1>2. CASE k \in 4 .. 7
  <2>1. PICK w \in 0 .. 3 : w = k - 4
    BY <1>2
  <2>2. KeptSwap(h, x, y, w, p) /\ spot = SpotSwap(x, y, w, p)
    BY <1>2, <2>1 DEF Kept64, Spot64
  <2>3. /\ KeptSwap(Fetch(h, spot), x, y, w, p + 1)
        /\ PaidSwap(x, y, w, p) + Price(h, spot) =< PaidSwap(x, y, w, p + 1)
    BY <2>2, StepSwap
  <2> QED BY <1>2, <2>1, <2>3 DEF Kept64, Paid64
<1>3. CASE k >= 8
  <2>1. PICK w \in 0 .. 3 : w = k - 8
    BY <1>3
  <2>2. KeptCopy(h, x, y, w, p) /\ spot = SpotCopy(x, y, w, p) /\ p \in 0 .. 7
    BY <1>3, <2>1 DEF Kept64, Spot64
  <2>3. /\ KeptCopy(Fetch(h, spot), x, y, w, p + 1)
        /\ PaidCopy(x, y, w, p) + Price(h, spot) =< PaidCopy(x, y, w, p + 1)
    BY <2>2, StepCopy
  <2> QED BY <1>3, <2>1, <2>3 DEF Kept64, Paid64
<1> QED BY <1>1, <1>2, <1>3

-----------------------------------------------------------------------------
(* Where the accesses of the iterations go.                                  *)
LEMMA AccessesAre ==
    ASSUME NEW it, Len(it.loads) \in Nat,
           DOMAIN it.loads = 1 .. Len(it.loads), DOMAIN it.stores = 1 .. Len(it.loads)
    PROVE  /\ Len(Accesses(it)) = Len(it.loads) + Len(it.loads)
           /\ \A q \in 1 .. Len(it.loads) :
                 /\ Accesses(it)[q] = AddressOf(it.loads[q])
                 /\ Accesses(it)[Len(it.loads) + q] = AddressOf(it.stores[q].to)
<1> DEFINE n == Len(it.loads)
           loads == [q \in 1 .. n |-> AddressOf(it.loads[q])]
           stores == [q \in 1 .. n |-> AddressOf(it.stores[q].to)]
<1>1. Accesses(it) = loads \o stores
  BY DEF Accesses
<1>2. Len(loads) = n /\ Len(stores) = n
  OBVIOUS
<1>3. loads \o stores =
         [q \in 1 .. n + n |-> IF q =< n THEN loads[q] ELSE stores[q - n]]
  BY <1>2
<1>4. \A q \in 1 .. n : loads[q] = AddressOf(it.loads[q]) /\ stores[q] = AddressOf(it.stores[q].to)
  OBVIOUS
<1> HIDE DEF loads, stores
<1>5. Len(Accesses(it)) = n + n
  BY <1>1, <1>3
<1>6. ASSUME NEW q \in 1 .. n
      PROVE  Accesses(it)[q] = loads[q] /\ Accesses(it)[n + q] = stores[q]
  <2>1. q \in 1 .. n + n /\ n + q \in 1 .. n + n /\ (n + q) - n = q /\ ~(n + q =< n) /\ q =< n
    OBVIOUS
  <2> QED BY <1>1, <1>3, <2>1
<1> QED BY <1>4, <1>5, <1>6

(* The iterations of the block in row x and column y of the blocks of A.     *)
RowOf(x, y, k)  == CopyRow(8 * x + k, 8 * y, 8)
ParkOf(x, y, k) == Park(8 * x, 8 * y, k)
SwapOf(x, y, k) == Swap(8 * x, 8 * y, k)
CopyOf(x, y, k) == CopyRow(8 * x + 4 + k, 8 * y + 4, 4)

SubblockOf(x, y, k) ==
    IF k < 4      THEN ParkOf(x, y, k)
    ELSE IF k < 8 THEN SwapOf(x, y, k - 4)
    ELSE               CopyOf(x, y, k - 8)

LEMMA Rows32 ==
    ASSUME NEW b \in 0 .. 15, NEW k \in 0 .. 7
    PROVE  /\ Len(Block("transpose_submit", b, 32, 32)) = 8
           /\ Block("transpose_submit", b, 32, 32)[k + 1] = RowOf(b \div 4, b % 4, k)
<1>1. Chosen("transpose_submit", 32, 32) = "transpose_simple_buffer"
  BY DEF Chosen
<1>2. Stride("transpose_simple_buffer") = 8 /\ Rounds(32, 8) = 4
  BY DEF Stride, Rounds
<1> DEFINE r == 8 * (b \div 4)
           c == 8 * (b % 4)
<1>3. r \in 0 .. 24 /\ c \in 0 .. 24
  OBVIOUS
<1>4. Block("transpose_submit", b, 32, 32) = Body("transpose_simple_buffer", r, c, 32, 32)
  BY <1>1, <1>2 DEF Block
<1>5. RowOf(b \div 4, b % 4, k) = CopyRow(r + k, c, 8)
  BY DEF RowOf
<1> HIDE DEF r, c
<1>6. Body("transpose_simple_buffer", r, c, 32, 32) = Rows(r, c)
  BY <1>3 DEF Body, Fits
<1>7. Len(Rows(r, c)) = 8 /\ Rows(r, c)[k + 1] = CopyRow(r + k, c, 8)
  <2>1. r + (k + 1) - 1 = r + k
    BY <1>3
  <2> QED BY <2>1 DEF Rows
<1> QED BY <1>4, <1>5, <1>6, <1>7

LEMMA Rows64 ==
    ASSUME NEW b \in 0 .. 63, NEW k \in 0 .. 11
    PROVE  /\ Len(Block("transpose_submit", b, 64, 64)) = 12
           /\ Block("transpose_submit", b, 64, 64)[k + 1] = SubblockOf(b \div 8, b % 8, k)
<1>1. Chosen("transpose_submit", 64, 64) = "symmetric_routine"
  BY DEF Chosen
<1>2. Stride("symmetric_routine") = 8 /\ Rounds(64, 8) = 8
  BY DEF Stride, Rounds
<1> DEFINE r == 8 * (b \div 8)
           c == 8 * (b % 8)
<1>3. r \in 0 .. 56 /\ c \in 0 .. 56
  OBVIOUS
<1>4. Block("transpose_submit", b, 64, 64) = Body("symmetric_routine", r, c, 64, 64)
  BY <1>1, <1>2 DEF Block
<1>5. SubblockOf(b \div 8, b % 8, k) =
         IF k < 4      THEN Park(r, c, k)
         ELSE IF k < 8 THEN Swap(r, c, k - 4)
         ELSE               CopyRow(r + 4 + (k - 8), c + 4, 4)
  BY DEF SubblockOf, ParkOf, SwapOf, CopyOf
<1> HIDE DEF r, c
<1>6. Body("symmetric_routine", r, c, 64, 64) = Subblock(r, c)
  BY <1>3 DEF Body, Fits
<1>7. Len(Subblock(r, c)) = 12 /\ Subblock(r, c)[k + 1] = SubblockStep(r, c, k + 1)
  <2>1. r \in Nat /\ c \in Nat /\ r + 8 =< 64 /\ c + 8 =< 64 /\ k + 1 \in 1 .. 12
    BY <1>3
  <2>2. PICK m \in Nat : m = 64
    OBVIOUS
  <2>3. /\ Len(Subblock(r, c)) = 12
        /\ \A l \in 1 .. 12 : Subblock(r, c)[l] = SubblockStep(r, c, l)
    <3>1. r \in Nat /\ c \in Nat /\ r + 8 =< m /\ c + 8 =< m
      BY <2>1, <2>2
    <3> QED BY <3>1, SubblockShape, ZenonT(30)
  <2> QED BY <2>1, <2>3
<1>8. SubblockStep(r, c, k + 1) =
         IF k < 4      THEN Park(r, c, k)
         ELSE IF k < 8 THEN Swap(r, c, k - 4)
         ELSE               CopyRow(r + 4 + (k - 8), c + 4, 4)
  <2>1. /\ (k + 1) - 1 = k /\ (k + 1) - 5 = k - 4 /\ r + (k + 1) - 5 = r + 4 + (k - 8)
        /\ (k + 1 =< 4 <=> k < 4) /\ (k + 1 =< 8 <=> k < 8)
    BY <1>3
  <2> QED BY <2>1 DEF SubblockStep
<1> QED BY <1>4, <1>5, <1>6, <1>7, <1>8
LEMMA Cells32 ==
    ASSUME DirectMapped, M = 32, N = 32, NEW r \in 0 .. 31, NEW c \in 0 .. 31
    PROVE  /\ SpotOf(AddressOf(<<"A", r, c>>)) = <<4 * (r % 8) + (c \div 8), r \div 8>>
           /\ SpotOf(AddressOf(<<"B", r, c>>)) = <<4 * (r % 8) + (c \div 8), 256 + (r \div 8)>>
<1>1. PICK a \in Nat : a = 128 * r + 4 * c
  OBVIOUS
<1>2. PICK b \in Nat : b = 262144 + a
  OBVIOUS
<1>3. AddressOf(<<"A", r, c>>) = a
  BY <1>1 DEF AddressOf
<1>4. AddressOf(<<"B", r, c>>) = b
  BY <1>1, <1>2, EveryInt DEF AddressOf
<1>5. (a \div 32) % 32 = 4 * (r % 8) + (c \div 8) /\ a \div 1024 = r \div 8
  BY <1>1
<1>6. (b \div 32) % 32 = (a \div 32) % 32 /\ b \div 1024 = 256 + (a \div 1024)
  BY <1>2
<1>7. \A d \in Nat : SpotOf(d) = <<(d \div 32) % 32, d \div 1024>>
  BY SpotOfAddress DEF SpotOf
<1>8. /\ SpotOf(a) = <<(a \div 32) % 32, a \div 1024>>
      /\ SpotOf(b) = <<(b \div 32) % 32, b \div 1024>>
  BY <1>7
<1> QED BY <1>3, <1>4, <1>5, <1>6, <1>8

LEMMA Cells64 ==
    ASSUME DirectMapped, M = 64, N = 64, NEW r \in 0 .. 63, NEW c \in 0 .. 63
    PROVE  /\ SpotOf(AddressOf(<<"A", r, c>>)) = <<8 * (r % 4) + (c \div 8), r \div 4>>
           /\ SpotOf(AddressOf(<<"B", r, c>>)) = <<8 * (r % 4) + (c \div 8), 256 + (r \div 4)>>
<1>1. PICK a \in Nat : a = 256 * r + 4 * c
  OBVIOUS
<1>2. PICK b \in Nat : b = 262144 + a
  OBVIOUS
<1>3. AddressOf(<<"A", r, c>>) = a
  BY <1>1 DEF AddressOf
<1>4. AddressOf(<<"B", r, c>>) = b
  BY <1>1, <1>2, EveryInt DEF AddressOf
<1>5. (a \div 32) % 32 = 8 * (r % 4) + (c \div 8) /\ a \div 1024 = r \div 4
  BY <1>1
<1>6. (b \div 32) % 32 = (a \div 32) % 32 /\ b \div 1024 = 256 + (a \div 1024)
  BY <1>2
<1>7. \A d \in Nat : SpotOf(d) = <<(d \div 32) % 32, d \div 1024>>
  BY SpotOfAddress DEF SpotOf
<1>8. /\ SpotOf(a) = <<(a \div 32) % 32, a \div 1024>>
      /\ SpotOf(b) = <<(b \div 32) % 32, b \div 1024>>
  BY <1>7
<1> QED BY <1>3, <1>4, <1>5, <1>6, <1>8

LEMMA Where32 ==
    ASSUME DirectMapped, M = 32, N = 32,
           NEW x \in 0 .. 3, NEW y \in 0 .. 3, NEW k \in 0 .. 7,
           NEW it, it = RowOf(x, y, k)
    PROVE  /\ Len(Accesses(it)) = 16
           /\ \A p \in 0 .. 15 : SpotAt(it, p) = Spot32(x, y, k, p)
<1>1. DOMAIN it.loads = 1 .. 8 /\ Len(it.loads) = 8 /\ DOMAIN it.stores = 1 .. 8
  BY DEF RowOf, CopyRow
<1>2. \A q \in 1 .. 8 : it.loads[q] = <<"A", 8 * x + k, 8 * y + q - 1>>
  BY DEF RowOf, CopyRow
<1>3. \A q \in 1 .. 8 : it.stores[q].to = <<"B", 8 * y + q - 1, 8 * x + k>>
  BY DEF RowOf, CopyRow
<1>4. /\ Len(Accesses(it)) = 16
      /\ \A q \in 1 .. 8 : /\ Accesses(it)[q] = AddressOf(it.loads[q])
                           /\ Accesses(it)[8 + q] = AddressOf(it.stores[q].to)
  <2>1. /\ Len(it.loads) \in Nat
        /\ DOMAIN it.loads = 1 .. Len(it.loads) /\ DOMAIN it.stores = 1 .. Len(it.loads)
    <3>1. 8 \in Nat
      OBVIOUS
    <3> QED BY <1>1, <3>1, Zenon
  <2>2. /\ Len(Accesses(it)) = Len(it.loads) + Len(it.loads)
        /\ \A q \in 1 .. Len(it.loads) :
              /\ Accesses(it)[q] = AddressOf(it.loads[q])
              /\ Accesses(it)[Len(it.loads) + q] = AddressOf(it.stores[q].to)
    BY <2>1, AccessesAre
  <2>3. 8 + 8 = 16
    OBVIOUS
  <2> QED BY <1>1, <2>2, <2>3, Zenon
<1>5. ASSUME NEW p \in 0 .. 15 PROVE SpotAt(it, p) = Spot32(x, y, k, p)
  <2>1. CASE p < 8
    <3>1. PICK r \in 0 .. 31 : r = 8 * x + k /\ r \div 8 = x /\ r % 8 = k
      BY <2>1
    <3>2. PICK c \in 0 .. 31 : c = 8 * y + p /\ c \div 8 = y
      BY <2>1
    <3>3. PICK q \in 1 .. 8 : q = p + 1
      BY <2>1
    <3>4. 8 * x + k = r /\ 8 * y + q - 1 = c
      BY <2>1, <3>1, <3>2, <3>3
    <3>5. it.loads[q] = <<"A", r, c>>
      BY <1>2, <3>3, <3>4
    <3>6. Accesses(it)[p + 1] = AddressOf(<<"A", r, c>>)
      BY <1>4, <3>3, <3>5
    <3>7. SpotOf(AddressOf(<<"A", r, c>>)) = <<4 * (r % 8) + (c \div 8), r \div 8>>
      BY Cells32, ZenonT(20)
    <3> QED BY <2>1, <3>1, <3>2, <3>6, <3>7 DEF Spot32, SpotAt
  <2>2. CASE p >= 8
    <3>1. PICK r \in 0 .. 31 : r = 8 * y + (p - 8) /\ r \div 8 = y /\ r % 8 = p - 8
      BY <2>2
    <3>2. PICK c \in 0 .. 31 : c = 8 * x + k /\ c \div 8 = x
      BY <2>2
    <3>3. PICK q \in 1 .. 8 : q = p - 7
      BY <2>2
    <3>4. 8 * y + q - 1 = r /\ 8 * x + k = c
      BY <2>2, <3>1, <3>2, <3>3
    <3>5. it.stores[q].to = <<"B", r, c>>
      BY <1>3, <3>3, <3>4
    <3>6. Accesses(it)[p + 1] = AddressOf(<<"B", r, c>>)
      <4>1. 8 + q = p + 1
        BY <3>3
      <4> QED BY <1>4, <3>5, <4>1
    <3>7. SpotOf(AddressOf(<<"B", r, c>>)) = <<4 * (r % 8) + (c \div 8), 256 + (r \div 8)>>
      BY Cells32, ZenonT(20)
    <3> QED BY <2>2, <3>1, <3>2, <3>6, <3>7 DEF Spot32, SpotAt
  <2> QED BY <2>1, <2>2
<1> QED BY <1>4, <1>5

LEMMA WherePark ==
    ASSUME DirectMapped, M = 64, N = 64,
           NEW x \in 0 .. 7, NEW y \in 0 .. 7, NEW k \in 0 .. 3,
           NEW it, it = ParkOf(x, y, k)
    PROVE  /\ Len(Accesses(it)) = 16
           /\ \A p \in 0 .. 15 : SpotAt(it, p) = SpotPark(x, y, k, p)
<1>1. DOMAIN it.loads = 1 .. 8 /\ Len(it.loads) = 8 /\ DOMAIN it.stores = 1 .. 8
  BY DEF ParkOf, Park
<1>2. \A q \in 1 .. 8 : it.loads[q] = <<"A", 8 * x + k, 8 * y + q - 1>>
  BY DEF ParkOf, Park
<1>3. \A q \in 1 .. 8 : it.stores[q].to = IF q =< 4 THEN <<"B", 8 * y + q - 1, 8 * x + k>>
                                                ELSE <<"B", 8 * y + q - 5, 8 * x + k + 4>>
  BY DEF ParkOf, Park
<1>4. /\ Len(Accesses(it)) = 16
      /\ \A q \in 1 .. 8 : /\ Accesses(it)[q] = AddressOf(it.loads[q])
                           /\ Accesses(it)[8 + q] = AddressOf(it.stores[q].to)
  <2>1. /\ Len(it.loads) \in Nat
        /\ DOMAIN it.loads = 1 .. Len(it.loads) /\ DOMAIN it.stores = 1 .. Len(it.loads)
    <3>1. 8 \in Nat
      OBVIOUS
    <3> QED BY <1>1, <3>1, Zenon
  <2>2. /\ Len(Accesses(it)) = Len(it.loads) + Len(it.loads)
        /\ \A q \in 1 .. Len(it.loads) :
              /\ Accesses(it)[q] = AddressOf(it.loads[q])
              /\ Accesses(it)[Len(it.loads) + q] = AddressOf(it.stores[q].to)
    BY <2>1, AccessesAre
  <2>3. 8 + 8 = 16
    OBVIOUS
  <2> QED BY <1>1, <2>2, <2>3, Zenon
<1>5. ASSUME NEW p \in 0 .. 15 PROVE SpotAt(it, p) = SpotPark(x, y, k, p)
  <2>1. CASE p < 8
    <3>1. PICK r \in 0 .. 63 : r = 8 * x + k /\ r \div 4 = 2 * x /\ r % 4 = k
      BY <2>1
    <3>2. PICK c \in 0 .. 63 : c = 8 * y + p /\ c \div 8 = y
      BY <2>1
    <3>3. PICK q \in 1 .. 8 : q = p + 1
      BY <2>1
    <3>4. 8 * x + k = r /\ 8 * y + q - 1 = c
      BY <2>1, <3>1, <3>2, <3>3
    <3>5. it.loads[q] = <<"A", r, c>>
      BY <1>2, <3>3, <3>4
    <3>6. Accesses(it)[p + 1] = AddressOf(<<"A", r, c>>)
      BY <1>4, <3>3, <3>5
    <3>7. SpotOf(AddressOf(<<"A", r, c>>)) = <<8 * (r % 4) + (c \div 8), r \div 4>>
      BY Cells64, ZenonT(20)
    <3> QED BY <2>1, <3>1, <3>2, <3>6, <3>7 DEF SpotPark, SpotAt
  <2>2. CASE p \in 8 .. 11
    <3>1. PICK r \in 0 .. 63 : r = 8 * y + (p - 8) /\ r \div 4 = 2 * y /\ r % 4 = p - 8
      BY <2>2
    <3>2. PICK c \in 0 .. 63 : c = 8 * x + k /\ c \div 8 = x
      BY <2>2
    <3>3. PICK q \in 1 .. 8 : q = p - 7 /\ p - 7 =< 4
      BY <2>2
    <3>4. 8 * y + q - 1 = r /\ 8 * x + k = c
      BY <2>2, <3>1, <3>2, <3>3
    <3>5. it.stores[q].to = <<"B", r, c>>
      BY <1>3, <3>3, <3>4
    <3>6. Accesses(it)[p + 1] = AddressOf(<<"B", r, c>>)
      <4>1. 8 + q = p + 1
        BY <3>3
      <4> QED BY <1>4, <3>5, <4>1
    <3>7. SpotOf(AddressOf(<<"B", r, c>>)) = <<8 * (r % 4) + (c \div 8), 256 + (r \div 4)>>
      BY Cells64, ZenonT(20)
    <3> QED BY <2>2, <3>1, <3>2, <3>6, <3>7 DEF SpotPark, SpotAt
  <2>3. CASE p \in 12 .. 15
    <3>1. PICK r \in 0 .. 63 : r = 8 * y + (p - 12) /\ r \div 4 = 2 * y /\ r % 4 = p - 12
      BY <2>3
    <3>2. PICK c \in 0 .. 63 : c = 8 * x + k + 4 /\ c \div 8 = x
      BY <2>3
    <3>3. PICK q \in 1 .. 8 : q = p - 7 /\ ~(p - 7 =< 4)
      BY <2>3
    <3>4. 8 * y + q - 5 = r /\ 8 * x + k + 4 = c
      BY <2>3, <3>1, <3>2, <3>3
    <3>5. it.stores[q].to = <<"B", r, c>>
      BY <1>3, <3>3, <3>4
    <3>6. Accesses(it)[p + 1] = AddressOf(<<"B", r, c>>)
      <4>1. 8 + q = p + 1
        BY <3>3
      <4> QED BY <1>4, <3>5, <4>1
    <3>7. SpotOf(AddressOf(<<"B", r, c>>)) = <<8 * (r % 4) + (c \div 8), 256 + (r \div 4)>>
      BY Cells64, ZenonT(20)
    <3> QED BY <2>3, <3>1, <3>2, <3>6, <3>7 DEF SpotPark, SpotAt
  <2> QED BY <2>1, <2>2, <2>3
<1> QED BY <1>4, <1>5

LEMMA WhereSwap ==
    ASSUME DirectMapped, M = 64, N = 64,
           NEW x \in 0 .. 7, NEW y \in 0 .. 7, NEW k \in 0 .. 3,
           NEW it, it = SwapOf(x, y, k)
    PROVE  /\ Len(Accesses(it)) = 16
           /\ \A p \in 0 .. 15 : SpotAt(it, p) = SpotSwap(x, y, k, p)
<1>1. DOMAIN it.loads = 1 .. 8 /\ Len(it.loads) = 8 /\ DOMAIN it.stores = 1 .. 8
  BY DEF SwapOf, Swap
<1>2. \A q \in 1 .. 8 : it.loads[q] = IF q =< 4 THEN <<"B", 8 * y + k, 8 * x + q + 3>>
                                           ELSE <<"A", 8 * x + q - 1, 8 * y + k>>
  BY DEF SwapOf, Swap
<1>3. \A q \in 1 .. 8 : it.stores[q].to = IF q =< 4 THEN <<"B", 8 * y + k, 8 * x + q + 3>>
                                                ELSE <<"B", 8 * y + k + 4, 8 * x + q - 5>>
  BY DEF SwapOf, Swap
<1>4. /\ Len(Accesses(it)) = 16
      /\ \A q \in 1 .. 8 : /\ Accesses(it)[q] = AddressOf(it.loads[q])
                           /\ Accesses(it)[8 + q] = AddressOf(it.stores[q].to)
  <2>1. /\ Len(it.loads) \in Nat
        /\ DOMAIN it.loads = 1 .. Len(it.loads) /\ DOMAIN it.stores = 1 .. Len(it.loads)
    <3>1. 8 \in Nat
      OBVIOUS
    <3> QED BY <1>1, <3>1, Zenon
  <2>2. /\ Len(Accesses(it)) = Len(it.loads) + Len(it.loads)
        /\ \A q \in 1 .. Len(it.loads) :
              /\ Accesses(it)[q] = AddressOf(it.loads[q])
              /\ Accesses(it)[Len(it.loads) + q] = AddressOf(it.stores[q].to)
    BY <2>1, AccessesAre
  <2>3. 8 + 8 = 16
    OBVIOUS
  <2> QED BY <1>1, <2>2, <2>3, Zenon
<1>5. ASSUME NEW p \in 0 .. 15 PROVE SpotAt(it, p) = SpotSwap(x, y, k, p)
  <2>1. CASE p < 4
    <3>1. PICK r \in 0 .. 63 : r = 8 * y + k /\ r \div 4 = 2 * y /\ r % 4 = k
      BY <2>1
    <3>2. PICK c \in 0 .. 63 : c = 8 * x + p + 4 /\ c \div 8 = x
      BY <2>1
    <3>3. PICK q \in 1 .. 8 : q = p + 1 /\ p + 1 =< 4
      BY <2>1
    <3>4. 8 * y + k = r /\ 8 * x + q + 3 = c
      BY <2>1, <3>1, <3>2, <3>3
    <3>5. it.loads[q] = <<"B", r, c>>
      BY <1>2, <3>3, <3>4
    <3>6. Accesses(it)[p + 1] = AddressOf(<<"B", r, c>>)
      BY <1>4, <3>3, <3>5
    <3>7. SpotOf(AddressOf(<<"B", r, c>>)) = <<8 * (r % 4) + (c \div 8), 256 + (r \div 4)>>
      BY Cells64, ZenonT(20)
    <3> QED BY <2>1, <3>1, <3>2, <3>6, <3>7 DEF SpotSwap, SpotAt
  <2>2. CASE p \in 4 .. 7
    <3>1. PICK r \in 0 .. 63 : r = 8 * x + p /\ r \div 4 = 2 * x + 1 /\ r % 4 = p - 4
      BY <2>2
    <3>2. PICK c \in 0 .. 63 : c = 8 * y + k /\ c \div 8 = y
      BY <2>2
    <3>3. PICK q \in 1 .. 8 : q = p + 1 /\ ~(p + 1 =< 4)
      BY <2>2
    <3>4. 8 * x + q - 1 = r /\ 8 * y + k = c
      BY <2>2, <3>1, <3>2, <3>3
    <3>5. it.loads[q] = <<"A", r, c>>
      BY <1>2, <3>3, <3>4
    <3>6. Accesses(it)[p + 1] = AddressOf(<<"A", r, c>>)
      BY <1>4, <3>3, <3>5
    <3>7. SpotOf(AddressOf(<<"A", r, c>>)) = <<8 * (r % 4) + (c \div 8), r \div 4>>
      BY Cells64, ZenonT(20)
    <3> QED BY <2>2, <3>1, <3>2, <3>6, <3>7 DEF SpotSwap, SpotAt
  <2>3. CASE p \in 8 .. 11
    <3>1. PICK r \in 0 .. 63 : r = 8 * y + k /\ r \div 4 = 2 * y /\ r % 4 = k
      BY <2>3
    <3>2. PICK c \in 0 .. 63 : c = 8 * x + (p - 4) /\ c \div 8 = x
      BY <2>3
    <3>3. PICK q \in 1 .. 8 : q = p - 7 /\ p - 7 =< 4
      BY <2>3
    <3>4. 8 * y + k = r /\ 8 * x + q + 3 = c
      BY <2>3, <3>1, <3>2, <3>3
    <3>5. it.stores[q].to = <<"B", r, c>>
      BY <1>3, <3>3, <3>4
    <3>6. Accesses(it)[p + 1] = AddressOf(<<"B", r, c>>)
      <4>1. 8 + q = p + 1
        BY <3>3
      <4> QED BY <1>4, <3>5, <4>1
    <3>7. SpotOf(AddressOf(<<"B", r, c>>)) = <<8 * (r % 4) + (c \div 8), 256 + (r \div 4)>>
      BY Cells64, ZenonT(20)
    <3> QED BY <2>3, <3>1, <3>2, <3>6, <3>7 DEF SpotSwap, SpotAt
  <2>4. CASE p \in 12 .. 15
    <3>1. PICK r \in 0 .. 63 : r = 8 * y + k + 4 /\ r \div 4 = 2 * y + 1 /\ r % 4 = k
      BY <2>4
    <3>2. PICK c \in 0 .. 63 : c = 8 * x + (p - 12) /\ c \div 8 = x
      BY <2>4
    <3>3. PICK q \in 1 .. 8 : q = p - 7 /\ ~(p - 7 =< 4)
      BY <2>4
    <3>4. 8 * y + k + 4 = r /\ 8 * x + q - 5 = c
      BY <2>4, <3>1, <3>2, <3>3
    <3>5. it.stores[q].to = <<"B", r, c>>
      BY <1>3, <3>3, <3>4
    <3>6. Accesses(it)[p + 1] = AddressOf(<<"B", r, c>>)
      <4>1. 8 + q = p + 1
        BY <3>3
      <4> QED BY <1>4, <3>5, <4>1
    <3>7. SpotOf(AddressOf(<<"B", r, c>>)) = <<8 * (r % 4) + (c \div 8), 256 + (r \div 4)>>
      BY Cells64, ZenonT(20)
    <3> QED BY <2>4, <3>1, <3>2, <3>6, <3>7 DEF SpotSwap, SpotAt
  <2> QED BY <2>1, <2>2, <2>3, <2>4
<1> QED BY <1>4, <1>5

LEMMA WhereCopy ==
    ASSUME DirectMapped, M = 64, N = 64,
           NEW x \in 0 .. 7, NEW y \in 0 .. 7, NEW k \in 0 .. 3,
           NEW it, it = CopyOf(x, y, k)
    PROVE  /\ Len(Accesses(it)) = 8
           /\ \A p \in 0 .. 7 : SpotAt(it, p) = SpotCopy(x, y, k, p)
<1>1. DOMAIN it.loads = 1 .. 4 /\ Len(it.loads) = 4 /\ DOMAIN it.stores = 1 .. 4
  BY DEF CopyOf, CopyRow
<1>2. \A q \in 1 .. 4 : it.loads[q] = <<"A", 8 * x + 4 + k, 8 * y + 4 + q - 1>>
  BY DEF CopyOf, CopyRow
<1>3. \A q \in 1 .. 4 : it.stores[q].to = <<"B", 8 * y + 4 + q - 1, 8 * x + 4 + k>>
  BY DEF CopyOf, CopyRow
<1>4. /\ Len(Accesses(it)) = 8
      /\ \A q \in 1 .. 4 : /\ Accesses(it)[q] = AddressOf(it.loads[q])
                           /\ Accesses(it)[4 + q] = AddressOf(it.stores[q].to)
  <2>1. /\ Len(it.loads) \in Nat
        /\ DOMAIN it.loads = 1 .. Len(it.loads) /\ DOMAIN it.stores = 1 .. Len(it.loads)
    <3>1. 4 \in Nat
      OBVIOUS
    <3> QED BY <1>1, <3>1, Zenon
  <2>2. /\ Len(Accesses(it)) = Len(it.loads) + Len(it.loads)
        /\ \A q \in 1 .. Len(it.loads) :
              /\ Accesses(it)[q] = AddressOf(it.loads[q])
              /\ Accesses(it)[Len(it.loads) + q] = AddressOf(it.stores[q].to)
    BY <2>1, AccessesAre
  <2>3. 4 + 4 = 8
    OBVIOUS
  <2> QED BY <1>1, <2>2, <2>3, Zenon
<1>5. ASSUME NEW p \in 0 .. 7 PROVE SpotAt(it, p) = SpotCopy(x, y, k, p)
  <2>1. CASE p < 4
    <3>1. PICK r \in 0 .. 63 : r = 8 * x + 4 + k /\ r \div 4 = 2 * x + 1 /\ r % 4 = k
      BY <2>1
    <3>2. PICK c \in 0 .. 63 : c = 8 * y + 4 + p /\ c \div 8 = y
      BY <2>1
    <3>3. PICK q \in 1 .. 4 : q = p + 1
      BY <2>1
    <3>4. 8 * x + 4 + k = r /\ 8 * y + 4 + q - 1 = c
      BY <2>1, <3>1, <3>2, <3>3
    <3>5. it.loads[q] = <<"A", r, c>>
      BY <1>2, <3>3, <3>4
    <3>6. Accesses(it)[p + 1] = AddressOf(<<"A", r, c>>)
      BY <1>4, <3>3, <3>5
    <3>7. SpotOf(AddressOf(<<"A", r, c>>)) = <<8 * (r % 4) + (c \div 8), r \div 4>>
      BY Cells64, ZenonT(20)
    <3> QED BY <2>1, <3>1, <3>2, <3>6, <3>7 DEF SpotCopy, SpotAt
  <2>2. CASE p >= 4
    <3>1. PICK r \in 0 .. 63 : r = 8 * y + p /\ r \div 4 = 2 * y + 1 /\ r % 4 = p - 4
      BY <2>2
    <3>2. PICK c \in 0 .. 63 : c = 8 * x + 4 + k /\ c \div 8 = x
      BY <2>2
    <3>3. PICK q \in 1 .. 4 : q = p - 3
      BY <2>2
    <3>4. 8 * y + 4 + q - 1 = r /\ 8 * x + 4 + k = c
      BY <2>2, <3>1, <3>2, <3>3
    <3>5. it.stores[q].to = <<"B", r, c>>
      BY <1>3, <3>3, <3>4
    <3>6. Accesses(it)[p + 1] = AddressOf(<<"B", r, c>>)
      <4>1. 4 + q = p + 1
        BY <3>3
      <4> QED BY <1>4, <3>5, <4>1
    <3>7. SpotOf(AddressOf(<<"B", r, c>>)) = <<8 * (r % 4) + (c \div 8), 256 + (r \div 4)>>
      BY Cells64, ZenonT(20)
    <3> QED BY <2>2, <3>1, <3>2, <3>6, <3>7 DEF SpotCopy, SpotAt
  <2> QED BY <2>1, <2>2
<1> QED BY <1>4, <1>5

LEMMA Where64 ==
    ASSUME DirectMapped, M = 64, N = 64,
           NEW x \in 0 .. 7, NEW y \in 0 .. 7, NEW k \in 0 .. 11,
           NEW it, it = SubblockOf(x, y, k)
    PROVE  /\ Len(Accesses(it)) = IF k >= 8 THEN 8 ELSE 16
           /\ \A p \in 0 .. 15 :
                 (k >= 8 => p < 8) => SpotAt(it, p) = Spot64(x, y, k, p)
<1>1. CASE k < 4
  <2>1. k \in 0 .. 3 /\ it = ParkOf(x, y, k)
    BY <1>1 DEF SubblockOf
  <2>2. /\ Len(Accesses(it)) = 16
        /\ \A p \in 0 .. 15 : SpotAt(it, p) = SpotPark(x, y, k, p)
    BY <2>1, WherePark
  <2>3. \A p : Spot64(x, y, k, p) = SpotPark(x, y, k, p)
    BY <1>1 DEF Spot64
  <2> QED BY <1>1, <2>2, <2>3
<1>2. CASE k \in 4 .. 7
  <2>1. PICK w \in 0 .. 3 : w = k - 4
    BY <1>2
  <2>2. it = SwapOf(x, y, w)
    BY <1>2, <2>1 DEF SubblockOf
  <2>3. /\ Len(Accesses(it)) = 16
        /\ \A p \in 0 .. 15 : SpotAt(it, p) = SpotSwap(x, y, w, p)
    BY <2>2, WhereSwap
  <2>4. \A p : Spot64(x, y, k, p) = SpotSwap(x, y, w, p)
    BY <1>2, <2>1 DEF Spot64
  <2> QED BY <1>2, <2>3, <2>4
<1>3. CASE k >= 8
  <2>1. PICK w \in 0 .. 3 : w = k - 8
    BY <1>3
  <2>2. it = CopyOf(x, y, w)
    BY <1>3, <2>1 DEF SubblockOf
  <2>3. /\ Len(Accesses(it)) = 8
        /\ \A p \in 0 .. 7 : SpotAt(it, p) = SpotCopy(x, y, w, p)
    BY <2>2, WhereCopy
  <2>4. \A p : Spot64(x, y, k, p) = SpotCopy(x, y, w, p)
    BY <1>3, <2>1 DEF Spot64
  <2> QED BY <1>3, <2>3, <2>4
<1> QED BY <1>1, <1>2, <1>3
-----------------------------------------------------------------------------
(* The same for either size.                                                 *)
SquareOfScore == M = N /\ M \in {32, 64} /\ block \in 1 .. Across * Across

LEMMA BlockPosition ==
    ASSUME SquareOfScore
    PROVE  /\ block - 1 = Across * X + Y /\ X \in 0 .. Across - 1 /\ Y \in 0 .. Across - 1
           /\ M = 32 => Across = 4 /\ N = 32 /\ block - 1 \in 0 .. 15
           /\ M = 64 => Across = 8 /\ N = 64 /\ block - 1 \in 0 .. 63
<1>1. (M = 32 => Across = 4) /\ (M = 64 => Across = 8)
  BY DEF Across
<1>2. CASE M = 32
  BY <1>1, <1>2 DEF SquareOfScore, X, Y
<1>3. CASE M = 64
  BY <1>1, <1>3 DEF SquareOfScore, X, Y
<1> QED BY <1>2, <1>3 DEF SquareOfScore

LEMMA Where ==
    ASSUME DirectMapped, SquareOfScore, NEW k \in 0 .. Iterations - 1,
           NEW it, it = Block("transpose_submit", block - 1, M, M)[k + 1]
    PROVE  /\ Len(Accesses(it)) = Length(k)
           /\ \A p \in 0 .. Length(k) - 1 : SpotAt(it, p) = Spot(k, p)
<1>1. CASE M = 32
  <2>1. /\ X = (block - 1) \div 4 /\ Y = (block - 1) % 4
        /\ X \in 0 .. 3 /\ Y \in 0 .. 3 /\ block - 1 \in 0 .. 15 /\ k \in 0 .. 7 /\ N = 32
    BY <1>1, BlockPosition DEF X, Y, Iterations
  <2>2. it = RowOf(X, Y, k)
    BY <1>1, <2>1, Rows32
  <2>3. /\ Len(Accesses(it)) = 16
        /\ \A p \in 0 .. 15 : SpotAt(it, p) = Spot32(X, Y, k, p)
    BY <1>1, <2>1, <2>2, Where32
  <2>4. Length(k) = 16 /\ \A p : Spot(k, p) = Spot32(X, Y, k, p)
    BY <1>1 DEF Length, Spot
  <2> QED BY <2>3, <2>4
<1>2. CASE M = 64
  <2>1. X \in 0 .. 7 /\ Y \in 0 .. 7 /\ k \in 0 .. 11 /\ N = 64
    BY <1>2, BlockPosition DEF Iterations
  <2>2. it = SubblockOf(X, Y, k)
    <3>1. X = (block - 1) \div 8 /\ Y = (block - 1) % 8 /\ block - 1 \in 0 .. 63
      BY <1>2, BlockPosition DEF X, Y
    <3> QED BY <1>2, <2>1, <3>1, Rows64
  <2>3. /\ Len(Accesses(it)) = IF k >= 8 THEN 8 ELSE 16
        /\ \A p \in 0 .. 15 :
              (k >= 8 => p < 8) => SpotAt(it, p) = Spot64(X, Y, k, p)
    BY <1>2, <2>1, <2>2, Where64, ZenonT(30)
  <2>4. Length(k) = (IF k >= 8 THEN 8 ELSE 16) /\ \A p : Spot(k, p) = Spot64(X, Y, k, p)
    BY <1>2 DEF Length, Spot
  <2>5. \A p \in 0 .. Length(k) - 1 : p \in 0 .. 15 /\ (k >= 8 => p < 8)
    BY <2>1, <2>4
  <2>6. ASSUME NEW p \in 0 .. Length(k) - 1
        PROVE  SpotAt(it, p) = Spot(k, p)
    BY <2>3, <2>4, <2>5
  <2> QED BY <2>3, <2>4, <2>6
<1> QED BY <1>1, <1>2 DEF SquareOfScore

LEMMA IterationEnds ==
    ASSUME SquareOfScore, NEW k \in 0 .. Iterations - 1
    PROVE  /\ Kept(k, Length(k)) => Kept(k + 1, 0)
           /\ Paid(k, Length(k)) = Paid(k + 1, 0)
<1>1. CASE M = 32
  <2>1. X \in 0 .. 3 /\ Y \in 0 .. 3 /\ k \in 0 .. 7 /\ Length(k) = 16
    BY <1>1, BlockPosition DEF Iterations, Length
  <2> QED BY <1>1, <2>1, Next32 DEF Kept, Paid
<1>2. CASE M = 64
  <2>1. /\ X \in 0 .. 7 /\ Y \in 0 .. 7 /\ k \in 0 .. 11
        /\ Length(k) = IF k < 8 THEN 16 ELSE 8
    BY <1>2, BlockPosition DEF Iterations, Length
  <2>2. /\ Kept64(Held, X, Y, k, Length(k)) => Kept64(Held, X, Y, k + 1, 0)
        /\ Paid64(X, Y, k, Length(k)) = Paid64(X, Y, k + 1, 0)
    BY <2>1, Next64
  <2> QED BY <1>2, <2>2 DEF Kept, Paid
<1> QED BY <1>1, <1>2 DEF SquareOfScore

LEMMA SpotStep ==
    ASSUME SquareOfScore, NEW k \in 0 .. Iterations - 1, NEW p \in 0 .. Length(k) - 1,
           Held \in [0 .. 31 -> Int], Kept(k, p),
           Held' = Fetch(Held, Spot(k, p)), UNCHANGED <<M, block>>
    PROVE  /\ Kept(k, p + 1)' /\ Paid(k, p + 1)' = Paid(k, p + 1)
           /\ Paid(k, p) + Price(Held, Spot(k, p)) =< Paid(k, p + 1)
           /\ p + 1 = Length(k) => Kept(k + 1, 0)' /\ Paid(k + 1, 0)' = Paid(k, p + 1)
<1>1. X' = X /\ Y' = Y /\ Diagonals' = Diagonals /\ Diagonals \in Int /\ block \in Int
  BY BlockPosition DEF X, Y, Across, Diagonals, Once, SquareOfScore
<1>2. Paid(k, p + 1)' = Paid(k, p + 1)
  BY <1>1 DEF Paid
<1>3. p + 1 = Length(k) => Paid(k + 1, 0)' = Paid(k, p + 1)
  <2>1. Paid(k + 1, 0)' = Paid(k + 1, 0)
    BY <1>1 DEF Paid
  <2> QED BY <2>1, IterationEnds
<1> DEFINE spot == Spot(k, p)
<1>4. CASE M = 32
  <2>1. X \in 0 .. 3 /\ Y \in 0 .. 3 /\ k \in 0 .. 7 /\ p \in 0 .. 15
    BY <1>4, BlockPosition DEF Iterations, Length
  <2>2. spot = Spot32(X, Y, k, p) /\ Kept32(Held, X, Y, k, p)
    BY <1>4 DEF Spot, Kept
  <2>3. /\ Kept32(Fetch(Held, spot), X, Y, k, p + 1)
        /\ Paid32(X, Y, k, p) + Price(Held, spot) =< Paid32(X, Y, k, p + 1)
    BY <2>1, <2>2, Step32
  <2>4. Kept(k, p + 1)'
    BY <1>1, <1>4, <2>3 DEF Kept
  <2>5. /\ Paid32(X, Y, k, p) \in Int /\ Paid32(X, Y, k, p + 1) \in Int
        /\ Price(Held, spot) \in Int
    BY <2>1 DEF Paid32, Price, Once, UpTo
  <2>6. Paid(k, p) + Price(Held, spot) =< Paid(k, p + 1)
    BY <1>1, <1>4, <2>3, <2>5 DEF Paid
  <2>7. ASSUME p + 1 = Length(k) PROVE Kept(k + 1, 0)'
    <3>1. p + 1 = 16
      BY <1>4, <2>7 DEF Length
    <3>2. Kept32(Fetch(Held, spot), X, Y, k + 1, 0)
      BY <2>1, <2>3, <3>1, Next32
    <3> QED BY <1>1, <1>4, <3>2 DEF Kept
  <2> QED BY <1>2, <1>3, <2>4, <2>6, <2>7
<1>5. CASE M = 64
  <2>1. /\ X \in 0 .. 7 /\ Y \in 0 .. 7 /\ k \in 0 .. 11 /\ p \in 0 .. 15
        /\ k >= 8 => p < 8
    <3>1. X \in 0 .. 7 /\ Y \in 0 .. 7 /\ k \in 0 .. 11
      BY <1>5, BlockPosition DEF Iterations
    <3>2. Length(k) = IF k >= 8 THEN 8 ELSE 16
      BY <1>5 DEF Length
    <3> QED BY <3>1, <3>2
  <2>2. spot = Spot64(X, Y, k, p) /\ Kept64(Held, X, Y, k, p)
    BY <1>5 DEF Spot, Kept
  <2>3. /\ Kept64(Fetch(Held, spot), X, Y, k, p + 1)
        /\ Paid64(X, Y, k, p) + Price(Held, spot) =< Paid64(X, Y, k, p + 1)
    BY <2>1, <2>2, Step64
  <2>4. Kept(k, p + 1)'
    BY <1>1, <1>5, <2>3 DEF Kept
  <2>5. /\ Paid64(X, Y, k, p) \in Int /\ Paid64(X, Y, k, p + 1) \in Int
        /\ Price(Held, spot) \in Int
    BY <2>1 DEF Paid64, PaidPark, PaidSwap, PaidCopy, Price, Once, UpTo
  <2>6. Paid(k, p) + Price(Held, spot) =< Paid(k, p + 1)
    BY <1>1, <1>5, <2>3, <2>5 DEF Paid
  <2>7. ASSUME p + 1 = Length(k) PROVE Kept(k + 1, 0)'
    <3>1. p + 1 = IF k < 8 THEN 16 ELSE 8
      BY <1>5, <2>1, <2>7 DEF Length
    <3>2. Kept64(Fetch(Held, spot), X, Y, k + 1, 0)
      BY <2>1, <2>3, <3>1, Next64
    <3> QED BY <1>1, <1>5, <3>2 DEF Kept
  <2> QED BY <1>2, <1>3, <2>4, <2>6, <2>7
<1> QED BY <1>4, <1>5 DEF SquareOfScore

LEMMA BlockEnds ==
    ASSUME SquareOfScore, block < Across * Across, block' = block + 1, M' = M
    PROVE  Paid(Iterations, 0) = Paid(0, 0)'
<1>1. M' = M /\ Across' = Across /\ block' - 1 = block
  BY DEF Across, SquareOfScore
<1>2. CASE M = 32
  <2>1. /\ Across = 4 /\ X \in 0 .. 3 /\ Y \in 0 .. 3
        /\ block - 1 = 4 * X + Y /\ block \in 1 .. 15
    BY <1>2, BlockPosition DEF SquareOfScore
  <2>2. /\ X' = IF Y = 3 THEN X + 1 ELSE X
        /\ Y' = IF Y = 3 THEN 0 ELSE Y + 1
    <3>1. X' = block \div 4 /\ Y' = block % 4
      BY <1>1, <2>1 DEF X, Y
    <3>2. block = 4 * X + Y + 1
      BY <2>1
    <3> HIDE DEF X, Y
    <3> QED BY <2>1, <3>1, <3>2
  <2>3. Iterations = 8
    BY <1>2 DEF Iterations
  <2> QED BY <1>1, <1>2, <2>1, <2>2, <2>3 DEF Paid, Paid32, Diagonals, Once, UpTo
<1>3. CASE M = 64
  <2>1. /\ Across = 8 /\ X \in 0 .. 7 /\ Y \in 0 .. 7
        /\ block - 1 = 8 * X + Y /\ block \in 1 .. 63
    BY <1>3, BlockPosition DEF SquareOfScore
  <2>2. /\ X' = IF Y = 7 THEN X + 1 ELSE X
        /\ Y' = IF Y = 7 THEN 0 ELSE Y + 1
    <3>1. X' = block \div 8 /\ Y' = block % 8
      BY <1>1, <2>1 DEF X, Y
    <3>2. block = 8 * X + Y + 1
      BY <2>1
    <3> QED BY <2>1, <3>1, <3>2
  <2>3. Iterations = 12
    BY <1>3 DEF Iterations
  <2> QED BY <1>1, <1>3, <2>1, <2>2, <2>3
          DEF Paid, Paid64, PaidPark, PaidCopy, Diagonals, Once, UpTo
<1> QED BY <1>2, <1>3 DEF SquareOfScore

LEMMA NeverTooMuch ==
    ASSUME SquareOfScore, NEW k \in 0 .. Iterations, NEW p \in 0 .. 16
    PROVE  Paid(k, p) \in Nat /\ Paid(k, p) < FullScore
<1>1. CASE M = 32
  <2>1. FullScore = 300
    BY <1>1 DEF FullScore
  <2>2. X \in 0 .. 3 /\ Y \in 0 .. 3 /\ k \in 0 .. 8 /\ block - 1 = 4 * X + Y
    BY <1>1, BlockPosition DEF Iterations
  <2>3. Paid32(X, Y, k, p) \in 0 .. (IF X = Y THEN 24 ELSE 17)
    BY <2>2 DEF Paid32, Once, UpTo
  <2> QED BY <1>1, <2>1, <2>2, <2>3 DEF Paid, Diagonals, Once
<1>2. CASE M = 64
  <2>1. FullScore = 1300
    BY <1>2 DEF FullScore
  <2>2. X \in 0 .. 7 /\ Y \in 0 .. 7 /\ k \in 0 .. 12 /\ block - 1 = 8 * X + Y
    BY <1>2, BlockPosition DEF Iterations
  <2>3. Paid64(X, Y, k, p) \in 0 .. (IF X = Y THEN 52 ELSE 16)
    BY <2>2 DEF Paid64, PaidPark, PaidSwap, PaidCopy, Once, UpTo
  <2> QED BY <1>2, <2>1, <2>2, <2>3 DEF Paid, Diagonals, Once
<1> QED BY <1>1, <1>2 DEF SquareOfScore
-----------------------------------------------------------------------------
(* The steps of the replay.                                                  *)
LEMMA BlockLength ==
    ASSUME M = N, M \in {32, 64}, NEW b \in 0 .. Across * Across - 1
    PROVE  Len(Block("transpose_submit", b, M, M)) = Iterations
<1>1. CASE M = 32
  <2>1. b \in 0 .. 15 /\ 0 \in 0 .. 7
    BY <1>1 DEF Across
  <2> QED BY <1>1, <2>1, Rows32 DEF Iterations
<1>2. CASE M = 64
  <2>1. b \in 0 .. 63 /\ 0 \in 0 .. 11
    BY <1>2 DEF Across
  <2> QED BY <1>2, <2>1, Rows64 DEF Iterations
<1> QED BY <1>1, <1>2

LEMMA BlocksOfScore ==
    ASSUME M = N, M \in {32, 64}, i = 1
    PROVE  Count = Across * Across /\ Across * Across \in {16, 64} /\ func_list[i] = "transpose_submit"
<1>1. func_list[1] = "transpose_submit"
  BY DEF func_list
<1>2. CASE M = 32
  <2>1. Rounds(32, 8) = 4
    BY DEF Rounds
  <2> QED BY <1>1, <1>2, <2>1 DEF Count, BlockCount, Chosen, Stride, Across
<1>3. CASE M = 64
  <2>1. Rounds(64, 8) = 8
    BY DEF Rounds
  <2> QED BY <1>1, <1>3, <2>1 DEF Count, BlockCount, Chosen, Stride, Across
<1> QED BY <1>2, <1>3

(* Nothing is counted on when a block begins.                                *)
LEMMA BlockBegins ==
    ASSUME M \in {32, 64}, UNCHANGED M,
           todo' = Block("transpose_submit", block' - 1, M, M), Len(todo') = Iterations
    PROVE  RestOfBlock' /\ Begun' = 0 /\ Iterations' = Iterations /\ Kept(0, 0)'
<1>1. Iterations' = Iterations /\ Iterations \in {8, 12}
  BY DEF Iterations
<1>2. Begun' = 0
  BY <1>1 DEF Begun
<1>3. \A q \in 1 .. Len(todo') : Begun' + q = q
  BY <1>1, <1>2
<1>4. RestOfBlock'
  BY <1>1, <1>2, <1>3 DEF RestOfBlock
<1>5. Kept(0, 0)'
  <2>1. Kept32(Held', X', Y', 0, 0)
    BY DEF Kept32
  <2>2. Kept64(Held', X', Y', 0, 0)
    BY DEF Kept64, KeptPark
  <2> QED BY <2>1, <2>2 DEF Kept
<1> QED BY <1>1, <1>2, <1>4, <1>5

LEMMA FirstBlockBegins ==
    ASSUME M = N, M \in {32, 64}, i = 1, selectedFunc = 1, NotBegun, Generate,
           UNCHANGED <<M, N>>
    PROVE  MarkerMade'
<1>1. Count = Across * Across /\ Across * Across \in {16, 64} /\ func_list[i] = "transpose_submit"
  BY BlocksOfScore
<1>2. NextBlock /\ Traced(<<MarkerAddress>>) /\ UNCHANGED simulator
  BY <1>1 DEF Generate, NotBegun, Iterate, Validate, FunctionDone
<1>3. todo' = Block("transpose_submit", 0, M, M) /\ block' = 1 /\ exit_code' = exit_code
  BY <1>1, <1>2 DEF NextBlock, NotBegun
<1>4. Len(todo') = Iterations
  <2>1. 0 \in 0 .. Across * Across - 1
    BY <1>1
  <2> QED BY <1>3, <2>1, BlockLength
<1>5. RestOfBlock' /\ Iterations' = Iterations
  <2>1. block' - 1 = 0
    BY <1>3
  <2> QED BY <1>3, <1>4, <2>1, BlockBegins
<1>6. trace' = <<MarkerAddress>> /\ miss' = 0
  BY <1>2 DEF Traced, NotBegun, simulator
<1>7. exit_code' = Running /\ block' = 1
  BY <1>3 DEF NotBegun
<1> QED BY <1>4, <1>5, <1>6, <1>7 DEF MarkerMade

LEMMA BlockFollows ==
    ASSUME SquareOfScore, i = 1, selectedFunc = 1, Transposing, NextBlock,
           trace = <<>>, trace' = <<>>, UNCHANGED <<M, N, simulator>>
    PROVE  Transposing'
<1>1. Count = Across * Across /\ Across * Across \in {16, 64} /\ func_list[i] = "transpose_submit"
  BY BlocksOfScore DEF SquareOfScore
<1>2. /\ todo = <<>> /\ block < Across * Across /\ block' = block + 1 /\ exit_code' = exit_code
      /\ todo' = Block("transpose_submit", block, M, M)
  BY <1>1 DEF NextBlock, SquareOfScore
<1>3. block' - 1 = block /\ block' \in 1 .. Across * Across /\ block \in 0 .. Across * Across - 1
  BY <1>1, <1>2 DEF SquareOfScore
<1>4. Len(todo') = Iterations
  BY <1>2, <1>3, BlockLength DEF SquareOfScore
<1>5. RestOfBlock' /\ Begun' = 0 /\ Kept(0, 0)'
  BY <1>2, <1>3, <1>4, BlockBegins DEF SquareOfScore
<1>6. miss =< Paid(Iterations, 0)
  <2>1. Begun = Iterations
    BY <1>2 DEF Begun, Iterations
  <2> QED BY <2>1 DEF Transposing, BeforeIteration, InIteration
<1>7. miss' =< Paid(0, 0)'
  BY <1>2, <1>6, BlockEnds DEF simulator
<1>8. BeforeIteration'
  <2>1. Kept(Begun, 0)' /\ Paid(Begun, 0)' = Paid(0, 0)'
    BY <1>5 DEF Kept, Paid
  <2> QED BY <1>7, <2>1 DEF BeforeIteration
<1>9. (block \in 1 .. Across * Across)'
  BY <1>3 DEF Across
<1> QED BY <1>2, <1>5, <1>8, <1>9 DEF Transposing

LEMMA IterationBegins ==
    ASSUME DirectMapped, SquareOfScore, Transposing, Iterate, Good(todo, M, N),
           trace = <<>>, trace' = Accesses(Head(todo)), UNCHANGED <<M, N, simulator>>
    PROVE  Transposing'
<1>1. /\ RestOfBlock /\ Kept(Begun, 0) /\ miss =< Paid(Begun, 0)
  BY DEF Transposing, BeforeIteration, InIteration
<1>2. /\ Len(todo') = Len(todo) - 1 /\ Len(todo) \in Nat \ {0} /\ Head(todo) = todo[1]
      /\ \A q \in 1 .. Len(todo) - 1 : todo'[q] = todo[q + 1]
  BY IterateLeaves
<1>3. Iterations' = Iterations /\ Iterations \in {8, 12} /\ block' = block /\ exit_code' = exit_code
  BY DEF Iterations, Iterate
<1>4. /\ Begun' = Begun + 1 /\ Begun \in 0 .. Iterations - 1 /\ Begun' - 1 = Begun
  BY <1>1, <1>2, <1>3 DEF Begun, RestOfBlock
<1>5. RestOfBlock'
  <2>1. ASSUME NEW q \in 1 .. Len(todo')
        PROVE  todo'[q] = Block("transpose_submit", block - 1, M, M)[Begun' + q]
    <3>1. q + 1 \in 1 .. Len(todo) /\ q \in 1 .. Len(todo) - 1 /\ Begun + (q + 1) = Begun' + q
      BY <1>2, <1>4
    <3> QED BY <1>1, <1>2, <3>1 DEF RestOfBlock
  <2>2. Len(todo') =< Iterations'
    BY <1>1, <1>2, <1>3 DEF RestOfBlock
  <2> QED BY <1>3, <2>1, <2>2 DEF RestOfBlock
<1>6. Head(todo) = Block("transpose_submit", block - 1, M, M)[Begun + 1]
  <2>1. 1 \in 1 .. Len(todo)
    BY <1>2
  <2> QED BY <1>1, <1>2, <2>1 DEF RestOfBlock
<1>7. /\ Len(trace') = Length(Begun)
      /\ \A p \in 0 .. Length(Begun) - 1 : SpotOf(trace'[p + 1]) = Spot(Begun, p)
  BY <1>4, <1>6, Where DEF SpotAt
<1>8. Length(Begun) \in {8, 16} /\ \A k : Length(k)' = Length(k)
  BY DEF Length
<1>9. \A k, p : Spot(k, p)' = Spot(k, p) /\ (Kept(k, p)' <=> Kept(k, p)) /\ Paid(k, p)' = Paid(k, p)
  BY <1>3 DEF Spot, Kept, Paid, Held, X, Y, Across, Diagonals, simulator
<1>10. InIteration'
  <2>1. (Begun - 1)' = Begun /\ (Length(Begun - 1) - Len(trace))' = 0
    BY <1>4, <1>7, <1>8
  <2>2. trace' # <<>>
    BY <1>7, <1>8
  <2>3. ASSUME NEW q \in 1 .. Len(trace') PROVE SpotOf(trace'[q]) = Spot(Begun, 0 + q - 1)
    <3>1. q - 1 \in 0 .. Length(Begun) - 1 /\ (q - 1) + 1 = q /\ 0 + q - 1 = q - 1
      BY <1>7, <1>8
    <3> QED BY <1>7, <3>1
  <2>4. Begun >= 0 /\ miss' = miss
    BY <1>4 DEF simulator
  <2> QED BY <1>1, <1>9, <2>1, <2>2, <2>3, <2>4 DEF InIteration
<1>11. (block \in 1 .. Across * Across)' /\ exit_code' = Running
  BY <1>3 DEF Transposing, Across, SquareOfScore
<1> QED BY <1>5, <1>10, <1>11 DEF Transposing
-----------------------------------------------------------------------------
LEMMA LastBlockEnds ==
    ASSUME SquareOfScore, i = 1, selectedFunc = 1, miss \in Nat, Transposing, Validate,
           trace = <<>>, trace' = <<MarkerAddress>>, UNCHANGED <<M, N, simulator>>
    PROVE  Finished'
<1>1. Count = Across * Across /\ Across * Across \in {16, 64}
  BY BlocksOfScore DEF SquareOfScore
<1>2. todo = <<>> /\ exit_code' # Running
  BY DEF Validate, FunctionDone, Running
<1>3. Begun = Iterations
  BY <1>2 DEF Begun, Iterations
<1>4. miss =< Paid(Iterations, 0)
  BY <1>3 DEF Transposing, BeforeIteration, InIteration
<1>5. Paid(Iterations, 0) \in Nat /\ Paid(Iterations, 0) < FullScore
  <2>1. Iterations \in 0 .. Iterations /\ 0 \in 0 .. 16
    BY DEF Iterations
  <2> QED BY <2>1, NeverTooMuch
<1>6. miss' = miss /\ FullScore' = FullScore /\ Len(trace') = 1
  BY DEF simulator, FullScore
<1>7. miss \in Nat /\ FullScore \in Nat
  BY DEF FullScore, SquareOfScore
<1> QED BY <1>2, <1>4, <1>5, <1>6, <1>7 DEF Finished

(* The marker costs the miss with which the first block begins.              *)
LEMMA MarkerReplayed ==
    ASSUME DirectMapped, M = N, M \in {32, 64}, Sim!TypeOK, trace \in Seq(Address),
           MarkerMade, Replay
    PROVE  Transposing'
<1>1. Head(trace) \in Address /\ Sim!LoadOrStore(Head(trace)) /\ trace' = <<>>
  BY DEF MarkerMade, Replay
<1>2. miss' \in {0, 1}
  <2>1. PICK s, t : Sim!SetOf(Head(trace)) = s /\ Sim!TagOf(Head(trace)) = t
    OBVIOUS
  <2>2. miss' = miss + Price(Held, <<s, t>>)
    BY <1>1, <2>1, AccessHolds
  <2> QED BY <2>2 DEF MarkerMade, Price
<1>3. /\ UNCHANGED <<M, N, todo, block, exit_code>>
  BY DEF Replay, vars, arguments
<1>4. block = 1 /\ block' = 1 /\ Len(todo) = Iterations /\ RestOfBlock
  BY <1>3 DEF MarkerMade
<1>5. todo' = todo /\ Begun' = 0 /\ Begun = 0 /\ Iterations' = Iterations
  BY <1>3, <1>4 DEF Begun, Iterations
<1>6. RestOfBlock'
  BY <1>3, <1>4, <1>5 DEF RestOfBlock
<1>7. Kept(0, 0)'
  <2>1. Kept32(Held', X', Y', 0, 0)
    BY DEF Kept32
  <2>2. Kept64(Held', X', Y', 0, 0)
    BY DEF Kept64, KeptPark
  <2> QED BY <2>1, <2>2 DEF Kept
<1>8. Paid(0, 0)' \in Nat \ {0}
  <2>1. (M = 32 \/ M = 64)' /\ X' = 0 /\ Y' = 0
    BY <1>3, <1>4 DEF X, Y, Across
  <2> QED BY <1>4, <2>1 DEF Paid, Diagonals, Paid32, Paid64, PaidPark, Once, UpTo
<1>9. BeforeIteration'
  <2>1. Kept(Begun, 0)' /\ Paid(Begun, 0)' = Paid(0, 0)'
    BY <1>5, <1>7 DEF Kept, Paid
  <2> QED BY <1>1, <1>2, <1>8, <2>1 DEF BeforeIteration
<1>10. (block \in 1 .. Across * Across)' /\ exit_code' = Running
  BY <1>3, <1>4 DEF Across, MarkerMade
<1> QED BY <1>6, <1>9, <1>10 DEF Transposing

LEMMA AccessReplayed ==
    ASSUME DirectMapped, SquareOfScore, Sim!TypeOK, trace \in Seq(Address),
           Transposing, Good(todo, M, N), Replay
    PROVE  Transposing'
<1>1. InIteration
  BY DEF Transposing, BeforeIteration, Replay
<1>2. PICK k, p : k = Begun - 1 /\ p = Length(k) - Len(trace)
  OBVIOUS
<1>3. /\ k >= 0 /\ p >= 0
      /\ \A q \in 1 .. Len(trace) : SpotOf(trace[q]) = Spot(k, p + q - 1)
      /\ Kept(k, p) /\ miss =< Paid(k, p)
  BY <1>1, <1>2 DEF InIteration
<1>4. Head(trace) \in Address /\ Sim!LoadOrStore(Head(trace)) /\ trace' = Tail(trace) /\ trace # <<>>
  BY DEF Replay
<1>5. UNCHANGED <<M, N, todo, block, exit_code>>
  BY DEF Replay, vars, arguments
<1>6. Iterations' = Iterations /\ Iterations \in {8, 12} /\ Begun' = Begun
  BY <1>5 DEF Iterations, Begun
<1>7. RestOfBlock /\ RestOfBlock'
  BY <1>5, <1>6 DEF RestOfBlock, Transposing
<1>8. Len(trace) \in Nat \ {0} /\ Head(trace) = trace[1] /\ Len(trace') = Len(trace) - 1
      /\ \A q \in 1 .. Len(trace') : trace'[q] = trace[q + 1]
  BY <1>4
<1>9. Length(k) \in {8, 16}
  BY DEF Length
<1>10. k \in 0 .. Iterations - 1 /\ p \in 0 .. Length(k) - 1
  <2>1. Len(todo) \in Nat
    BY DEF Good
  <2> QED BY <1>3, <1>6, <1>8, <1>9, <1>2, <2>1 DEF Begun
<1>11. SpotOf(Head(trace)) = Spot(k, p)
  <2>1. 1 \in 1 .. Len(trace) /\ p + 1 - 1 = p
    BY <1>8, <1>9, <1>10
  <2> QED BY <1>3, <1>8, <2>1
<1>12. /\ Held \in [0 .. 31 -> Int] /\ Held' = Fetch(Held, Spot(k, p))
       /\ miss' = miss + Price(Held, Spot(k, p))
  <2>1. PICK s, t : Sim!SetOf(Head(trace)) = s /\ Sim!TagOf(Head(trace)) = t
    OBVIOUS
  <2>2. Spot(k, p) = <<s, t>>
    BY <1>11, <2>1 DEF SpotOf
  <2>3. /\ Held \in [0 .. 31 -> Int] /\ Held' = Fetch(Held, <<s, t>>)
        /\ miss' = miss + Price(Held, <<s, t>>)
    BY <1>4, <2>1, AccessHolds
  <2> QED BY <2>2, <2>3
<1>13. /\ Kept(k, p + 1)' /\ Paid(k, p + 1)' = Paid(k, p + 1)
       /\ Paid(k, p) + Price(Held, Spot(k, p)) =< Paid(k, p + 1)
       /\ p + 1 = Length(k) => Kept(k + 1, 0)' /\ Paid(k + 1, 0)' = Paid(k, p + 1)
  BY <1>3, <1>5, <1>10, <1>12, SpotStep
<1>14. miss' =< Paid(k, p + 1)'
  <2>1. p \in 0 .. 16 /\ p + 1 \in 0 .. 16 /\ k \in 0 .. Iterations
    BY <1>6, <1>9, <1>10
  <2>2. Paid(k, p) \in Nat /\ Paid(k, p + 1) \in Nat
    BY <2>1, NeverTooMuch
  <2>3. miss \in Nat /\ Price(Held, Spot(k, p)) \in {0, 1}
    BY DEF Sim!TypeOK, Price
  <2>4. PICK c \in {0, 1} : c = Price(Held, Spot(k, p))
    BY <2>3
  <2>5. miss' = miss + c /\ Paid(k, p) + c =< Paid(k, p + 1) /\ miss =< Paid(k, p)
    BY <1>3, <1>12, <1>13, <2>4
  <2>6. miss' =< Paid(k, p + 1)
    BY <2>2, <2>3, <2>5
  <2> QED BY <1>13, <2>6
<1>15. BeforeIteration' \/ InIteration'
  <2>1. CASE Len(trace) = 1
    <3>1. p + 1 = Length(k) /\ trace' = <<>>
      BY <1>4, <1>8, <1>9, <1>2, <2>1
    <3>2. Begun' = k + 1
      BY <1>6, <1>10, <1>2 DEF Begun
    <3>3. Kept(Begun, 0)' /\ Paid(Begun, 0)' = Paid(k, p + 1)'
      <4>1. Kept(k + 1, 0)' /\ Paid(k + 1, 0)' = Paid(k, p + 1)'
        BY <1>13, <3>1
      <4> QED BY <3>2, <4>1 DEF Kept, Paid
    <3> QED BY <1>14, <3>1, <3>3 DEF BeforeIteration
  <2>2. CASE Len(trace) # 1
    <3>1. trace' # <<>>
      BY <1>8, <2>2
    <3>2. (Begun - 1)' = k /\ k >= 0
      BY <1>6, <1>10, <1>2
    <3>3. \A j : Length(j)' = Length(j)
      BY <1>5 DEF Length
    <3>4. (Length(Begun - 1) - Len(trace))' = p + 1
      BY <1>8, <1>9, <1>2, <3>2, <3>3
    <3>5. \A j, q : Spot(j, q)' = Spot(j, q)
      BY <1>5 DEF Spot, X, Y, Across
    <3>6. ASSUME NEW q \in 1 .. Len(trace')
          PROVE  SpotOf(trace'[q]) = Spot(k, p + 1 + q - 1)
      <4>1. q + 1 \in 1 .. Len(trace) /\ p + (q + 1) - 1 = p + 1 + q - 1
        BY <1>8, <1>9, <1>10
      <4> QED BY <1>3, <1>8, <4>1
    <3>7. p + 1 >= 0
      BY <1>9, <1>10
    <3> QED BY <1>13, <1>14, <3>1, <3>2, <3>4, <3>5, <3>6, <3>7 DEF InIteration
  <2> QED BY <2>1, <2>2
<1>16. (block \in 1 .. Across * Across)' /\ exit_code' = Running
  BY <1>5 DEF Transposing, Across
<1> QED BY <1>7, <1>15, <1>16 DEF Transposing
-----------------------------------------------------------------------------
(* The score.                                                                *)
LEMMA ScoreFollows ==
    ASSUME DirectMapped, SubmissionScored, Sim!TypeOK, ReplayInv, ScoreInv,
           [ReplayNext]_replayvars
    PROVE  ScoreInv'
<1>1. CASE UNCHANGED replayvars
  <2>1. UNCHANGED <<M, N, selectedFunc, i, block, todo, exit_code, cache, miss, trace>>
    BY <1>1 DEF replayvars, vars, arguments, simulator
  <2>2. (NotBegun \/ MarkerMade \/ Transposing \/ Finished) =>
           (NotBegun \/ MarkerMade \/ Transposing \/ Finished)'
    <3>1. RestOfBlock' <=> RestOfBlock
      BY <2>1 DEF RestOfBlock, Begun, Iterations
    <3>2. BeforeIteration' <=> BeforeIteration
      BY <2>1 DEF BeforeIteration, Begun, Iterations, Kept, Paid, Held, X, Y, Across, Diagonals
    <3>3. InIteration' <=> InIteration
      BY <2>1 DEF InIteration, Begun, Iterations, Kept, Paid, Held, X, Y, Across, Diagonals,
                  Length, Spot
    <3> QED BY <2>1, <3>1, <3>2, <3>3
            DEF NotBegun, MarkerMade, Transposing, Finished, Across, Iterations, FullScore
  <2> QED BY <2>1, <2>2 DEF ScoreInv
<1>2. CASE Generate \/ Replay
  <2>1. UNCHANGED <<M, N, selectedFunc>>
    BY <1>2 DEF Generate, Replay, NextBlock, Iterate, Validate, vars, arguments
  <2> SUFFICES ASSUME <<M, N>> \in Scored, M = N
               PROVE  /\ selectedFunc' = 1 /\ i' = 1
                      /\ (NotBegun \/ MarkerMade \/ Transposing \/ Finished)'
    BY <2>1 DEF ScoreInv
  <2>2. selectedFunc = 1 /\ i = 1
    BY DEF ScoreInv
  <2>3. i' = 1
    BY <1>2, <2>2 DEF Generate, Replay, NextBlock, Iterate, Validate, vars
  <2>4. M \in {32, 64}
    BY ScoredSizes
  <2>5. miss \in Nat /\ Good(todo, M, N) /\ trace \in Seq(Address)
    BY DEF Sim!TypeOK, ReplayInv, TransposeInv, Work
  <2>6. CASE NotBegun
    <3>1. Generate
      BY <1>2, <2>6 DEF NotBegun, Replay
    <3>2. MarkerMade'
      BY <2>1, <2>2, <2>4, <2>6, <3>1, FirstBlockBegins
    <3> QED BY <2>1, <2>2, <2>3, <3>2
  <2>7. CASE MarkerMade
    <3>1. Replay
      BY <1>2, <2>7 DEF MarkerMade, Generate
    <3>2. Transposing'
      BY <2>4, <2>5, <2>7, <3>1, MarkerReplayed
    <3> QED BY <2>1, <2>2, <2>3, <3>2
  <2>8. CASE Transposing
    <3>1. SquareOfScore
      BY <2>4, <2>8 DEF SquareOfScore, Transposing
    <3>2. CASE Replay
      <4>1. Transposing'
        BY <2>5, <2>8, <3>1, <3>2, AccessReplayed
      <4> QED BY <2>1, <2>2, <2>3, <4>1
    <3>3. CASE Generate
      <4>1. trace = <<>> /\ UNCHANGED simulator /\ UNCHANGED <<M, N, simulator>>
        BY <2>1, <3>3 DEF Generate
      <4>2. \A addresses : Traced(addresses) => trace' = addresses
        BY <2>2 DEF Traced
      <4>3. block # 0
        BY <2>8 DEF Transposing
      <4>4. \/ NextBlock /\ trace' = <<>>
            \/ Iterate /\ trace' = Accesses(Head(todo))
            \/ Validate /\ trace' = <<MarkerAddress>>
        BY <3>3, <4>2, <4>3 DEF Generate
      <4>5. Transposing' \/ Finished'
        BY <2>2, <2>5, <2>8, <3>1, <4>1, <4>4, BlockFollows, IterationBegins, LastBlockEnds
      <4> QED BY <2>1, <2>2, <2>3, <4>5
    <3> QED BY <1>2, <3>2, <3>3
  <2>9. CASE Finished
    <3>1. Replay
      BY <1>2, <2>9 DEF Finished, Generate, NextBlock, Iterate, Validate, FunctionDone
    <3>2. Head(trace) \in Address /\ Sim!LoadOrStore(Head(trace)) /\ Len(trace) \in Nat \ {0}
          /\ Len(trace') = Len(trace) - 1
      BY <2>5, <3>1 DEF Replay
    <3>3. miss' \in {miss, miss + 1}
      <4>1. PICK s, t : Sim!SetOf(Head(trace)) = s /\ Sim!TagOf(Head(trace)) = t
        OBVIOUS
      <4>2. miss' = miss + Price(Held, <<s, t>>)
        BY <3>2, <4>1, AccessHolds
      <4> QED BY <2>5, <4>2 DEF Price
    <3>4. exit_code' = exit_code /\ FullScore' = FullScore /\ FullScore \in Nat
      BY <2>1, <2>4, <3>1 DEF Replay, vars, FullScore
    <3>5. Finished'
      BY <2>5, <2>9, <3>2, <3>3, <3>4 DEF Finished, Running
    <3> QED BY <2>1, <2>2, <2>3, <3>5
  <2> QED BY <2>6, <2>7, <2>8, <2>9 DEF ScoreInv
<1> QED BY <1>1, <1>2 DEF ReplayNext, Replayed

LEMMA ScoreBegins == SubmissionScored /\ ReplayInit => ScoreInv
<1> SUFFICES ASSUME SubmissionScored, ReplayInit, <<M, N>> \in Scored
             PROVE  selectedFunc = 1 /\ i = 1 /\ NotBegun
  BY DEF ScoreInv
<1>1. PICK v \in Invocations : M = v[1] /\ N = v[2] /\ selectedFunc = v[3]
  BY DEF ReplayInit, Init
<1>2. selectedFunc = 1
  BY <1>1 DEF SubmissionScored
<1> QED BY <1>2 DEF ReplayInit, Init, Sim!Init, NotBegun

LEMMA ScoreSuffices ==
    ASSUME Sim!TypeOK, ReplayInv, ScoreInv, M = N
    PROVE  MissesInBudget
<1> SUFFICES ASSUME <<M, N>> \in Scored
             PROVE  miss =< FullScore
  BY DEF MissesInBudget
<1>1. M \in {32, 64} /\ FullScore \in Nat /\ FullScore >= 300
  BY ScoredSizes DEF FullScore
<1>2. miss \in Nat /\ Len(trace) \in Nat /\ Good(todo, M, N)
  BY DEF Sim!TypeOK, ReplayInv, TransposeInv, Work
<1>3. CASE NotBegun \/ MarkerMade
  BY <1>1, <1>3 DEF NotBegun, MarkerMade
<1>4. CASE Finished
  BY <1>1, <1>2, <1>4 DEF Finished
<1>5. CASE Transposing
  <2>1. SquareOfScore
    BY <1>1, <1>5 DEF SquareOfScore, Transposing
  <2>2. Begun \in Int /\ Begun =< Iterations /\ Begun >= 0 /\ Iterations \in {8, 12}
    <3>1. Len(todo) \in Nat /\ Len(todo) =< Iterations /\ Iterations \in {8, 12}
      BY <1>2, <1>5 DEF Good, Transposing, RestOfBlock, Iterations
    <3> QED BY <3>1 DEF Begun
  <2>3. CASE BeforeIteration
    <3>1. Begun \in 0 .. Iterations /\ 0 \in 0 .. 16
      BY <2>2
    <3>2. Paid(Begun, 0) \in Nat /\ Paid(Begun, 0) < FullScore
      BY <2>1, <3>1, NeverTooMuch
    <3> QED BY <1>1, <1>2, <2>3, <3>2 DEF BeforeIteration
  <2>4. CASE InIteration
    <3>1. PICK k, p : k = Begun - 1 /\ p = Length(k) - Len(trace)
      OBVIOUS
    <3>2. k >= 0 /\ p >= 0 /\ miss =< Paid(k, p)
      BY <2>4, <3>1 DEF InIteration
    <3>3. k \in 0 .. Iterations /\ p \in 0 .. 16
      <4>1. Length(k) \in {8, 16}
        BY DEF Length
      <4>2. k =< Iterations
        BY <2>2, <3>1
      <4>3. p =< 16
        BY <1>2, <3>1, <4>1
      <4>4. k \in Int /\ p \in Int
        BY <1>2, <2>2, <3>1, <4>1
      <4> QED BY <2>2, <3>2, <4>2, <4>3, <4>4
    <3>4. Paid(k, p) \in Nat /\ Paid(k, p) < FullScore
      BY <2>1, <3>3, NeverTooMuch
    <3> QED BY <1>1, <1>2, <3>2, <3>4
  <2> QED BY <1>5, <2>3, <2>4 DEF Transposing
<1> QED BY <1>3, <1>4, <1>5 DEF ScoreInv

(* The submission earns the full score of driver.py on both square sizes: at *)
(* no access of the replay has it missed more often than the score allows.   *)
THEOREM SquaresInBudget ==
    DirectMapped /\ SubmissionScored => (ReplaySpec => [](M = N => MissesInBudget))
<1> SUFFICES ASSUME DirectMapped, SubmissionScored
             PROVE  ReplaySpec => [](M = N => MissesInBudget)
  OBVIOUS
<1>1. ReplaySpec => []Sim!TypeOK
  <2>1. SimProofs!Spec => []SimProofs!TypeOK
    BY SimProofs!TypeCorrect, SimulatorConstants
  <2>2. SimProofs!TypeOK => Sim!TypeOK
    BY DEF Sim!TypeOK, SimProofs!TypeOK, Sim!SetIndex, SimProofs!SetIndex,
           Sim!Lines, SimProofs!Lines, Sim!Line, SimProofs!Line,
           Sim!IntField, SimProofs!IntField,
           Sim!Access, SimProofs!Access, Sim!Tag, SimProofs!Tag
  <2> QED BY <2>1, <2>2, ReplaySimulates, SameSpec, PTL
<1>2. ReplayInit => ScoreInv
  BY ScoreBegins
<1>3. Sim!TypeOK /\ ReplayInv /\ ScoreInv /\ [ReplayNext]_replayvars => ScoreInv'
  BY ScoreFollows
<1>4. Sim!TypeOK /\ ReplayInv /\ ScoreInv => (M = N => MissesInBudget)
  BY ScoreSuffices
<1> QED BY <1>1, <1>2, <1>3, <1>4, ReplayInvariant, PTL DEF ReplaySpec
=============================================================================
