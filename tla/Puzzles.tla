------------------------------ MODULE Puzzles -------------------------------
(* The integer puzzles: bits.c as it is handed out, the reference functions  *)
(* of tests.c and the table of decl.c, on a long of any even width.  The     *)
(* compiler is told -fwrapv, so arithmetic on long wraps around.             *)
EXTENDS Integers, FiniteSets, Sequences

CONSTANT LongBits   \* width of long

ASSUME WordAssumption == LongBits \in Nat \ {0} /\ LongBits % 2 = 0

(* Powers of two.                                                            *)
Pow2[n \in Nat] == IF n = 0 THEN 1 ELSE 2 * Pow2[n - 1]

LongMin == -(Pow2[LongBits - 1])
LongMax == Pow2[LongBits - 1] - 1
Long    == LongMin .. LongMax

Positions == 0 .. LongBits - 1

Wrap(x) == ((x - LongMin) % Pow2[LongBits]) + LongMin
Bit(x, k) == (x \div Pow2[k]) % 2
Truth(holds) == IF holds THEN 1 ELSE 0

(* C division.                                                               *)
Truncate(x, n) == IF x >= 0 THEN x \div n ELSE -((-x) \div n)
-----------------------------------------------------------------------------
(* bits.c: the stub of every puzzle returns 2.                               *)
implication(x, y)   == 2
leastBitPos(x)      == 2
distinctNegation(x) == 2
fitsBits(x, n)      == 2
trueFiveEighths(x)  == 2
addOK(x, y)         == 2
isPower2(x)         == 2
rotateLeft(x, n)    == 2
isPalindrome(x)     == 2
bitParity(x)        == 2
absVal(x)           == 2
-----------------------------------------------------------------------------
(* tests.c.                                                                  *)
test_implication(x, y) == Truth(~(x # 0 /\ y = 0))

(* The mask moves up until it meets a bit of x.                              *)
test_leastBitPos(x) ==
    IF x = 0 THEN 0
    ELSE Wrap(Pow2[CHOOSE k \in Positions :
                       Bit(x, k) = 1 /\ \A j \in 0 .. k - 1 : Bit(x, j) = 0])

test_distinctNegation(x) == Truth(x # Wrap(-x))

test_fitsBits(x, n) ==
    Truth(x >= Wrap(-Wrap(Pow2[n - 1])) /\ x =< Pow2[n - 1] - 1)

test_trueFiveEighths(x) == Truncate(5 * x, 8)

test_addOK(x, y) == Truth(x + y = Wrap(x + y))

(* The sign bit is taken for a power of two.                                 *)
faulty_test_isPower2(x) == Truth(\E k \in 0 .. LongBits - 1 : x = Wrap(Pow2[k]))

test_isPower2(x) == Truth(\E k \in 0 .. LongBits - 2 : x = Pow2[k])

(* One bit per iteration, on an unsigned long.                               *)
test_rotateLeft(x, n) ==
    LET rotated[k \in 0 .. n] ==
            IF k = 0 THEN x % Pow2[LongBits]
            ELSE LET u == rotated[k - 1]
                 IN  ((2 * u) % Pow2[LongBits]) + u \div Pow2[LongBits - 1]
    IN  Wrap(rotated[n])

(* The two halves of the word are compared.                                  *)
test_isPalindrome(x) ==
    LET half == LongBits \div 2
    IN  Truth(\A k \in 0 .. half - 1 : Bit(x, half + k) = Bit(x, half - 1 - k))

test_bitParity(x) ==
    LET result[k \in 0 .. LongBits] ==
            IF k = 0 THEN 0 ELSE (result[k - 1] + Bit(x, k - 1)) % 2
    IN  result[LongBits]

test_absVal(x) == IF x < 0 THEN Wrap(-x) ELSE x
-----------------------------------------------------------------------------
(* decl.c: name, number of arguments, rating and ranges.                     *)
Puzzle(name, args, rating, ranges) ==
    [name |-> name, args |-> args, rating |-> rating, arg_ranges |-> ranges]

All == <<LongMin, LongMax>>

Declared ==
    <<Puzzle("implication",      2, 2, <<<<0, 1>>, <<0, 1>>, All>>),
      Puzzle("leastBitPos",      1, 2, <<All, All, All>>),
      Puzzle("distinctNegation", 1, 2, <<All, All, All>>),
      Puzzle("fitsBits",         2, 2, <<All, <<1, LongBits>>, All>>),
      Puzzle("trueFiveEighths",  1, 4, <<All, All, All>>),
      Puzzle("addOK",            2, 3, <<All, All, All>>),
      Puzzle("isPower2",         1, 3, <<All, All, All>>),
      Puzzle("rotateLeft",       2, 3, <<All, <<0, LongBits - 1>>, All>>),
      Puzzle("isPalindrome",     1, 4, <<All, All, All>>),
      Puzzle("bitParity",        1, 4, <<All, All, All>>),
      Puzzle("absVal",           1, 4, <<<<-LongMax, LongMax>>, All, All>>)>>

Names == {Declared[k].name : k \in DOMAIN Declared}

Solution(name, x, y) ==
    CASE name = "implication"      -> implication(x, y)
      [] name = "leastBitPos"      -> leastBitPos(x)
      [] name = "distinctNegation" -> distinctNegation(x)
      [] name = "fitsBits"         -> fitsBits(x, y)
      [] name = "trueFiveEighths"  -> trueFiveEighths(x)
      [] name = "addOK"            -> addOK(x, y)
      [] name = "isPower2"         -> isPower2(x)
      [] name = "rotateLeft"       -> rotateLeft(x, y)
      [] name = "isPalindrome"     -> isPalindrome(x)
      [] name = "bitParity"        -> bitParity(x)
      [] name = "absVal"           -> absVal(x)

Reference(name, x, y) ==
    CASE name = "implication"      -> test_implication(x, y)
      [] name = "leastBitPos"      -> test_leastBitPos(x)
      [] name = "distinctNegation" -> test_distinctNegation(x)
      [] name = "fitsBits"         -> test_fitsBits(x, y)
      [] name = "trueFiveEighths"  -> test_trueFiveEighths(x)
      [] name = "addOK"            -> test_addOK(x, y)
      [] name = "isPower2"         -> test_isPower2(x)
      [] name = "rotateLeft"       -> test_rotateLeft(x, y)
      [] name = "isPalindrome"     -> test_isPalindrome(x)
      [] name = "bitParity"        -> test_bitParity(x)
      [] name = "absVal"           -> test_absVal(x)
-----------------------------------------------------------------------------
(* What the comments of bits.c ask of an answer v for the arguments x and y. *)
Ones(x) == {k \in Positions : Bit(x, k) = 1}

Magnitude(x) == IF x < 0 THEN -x ELSE x

Asked(name, x, y, v) ==
    CASE name = "implication"      ->
            {x, y} \subseteq {0, 1} => v = IF x = 1 /\ y = 0 THEN 0 ELSE 1
      [] name = "leastBitPos"      ->
            IF x = 0 THEN v = 0
                     ELSE Cardinality(Ones(v)) = 1 /\ x % (2 * Magnitude(v)) = Magnitude(v)
      [] name = "distinctNegation" -> v = Truth(x \notin {0, LongMin})
      [] name = "fitsBits"         -> v = Truth(x \in -(Pow2[y - 1]) .. Pow2[y - 1] - 1)
      [] name = "trueFiveEighths"  ->
            /\ 8 * Magnitude(v) \in 5 * Magnitude(x) - 7 .. 5 * Magnitude(x)
            /\ v * x >= 0
      [] name = "addOK"            -> v = Truth(x + y \in Long)
      [] name = "isPower2"         -> v = Truth(x > 0 /\ Cardinality(Ones(x)) = 1)
      [] name = "rotateLeft"       ->
            v \in Long /\ \A k \in Positions : Bit(v, (k + y) % LongBits) = Bit(x, k)
      [] name = "isPalindrome"     ->
            v = Truth(\A k \in Positions : Bit(x, k) = Bit(x, LongBits - 1 - k))
      [] name = "bitParity"        -> v = Cardinality(Positions \ Ones(x)) % 2
      [] name = "absVal"           -> x # LongMin => v = Magnitude(x)
=============================================================================
