------------------------------- MODULE BTest --------------------------------
(* btest.c: the tester of the integer puzzles.  For every puzzle it makes    *)
(* test values for each argument, calls the solution and the reference on    *)
(* all their combinations under an alarm, and adds up points.  The alarm's   *)
(* handler jumps back into test_function.  Solutions are the stubs that are  *)
(* handed out, or not known: any call may then agree with the reference,     *)
(* differ from it, or never return.                                          *)
EXTENDS Puzzles, SequencesExt

CONSTANTS
    test_set,           \* the puzzles, as in decl.c
    TestRange,          \* values around each point, by number of arguments
    MaxTestVals,        \* length of the arrays of test values
    Ulp,                \* distance of two doubles just below 2 ^ 63
    RandMax,            \* largest result of rand
    Fraction, Exponent, \* bits of the fraction and of the exponent of a float
    Ratings,            \* values given with -r, and 0
    GivenArgs,          \* first arguments given with -1
    NULL                \* no -1

ASSUME BTestAssumption ==
    /\ test_set \in Seq([name : STRING, args : 0 .. 3, rating : Nat \ {0},
                         arg_ranges : [1 .. 3 -> Long \X Long]])
    /\ TestRange \in [0 .. 3 -> Nat \ {0}]
    /\ {MaxTestVals, Ulp, RandMax, Fraction} \subseteq Nat \ {0}
    /\ Exponent \in Nat \ {0, 1}
    /\ Ratings \subseteq Nat /\ GivenArgs \subseteq Long /\ NULL \notin GivenArgs

(* The puzzles of decl.c come first, and their names are not used again.     *)
ASSUME TableAssumption ==
    /\ Len(Declared) =< Len(test_set)
    /\ \A k \in DOMAIN test_set :
          IF k \in DOMAIN Declared THEN test_set[k] = Declared[k]
                                   ELSE test_set[k].name \notin Names

(* MAX_TEST_VALS is large enough for each count of values around each point, *)
(* no range has exactly one value more, and none ends so low that gen_vals   *)
(* leaves long when it compares the two.                                     *)
ASSUME ArrayAssumption ==
    /\ \A k \in 0 .. 3 : 12 * TestRange[k] + 4 =< MaxTestVals
    /\ \A k \in DOMAIN test_set, arg \in 1 .. 3 :
          LET range == test_set[k].arg_ranges[arg]
          IN  /\ range[1] =< range[2] /\ range[2] - range[1] # MaxTestVals
              /\ range[2] - MaxTestVals \in Long

(* A range too large to try all of it ends at numbers that a double holds or *)
(* at the ends of long.                                                      *)
ASSUME DoubleAssumption ==
    /\ LongMin % Ulp = 0
    /\ \A k \in DOMAIN test_set, arg \in 1 .. 3 :
          LET range == test_set[k].arg_ranges[arg]
          IN  range[2] - range[1] > MaxTestVals =>
                  {range[1], range[2]} \subseteq -Ulp .. Ulp \cup {LongMin, -LongMax, LongMax}

VARIABLES
    test_fname,     \* the only puzzle to test (-f), 0 without -f; the last is
                    \* a name that no puzzle has
    global_rating,  \* rating of every puzzle (-r), or 0
    timeout_limit,  \* is there one (-T)?
    handout,        \* are the solutions those of bits.c?
    argval,         \* the first argument given with -1, or NULL
    i,              \* the puzzle being tested
    phase,
    arg_test_vals,  \* test values of the three arguments
    calls,          \* combinations already called
    agreed,         \* history: the combinations on which both agreed
    terrors,        \* result of test_function
    points, max_points,
    alarm           \* is one pending?

flags   == <<test_fname, global_rating, timeout_limit, handout, argval>>
score   == <<points, max_points>>
vars    == <<flags, i, phase, arg_test_vals, calls, agreed, terrors, score, alarm>>

Phase == {"next", "call", "hung", "returned", "crashed", "exited"}

None == <<<<>>, <<>>, <<>>>>

Init ==
    /\ test_fname \in 0 .. Len(test_set) + 1
    /\ global_rating \in Ratings
    /\ timeout_limit \in BOOLEAN /\ handout \in BOOLEAN
    /\ argval \in GivenArgs \cup {NULL}
    /\ i = 1 /\ phase = "next"
    /\ arg_test_vals = None /\ calls = 0 /\ agreed = {}
    /\ terrors = 0
    /\ points = 0 /\ max_points = 0
    /\ alarm = FALSE
-----------------------------------------------------------------------------
(* Near 2 ^ 63 a double is a multiple of Ulp.  x86-64 converts a double      *)
(* outside long to LONG_MIN.                                                 *)
ToDouble(x) == IF x \in -Ulp .. Ulp THEN x ELSE Ulp * ((x + Ulp \div 2) \div Ulp)
ToLong(x) == IF x \in LongMin .. LongMax THEN x ELSE LongMin

random_val(min, max, rand) ==
    ToLong(Truncate(ToDouble(min) * (RandMax - rand) + ToDouble(max) * rand, RandMax))

Exhaustive(min, max) == [k \in 1 .. max - min + 1 |-> min + k - 1]

Sample(min, max, k, rand) ==
    LET Inside(v) == IF v \in min .. max THEN <<v>> ELSE <<>>
    IN  <<min + k, max - k>> \o Inside(k) \o Inside(-k) \o <<random_val(min, max, rand)>>

(* Bit patterns of floats: both sides of zero, of the smallest normal number *)
(* and of one, the largest exponent from above, infinity and not-a-number.   *)
sign          == Pow2[Fraction + Exponent]
smallest_norm == Pow2[Fraction]
one           == (Pow2[Exponent - 1] - 1) * Pow2[Fraction]
largest_norm  == (Pow2[Exponent] - 2) * Pow2[Fraction]
inf           == (Pow2[Exponent] - 1) * Pow2[Fraction]
nan           == inf + Pow2[Fraction - 1]

BothSigns(v) == <<v, sign + v>>

FloatSample(k) ==
    FlattenSeq([p \in 1 .. 6 |->
        BothSigns(<<k, smallest_norm + k, smallest_norm - k, one + k, one - k,
                    largest_norm - k>>[p])])

FloatPatterns(test_range) ==
    LET count == IF test_range > Pow2[Fraction] THEN Pow2[Fraction] ELSE test_range
    IN  FlattenSeq([k \in 1 .. count |-> FloatSample(k - 1)])
            \o BothSigns(inf) \o BothSigns(nan)

(* The last value of the range is left out.                                  *)
faulty_gen_vals(range, test_range, given) ==
    LET min == range[1]
        max == range[2]
    IN  IF given # NULL THEN {<<given>>}
        ELSE IF min = 1 /\ max = 1 THEN {FloatPatterns(test_range)}
        ELSE IF Wrap(max - MaxTestVals) =< min THEN {Exhaustive(min, max - 1)}
        ELSE {FlattenSeq([k \in 1 .. test_range |-> Sample(min, max, k - 1, rand[k])]) :
                  rand \in [1 .. test_range -> 0 .. RandMax]}

(* The arrays gen_vals may fill, one for each outcome of rand.               *)
gen_vals(range, test_range, given) ==
    LET min == range[1]
        max == range[2]
    IN  IF given # NULL THEN {<<given>>}
        ELSE IF min = 1 /\ max = 1 THEN {FloatPatterns(test_range)}
        ELSE IF Wrap(max - MaxTestVals) =< min THEN {Exhaustive(min, max)}
        ELSE {FlattenSeq([k \in 1 .. test_range |-> Sample(min, max, k - 1, rand[k])]) :
                  rand \in [1 .. test_range -> 0 .. RandMax]}
-----------------------------------------------------------------------------
Selected == test_fname \in {0, i}
Rating == IF global_rating # 0 THEN global_rating ELSE test_set[i].rating

Skip ==
    /\ phase = "next" /\ i =< Len(test_set) /\ ~Selected
    /\ i' = i + 1
    /\ UNCHANGED <<flags, phase, arg_test_vals, calls, agreed, terrors, score, alarm>>

(* An argument the puzzle does not take has one value, which is not passed.  *)
Values(arg) ==
    LET test == test_set[i]
    IN  IF arg > test.args THEN {<<0>>}
        ELSE gen_vals(test.arg_ranges[arg], TestRange[test.args],
                      IF arg = 1 THEN argval ELSE NULL)

(* The alarm is not set.                                                     *)
UntimedStartTest ==
    /\ phase = "next" /\ i =< Len(test_set) /\ Selected
    /\ arg_test_vals' \in
          {<<a, b, c>> : a \in Values(1), b \in Values(2), c \in Values(3)}
    /\ calls' = 0 /\ agreed' = {}
    /\ alarm' = FALSE
    /\ phase' = "call"
    /\ UNCHANGED <<flags, i, terrors, score>>

(* test_function, up to its first call: it is from here that the handler's   *)
(* jump is good.                                                             *)
StartTest ==
    /\ phase = "next" /\ i =< Len(test_set) /\ Selected
    /\ arg_test_vals' \in
          {<<a, b, c>> : a \in Values(1), b \in Values(2), c \in Values(3)}
    /\ calls' = 0 /\ agreed' = {}
    /\ alarm' = timeout_limit
    /\ phase' = "call"
    /\ UNCHANGED <<flags, i, terrors, score>>

Count(arg) == Len(arg_test_vals[arg])

(* The loop over the third argument runs as often as that over the second.   *)
FaultyCombination(n) ==
    <<arg_test_vals[1][n \div (Count(2) * Count(3)) + 1],
      arg_test_vals[2][(n % Count(2)) + 1],
      arg_test_vals[3][(n % Count(3)) + 1]>>

(* The arguments of call n of the three nested loops.                        *)
Combination(n) ==
    <<arg_test_vals[1][n \div (Count(2) * Count(3)) + 1],
      arg_test_vals[2][((n \div Count(3)) % Count(2)) + 1],
      arg_test_vals[3][(n % Count(3)) + 1]>>

(* The errors of a return that the alarm caught late are added up.           *)
FaultyReturnErrors(n) ==
    /\ terrors' = terrors + n
    /\ phase' = "returned"

(* The errors are not stored.                                                *)
ForgetfulReturnErrors(n) ==
    /\ terrors' = terrors
    /\ phase' = "returned"

ReturnErrors(n) ==
    /\ terrors' = n
    /\ phase' = "returned"

(* The outcomes of a call with these arguments.  A solution is a function:   *)
(* it does not differ from the reference, hang, or die of a signal that only *)
(* the default handler takes, on arguments on which both agreed before.      *)
Outcomes(args) ==
    LET name == test_set[i].name
    IN  IF handout /\ name \in Names
          THEN IF Solution(name, args[1], args[2]) = Reference(name, args[1], args[2])
                 THEN {"agree"} ELSE {"differ"}
        ELSE IF args \in agreed THEN {"agree"}
        ELSE {"agree", "differ", "hang", "die"}

Call ==
    /\ phase = "call"
    /\ calls' = calls + 1
    /\ \/ /\ "agree" \in Outcomes(Combination(calls))
          /\ agreed' = agreed \cup {Combination(calls)}
          /\ IF calls' = Count(1) * Count(2) * Count(3)
               THEN ReturnErrors(0)
               ELSE UNCHANGED <<terrors, phase>>
       \/ /\ "differ" \in Outcomes(Combination(calls))
          /\ ReturnErrors(1)
          /\ UNCHANGED agreed
       \/ /\ "hang" \in Outcomes(Combination(calls))
          /\ phase' = "hung"
          /\ UNCHANGED <<agreed, terrors>>
       \/ /\ "die" \in Outcomes(Combination(calls))
          /\ phase' = "crashed"
          /\ UNCHANGED <<agreed, terrors>>
    /\ UNCHANGED <<flags, i, arg_test_vals, score, alarm>>

(* timeout_handler jumps to the sigsetjmp of test_function, which is running.*)
Timeout ==
    /\ alarm /\ phase \in {"call", "hung"}
    /\ alarm' = FALSE
    /\ ReturnErrors(1)
    /\ UNCHANGED <<flags, i, arg_test_vals, calls, agreed, score>>

(* The alarm goes off when test_function has returned and alarm(0) is still  *)
(* to come.  The jump goes to a frame that is no more: the process may crash,*)
(* or return from test_function once again.                                  *)
LateTimeout ==
    /\ alarm /\ phase = "returned"
    /\ alarm' = FALSE
    /\ \/ ReturnErrors(1)
       \/ phase' = "crashed" /\ UNCHANGED terrors
    /\ UNCHANGED <<flags, i, arg_test_vals, calls, agreed, score>>

(* run_tests, when test_function is back.                                    *)
Score ==
    /\ phase = "returned"
    /\ alarm' = FALSE
    /\ points' = IF terrors = 0 THEN points + Rating ELSE points
    /\ max_points' = max_points + Rating
    /\ i' = i + 1 /\ phase' = "next"
    /\ arg_test_vals' = None /\ calls' = 0 /\ agreed' = {} /\ terrors' = 0
    /\ UNCHANGED flags

Finish ==
    /\ phase = "next" /\ i > Len(test_set)
    /\ phase' = "exited"
    /\ UNCHANGED <<flags, i, arg_test_vals, calls, agreed, terrors, score, alarm>>

(* The process has ended, or hangs without an alarm.                         *)
Ended ==
    /\ \/ phase \in {"exited", "crashed"}
       \/ phase = "hung" /\ ~alarm
    /\ UNCHANGED vars

Run == Skip \/ StartTest \/ Call \/ Score \/ Finish

Next == Run \/ Timeout \/ LateTimeout \/ Ended

Spec == Init /\ [][Next]_vars

(* The process runs, and an alarm that stays pending goes off.               *)
FairSpec == Spec /\ WF_vars(Run) /\ WF_vars(Timeout)
-----------------------------------------------------------------------------
TypeOK ==
    /\ i \in 1 .. Len(test_set) + 1
    /\ phase \in Phase
    /\ \A arg \in 1 .. 3 : Range(arg_test_vals[arg]) \subseteq Int
    /\ calls \in 0 .. Count(1) * Count(2) * Count(3)
    /\ terrors \in 0 .. 1
    /\ points \in Nat /\ max_points \in Nat
    /\ timeout_limit \in BOOLEAN /\ alarm \in BOOLEAN

(* What gen_vals makes fits its array, which nothing checks.  A range with   *)
(* no more values than the array is tried in full and nothing else is; of a  *)
(* larger one both ends are tried, and zero when it is inside.               *)
ValuesCoverRange ==
    phase = "call" =>
        \A arg \in 1 .. test_set[i].args :
            LET vals == Range(arg_test_vals[arg])
                min  == test_set[i].arg_ranges[arg][1]
                max  == test_set[i].arg_ranges[arg][2]
            IN  /\ Count(arg) =< MaxTestVals
                /\ \/ arg = 1 /\ argval # NULL
                   \/ min = 1 /\ max = 1 /\ vals \subseteq 0 .. 2 * sign - 1
                   \/ /\ {min, max} \subseteq vals
                      /\ 0 \in min .. max => 0 \in vals
                      /\ max - min =< MaxTestVals => vals = min .. max

(* btest.c, of random_val: "Return random long integer value between min and *)
(* max".  A puzzle is tried on numbers of its range only, those of floats    *)
(* and the argument given with -1 apart.                                     *)
ValuesStayInRange ==
    phase = "call" =>
        \A arg \in 1 .. test_set[i].args :
            LET min == test_set[i].arg_ranges[arg][1]
                max == test_set[i].arg_ranges[arg][2]
            IN  \/ arg = 1 /\ argval # NULL
                \/ min = 1 /\ max = 1
                \/ Range(arg_test_vals[arg]) \subseteq min .. max

(* A puzzle earns its points exactly when solution and reference agreed on   *)
(* every combination of the test values and no alarm went off, and it counts *)
(* for the maximum in any case.                                              *)
PointsAreEarned ==
    [][(phase = "returned" /\ phase' = "next") =>
          /\ max_points' = max_points + Rating
          /\ points' - points =
                IF /\ agreed = {<<a, b, c>> : a \in Range(arg_test_vals[1]),
                                              b \in Range(arg_test_vals[2]),
                                              c \in Range(arg_test_vals[3])}
                   /\ alarm = timeout_limit
                  THEN Rating ELSE 0]_vars

(* On every combination of the values that are tried, out of range ones      *)
(* included, the reference answers as the comment of bits.c asks: a solution *)
(* that does what it says is never told otherwise.                           *)
ReferenceAnswers ==
    phase = "call" /\ calls = 0 /\ test_set[i].name \in Names =>
        \A x \in Range(arg_test_vals[1]), y \in Range(arg_test_vals[2]) :
            Asked(test_set[i].name, x, y, Reference(test_set[i].name, x, y))

(* The stubs earn nothing on any puzzle of decl.c, tested alone or with all  *)
(* before it, unless -1 leaves nothing else to try than an argument for      *)
(* which 2 is the answer.                                                    *)
HandoutEarnsNothing ==
    handout /\ argval = NULL =>
        (test_fname \in DOMAIN Declared \/ i =< Len(Declared) + 1 => points = 0)

(* With a time limit the tester ends, however many solutions hang.           *)
TesterEnds == timeout_limit ~> phase \in {"exited", "crashed"}

=============================================================================
