----------------------------- MODULE BTestProofs -----------------------------
(* The tester of the puzzles pays for complete agreement and nothing else,   *)
(* on values that cover every range, and the references it compares with     *)
(* answer what the puzzles ask for, on a long of any even width.             *)
EXTENDS BTest, FiniteSetTheorems, SequenceTheorems, TLAPS

-----------------------------------------------------------------------------
(* Induction and recursion.  A step of induction is a least counterexample;  *)
(* a function defined by recursion is one that follows its steps.            *)

(* A set of numbers that is not empty has a least one.                       *)
LEMMA LeastNatural ==
    ASSUME NEW T \in SUBSET Nat, T # {}
    PROVE  \E m \in T : \A k \in T : m =< k
<1>1. PICK x \in T : \A y \in T : ~ (<<y, x>> \in OpToRel(<, Nat))
  BY NatLessThanWellFounded, WFMin
<1>2. \A y \in T : ~(y < x)
  BY <1>1 DEF OpToRel
<1> QED BY <1>2

(* g is the run of Step from v up to n.                                      *)
RunOf(V, v, Step, n, g) ==
    /\ g \in [0 .. n -> V]
    /\ g[0] = v
    /\ \A k \in 1 .. n : g[k] = Step[k][g[k - 1]]

LEMMA RunsExist ==
    ASSUME NEW V, NEW v \in V, NEW Step \in [Nat -> [V -> V]], NEW n \in Nat
    PROVE  \E g : RunOf(V, v, Step, n, g)
<1> DEFINE T == {k \in Nat : ~\E g : RunOf(V, v, Step, k, g)}
<1> SUFFICES ASSUME T # {} PROVE FALSE
  OBVIOUS
<1>1. PICK m \in T : \A k \in T : m =< k
  <2>1. T \in SUBSET Nat
    OBVIOUS
  <2> HIDE DEF T
  <2> QED BY <2>1, LeastNatural
<1>2. CASE m = 0
  <2> DEFINE g == [k \in 0 .. 0 |-> v]
  <2>1. RunOf(V, v, Step, 0, g)
    BY DEF RunOf
  <2> QED BY <1>1, <1>2, <2>1
<1>3. CASE m # 0
  <2>1. m - 1 \in Nat /\ m \in Nat /\ ~(m =< m - 1)
    BY <1>1, <1>3
  <2>2. PICK g : RunOf(V, v, Step, m - 1, g)
    BY <1>1, <2>1
  <2> DEFINE h == [k \in 0 .. m |-> IF k = m THEN Step[m][g[m - 1]] ELSE g[k]]
  <2>3. m - 1 \in 0 .. m - 1 /\ \A k \in 0 .. m : k # m => k \in 0 .. m - 1
    BY <2>1
  <2>4. g \in [0 .. m - 1 -> V] /\ g[m - 1] \in V
    BY <2>2, <2>3 DEF RunOf
  <2>5. Step[m][g[m - 1]] \in V
    BY <2>1, <2>4
  <2>6. h \in [0 .. m -> V]
    BY <2>3, <2>4, <2>5
  <2>7. h[0] = v
    BY <2>1, <2>2, <1>3 DEF RunOf
  <2>8. ASSUME NEW k \in 1 .. m PROVE h[k] = Step[k][h[k - 1]]
    <3>1. k \in 0 .. m /\ k - 1 \in 0 .. m /\ k - 1 # m
      BY <2>1
    <3>2. k # m => k \in 1 .. m - 1
      BY <2>1
    <3> QED BY <2>2, <3>1, <3>2 DEF RunOf
  <2> HIDE DEF h
  <2>9. RunOf(V, v, Step, m, h)
    BY <2>6, <2>7, <2>8 DEF RunOf
  <2> QED BY <1>1, <2>9
<1> QED BY <1>2, <1>3

(* Two runs agree as far as both go.                                         *)
LEMMA RunsAgree ==
    ASSUME NEW V, NEW v, NEW Step, NEW n \in Nat, NEW m \in Nat, n =< m,
           NEW g, NEW h, RunOf(V, v, Step, n, g), RunOf(V, v, Step, m, h)
    PROVE  \A k \in 0 .. n : g[k] = h[k]
<1> DEFINE T == {k \in 0 .. n : g[k] # h[k]}
<1> SUFFICES ASSUME T # {} PROVE FALSE
  OBVIOUS
<1>1. PICK l \in T : \A k \in T : l =< k
  <2>1. T \in SUBSET Nat
    OBVIOUS
  <2> HIDE DEF T
  <2> QED BY <2>1, LeastNatural
<1>2. l # 0
  BY <1>1 DEF RunOf
<1>3. l \in 1 .. n /\ l \in 1 .. m /\ l - 1 \in 0 .. n /\ ~(l =< l - 1)
  BY <1>1, <1>2
<1>4. g[l - 1] = h[l - 1]
  BY <1>1, <1>3
<1> QED BY <1>1, <1>3, <1>4 DEF RunOf

(* f is the run of Step from v that never ends.                              *)
Recursion(V, v, Step, f) ==
    /\ f \in [Nat -> V]
    /\ f[0] = v
    /\ \A n \in Nat \ {0} : f[n] = Step[n][f[n - 1]]

(* Definition by recursion: a step can be repeated for ever from any start.  *)
LEMMA RecursionExists ==
    ASSUME NEW V, NEW v \in V, NEW Step \in [Nat -> [V -> V]]
    PROVE  \E f : Recursion(V, v, Step, f)
<1> DEFINE G(n) == CHOOSE g : RunOf(V, v, Step, n, g)
<1>1. \A n \in Nat : RunOf(V, v, Step, n, G(n))
  BY RunsExist
<1> HIDE DEF G
<1> DEFINE f == [n \in Nat |-> G(n)[n]]
<1>2. f \in [Nat -> V]
  BY <1>1 DEF RunOf
<1>3. f[0] = v
  BY <1>1 DEF RunOf
<1>4. ASSUME NEW n \in Nat \ {0}
      PROVE  f[n] = Step[n][f[n - 1]]
  <2>1. n - 1 \in Nat /\ n - 1 =< n /\ n - 1 \in 0 .. n - 1 /\ n \in 1 .. n
    OBVIOUS
  <2>2. G(n - 1)[n - 1] = G(n)[n - 1]
    BY <1>1, <2>1, RunsAgree
  <2>3. G(n)[n] = Step[n][G(n)[n - 1]]
    BY <1>1, <2>1 DEF RunOf
  <2> QED BY <2>1, <2>2, <2>3
<1> HIDE DEF f
<1> QED BY <1>2, <1>3, <1>4 DEF Recursion

-----------------------------------------------------------------------------
(* Powers of two.                                                            *)
LEMMA Pow2Equation ==
    Pow2 = [n \in Nat |-> IF n = 0 THEN 1 ELSE 2 * Pow2[n - 1]]
<1> DEFINE Step == [n \in Nat |-> [a \in Nat |-> 2 * a]]
           Equation(f) == f = [n \in Nat |-> IF n = 0 THEN 1 ELSE 2 * f[n - 1]]
<1>1. Step \in [Nat -> [Nat -> Nat]] /\ 1 \in Nat
  OBVIOUS
<1>2. PICK f : Recursion(Nat, 1, Step, f)
  <2> HIDE DEF Step
  <2> QED BY <1>1, RecursionExists
<1>3. Equation(f)
  <2>1. ASSUME NEW n \in Nat \ {0} PROVE f[n] = 2 * f[n - 1]
    <3>1. f[n - 1] \in Nat
      BY <1>2 DEF Recursion
    <3> QED BY <1>2, <3>1 DEF Recursion
  <2> QED BY <1>2, <2>1 DEF Recursion
<1>4. Pow2 = CHOOSE g : Equation(g)
  BY DEF Pow2
<1>5. Equation(Pow2)
  <2> HIDE DEF Equation
  <2> QED BY <1>3, <1>4
<1> QED BY <1>5

(* Powers are positive.                                                      *)
LEMMA Pow2Values ==
    /\ Pow2[0] = 1
    /\ \A n \in Nat : Pow2[n + 1] = 2 * Pow2[n]
    /\ \A n \in Nat : Pow2[n] \in Nat \ {0}
    /\ \A n \in Nat \ {0} : Pow2[n] = 2 * Pow2[n - 1]
<1>1. /\ Pow2[0] = 1
      /\ \A n \in Nat \ {0} : Pow2[n] = 2 * Pow2[n - 1]
  BY Pow2Equation
<1>2. ASSUME NEW n \in Nat PROVE Pow2[n + 1] = 2 * Pow2[n]
  BY <1>1
<1>3. \A n \in Nat : Pow2[n] \in Nat \ {0}
  <2> DEFINE T == {n \in Nat : Pow2[n] \notin Nat \ {0}}
  <2> SUFFICES ASSUME T # {} PROVE FALSE
    OBVIOUS
  <2>1. PICK m \in T : \A k \in T : m =< k
    <3>1. T \in SUBSET Nat
      OBVIOUS
    <3> HIDE DEF T
    <3> QED BY <3>1, LeastNatural
  <2>2. m \in Nat \ {0} /\ m - 1 \in Nat /\ ~(m =< m - 1)
    BY <1>1, <2>1
  <2>3. Pow2[m - 1] \in Nat \ {0}
    BY <2>1, <2>2
  <2> QED BY <1>1, <2>1, <2>2, <2>3
<1> QED BY <1>1, <1>2, <1>3

-----------------------------------------------------------------------------
(* FlattenSeq, which joins the values of the points of a range.              *)

(* f joins the first sequences of s, one more at each index.                 *)
Joins(s, n, f) ==
    /\ f[1] = s[1]
    /\ \A k \in 2 .. n : f[k] = f[k - 1] \o s[k]

LEMMA FlattenSeqJoins ==
    ASSUME NEW S, NEW n \in Nat \ {0}, NEW s \in [1 .. n -> Seq(S)]
    PROVE  \E f : Joins(s, n, f) /\ FlattenSeq(s) = f[n]
<1> DEFINE Step == [k \in Nat |-> [a \in Seq(S) |-> IF k \in 1 .. n - 1 THEN a \o s[k + 1] ELSE a]]
           Equation(f) == f = [k \in 1 .. Len(s) |-> IF k = 1 THEN s[k] ELSE f[k - 1] \o s[k]]
<1>1. 1 \in 1 .. n /\ s[1] \in Seq(S) /\ Len(s) = n /\ Len(s) # 0
  OBVIOUS
<1>2. Step \in [Nat -> [Seq(S) -> Seq(S)]]
  <2>1. ASSUME NEW k \in Nat, NEW a \in Seq(S)
        PROVE  (IF k \in 1 .. n - 1 THEN a \o s[k + 1] ELSE a) \in Seq(S)
    <3>1. k \in 1 .. n - 1 => k + 1 \in 1 .. n
      OBVIOUS
    <3>2. k \in 1 .. n - 1 => s[k + 1] \in Seq(S)
      BY <3>1
    <3>3. k \in 1 .. n - 1 => a \o s[k + 1] \in Seq(S)
      BY <3>2, ConcatProperties
    <3> QED BY <3>3
  <2> QED BY <2>1
<1>3. PICK g : Recursion(Seq(S), s[1], Step, g)
  <2> HIDE DEF Step
  <2> QED BY <1>1, <1>2, RecursionExists
<1> DEFINE h == [k \in 1 .. n |-> g[k - 1]]
<1>4. Equation(h)
  <2>1. ASSUME NEW k \in 1 .. n
        PROVE  h[k] = IF k = 1 THEN s[k] ELSE h[k - 1] \o s[k]
    <3>1. CASE k = 1
      BY <3>1, <1>3 DEF Recursion
    <3>2. CASE k # 1
      <4>1. /\ k - 1 \in Nat \ {0} /\ k - 1 \in 1 .. n - 1 /\ k - 1 \in 1 .. n
            /\ (k - 1) - 1 \in Nat /\ (k - 1) + 1 = k
        BY <3>2
      <4>2. g[(k - 1) - 1] \in Seq(S)
        BY <4>1, <1>3 DEF Recursion
      <4>3. g[k - 1] = Step[k - 1][g[(k - 1) - 1]]
        BY <4>1, <1>3 DEF Recursion
      <4> QED BY <3>2, <4>1, <4>2, <4>3
    <3> QED BY <3>1, <3>2
  <2> HIDE DEF h
  <2>2. h = [k \in 1 .. n |-> h[k]]
    BY DEF h
  <2> QED BY <1>1, <2>1, <2>2
<1> DEFINE f == CHOOSE x : Equation(x)
<1>5. Equation(f)
  <2> HIDE DEF Equation
  <2> QED BY <1>4
<1>6. FlattenSeq(s) = f[n]
  BY <1>1 DEF FlattenSeq
<1>7. Joins(s, n, f)
  <2> HIDE DEF f
  <2>1. \A k \in 1 .. n : f[k] = IF k = 1 THEN s[k] ELSE f[k - 1] \o s[k]
    BY <1>1, <1>5
  <2>2. f[1] = s[1]
    BY <2>1, <1>1
  <2>3. ASSUME NEW k \in 2 .. n PROVE f[k] = f[k - 1] \o s[k]
    <3>1. k \in 1 .. n /\ k # 1
      OBVIOUS
    <3> QED BY <2>1, <3>1
  <2> QED BY <2>2, <2>3 DEF Joins
<1> QED BY <1>6, <1>7
(* Flattening loses and invents nothing, and the result is no longer than    *)
(* its parts allow.                                                          *)
LEMMA Flattened ==
    ASSUME NEW S, NEW n \in Nat \ {0}, NEW s \in [1 .. n -> Seq(S)]
    PROVE  /\ FlattenSeq(s) \in Seq(S)
           /\ \A x : x \in Range(FlattenSeq(s)) <=> \E j \in 1 .. n : x \in Range(s[j])
           /\ \A c \in Nat :
                 (\A j \in 1 .. n : Len(s[j]) =< c) => Len(FlattenSeq(s)) =< c * n
<1>1. PICK f : Joins(s, n, f) /\ FlattenSeq(s) = f[n]
  BY FlattenSeqJoins
<1> DEFINE Good(k) ==
              /\ f[k] \in Seq(S)
              /\ \A x : x \in Range(f[k]) <=> \E j \in 1 .. k : x \in Range(s[j])
              /\ \A c \in Nat :
                    (\A j \in 1 .. n : Len(s[j]) =< c) => Len(f[k]) =< c * k
           T == {k \in 1 .. n : ~Good(k)}
<1>2. Good(1)
  <2>1. f[1] = s[1] /\ 1 \in 1 .. n /\ f[1] \in Seq(S)
    BY <1>1 DEF Joins
  <2>2. \A x : x \in Range(f[1]) <=> \E j \in 1 .. 1 : x \in Range(s[j])
    BY <2>1
  <2>3. ASSUME NEW c \in Nat, \A j \in 1 .. n : Len(s[j]) =< c
        PROVE  Len(f[1]) =< c * 1
    BY <2>1, <2>3
  <2> QED BY <2>1, <2>2, <2>3
<1>3. ASSUME NEW k \in 2 .. n, Good(k - 1)
      PROVE  Good(k)
  <2>1. /\ k \in 1 .. n /\ k - 1 \in 1 .. n /\ f[k] = f[k - 1] \o s[k]
        /\ s[k] \in Seq(S) /\ f[k - 1] \in Seq(S)
    <3>1. k \in 1 .. n /\ k - 1 \in 1 .. n
      OBVIOUS
    <3>2. f[k] = f[k - 1] \o s[k]
      BY <1>1 DEF Joins
    <3>3. f[k - 1] \in Seq(S)
      BY <1>3
    <3> QED BY <3>1, <3>2, <3>3
  <2>2. /\ f[k] \in Seq(S)
        /\ Len(f[k]) = Len(f[k - 1]) + Len(s[k])
        /\ Range(f[k]) = Range(f[k - 1]) \cup Range(s[k])
    BY <2>1, ConcatProperties, RangeConcatenation
  <2>3. \A x : x \in Range(f[k]) <=> \E j \in 1 .. k : x \in Range(s[j])
    <3>1. \A x : x \in Range(f[k - 1]) <=> \E j \in 1 .. k - 1 : x \in Range(s[j])
      BY <1>3
    <3>2. \A j : j \in 1 .. k <=> j \in 1 .. k - 1 \/ j = k
      OBVIOUS
    <3> QED BY <2>2, <3>1, <3>2
  <2>4. ASSUME NEW c \in Nat, \A j \in 1 .. n : Len(s[j]) =< c
        PROVE  Len(f[k]) =< c * k
    <3>1. Len(f[k - 1]) =< c * (k - 1) /\ Len(s[k]) =< c
      BY <1>3, <2>1, <2>4
    <3>2. PICK p \in Int : p = c * (k - 1)
      OBVIOUS
    <3>3. c * k = p + c
      BY <3>2
    <3>4. Len(f[k - 1]) \in Nat /\ Len(s[k]) \in Nat
      BY <2>1, LenProperties
    <3>5. Len(f[k - 1]) =< p
      BY <3>1, <3>2
    <3>6. Len(f[k]) =< p + c
      <4>1. Len(f[k]) = Len(f[k - 1]) + Len(s[k]) /\ Len(s[k]) =< c
        BY <2>2, <3>1
      <4> HIDE DEF Good, T
      <4>2. \A a, b \in Nat : a =< p /\ b =< c => a + b =< p + c
        OBVIOUS
      <4> QED BY <3>4, <3>5, <4>1, <4>2
    <3> QED BY <3>3, <3>6
  <2> QED BY <2>2, <2>3, <2>4
<1>4. T = {}
  <2> SUFFICES ASSUME T # {} PROVE FALSE
    OBVIOUS
  <2>1. PICK m \in T : \A k \in T : m =< k
    <3>1. T \in SUBSET Nat
      OBVIOUS
    <3> HIDE DEF T
    <3> QED BY <3>1, LeastNatural
  <2>2. m # 1
    BY <1>2, <2>1
  <2>3. m \in 2 .. n /\ m - 1 \in 1 .. n /\ ~(m =< m - 1)
    BY <2>1, <2>2
  <2>4. Good(m - 1)
    BY <2>1, <2>3
  <2>5. Good(m)
    <3> HIDE DEF Good, T
    <3> QED BY <1>3, <2>3, <2>4
  <2> QED BY <2>1, <2>5
<1>5. n \in 1 .. n
  OBVIOUS
<1>6. Good(n)
  <2> HIDE DEF Good
  <2> QED BY <1>4, <1>5
<1> QED BY <1>1, <1>6

-----------------------------------------------------------------------------
(* Division, truncation and powers of two.                                   *)

(* Division with remainder, and its uniqueness.                              *)
LEMMA Division ==
    ASSUME NEW a \in Int, NEW b \in Nat \ {0}
    PROVE  /\ a \div b \in Int /\ a % b \in 0 .. b - 1
           /\ a = (b * (a \div b)) + (a % b)
OBVIOUS

(* The remainder is the only one in its range.                               *)
LEMMA DivisionUnique ==
    ASSUME NEW b \in Nat \ {0}, NEW q \in Int, NEW r \in 0 .. b - 1
    PROVE  ((b * q) + r) \div b = q /\ ((b * q) + r) % b = r
<1> DEFINE a == (b * q) + r
<1>1. a \in Int
  OBVIOUS
<1>2. PICK s \in Int : s = a \div b /\ a = (b * s) + (a % b) /\ a % b \in 0 .. b - 1
  <2> HIDE DEF a
  <2> QED BY <1>1, Division
<1>3. b * (q - s) = (a % b) - r
  <2>1. b * (q - s) = (b * q) - (b * s)
    OBVIOUS
  <2>2. b * q \in Int /\ b * s \in Int /\ a = (b * q) + r
    OBVIOUS
  <2> HIDE DEF a
  <2> QED BY <1>1, <1>2, <2>1, <2>2
<1>4. q = s
  <2>1. q - s >= 1 => b * (q - s) >= b
    OBVIOUS
  <2>2. q - s =< -1 => b * (q - s) =< -b
    OBVIOUS
  <2>3. b * (q - s) \in -b + 1 .. b - 1
    <3> HIDE DEF a
    <3>1. PICK m \in 0 .. b - 1 : m = a % b
      BY <1>2
    <3>2. m - r \in -b + 1 .. b - 1
      OBVIOUS
    <3> QED BY <1>3, <3>1, <3>2
  <2>4. PICK p \in Int : p = b * (q - s)
    OBVIOUS
  <2> QED BY <2>1, <2>2, <2>3, <2>4, SMTT(30)
<1>5. a % b = r
  <2>1. b * (q - s) = 0
    <3>1. q - s = 0 /\ b * 0 = 0
      BY <1>4
    <3> QED BY <3>1
  <2>2. PICK t \in Int : t = a % b
    BY <1>2
  <2>3. t - r = 0
    BY <1>3, <2>1, <2>2
  <2> QED BY <2>2, <2>3
<1> QED BY <1>2, <1>4, <1>5

(* Division keeps an order by multiples.                                     *)
LEMMA DivisionBounds ==
    ASSUME NEW a \in Int, NEW c \in Int, NEW n \in Nat \ {0}, NEW w \in Int,
           n * a =< w, w =< n * c
    PROVE  w \div n \in a .. c
<1>1. PICK s \in Int : s = w \div n /\ w = (n * s) + (w % n) /\ w % n \in 0 .. n - 1
  BY Division
<1>2. s >= a
  <2> SUFFICES ASSUME a - s >= 1 PROVE FALSE
    BY <1>1
  <2>1. n * (a - s) >= n
    OBVIOUS
  <2>2. n * (a - s) = (n * a) - (n * s)
    BY <1>1
  <2>3. PICK p \in Int : p = n * a
    OBVIOUS
  <2>4. PICK u \in Int : u = n * s
    OBVIOUS
  <2>5. p - u >= n /\ p =< w /\ w = u + (w % n)
    BY <1>1, <2>1, <2>2, <2>3, <2>4
  <2> QED BY <1>1, <2>5
<1>3. s =< c
  <2> SUFFICES ASSUME s - c >= 1 PROVE FALSE
    BY <1>1
  <2>1. n * (s - c) >= n
    OBVIOUS
  <2>2. n * (s - c) = (n * s) - (n * c)
    BY <1>1
  <2>3. PICK p \in Int : p = n * c
    OBVIOUS
  <2>4. PICK u \in Int : u = n * s
    OBVIOUS
  <2>5. u - p >= n /\ w =< p /\ w = u + (w % n)
    BY <1>1, <2>1, <2>2, <2>3, <2>4
  <2> QED BY <1>1, <2>5
<1> QED BY <1>1, <1>2, <1>3

(* C division of a weighted mean of a and c stays between them.              *)
LEMMA TruncateBounds ==
    ASSUME NEW a \in Int, NEW c \in Int, NEW n \in Nat \ {0}, NEW w \in Int,
           n * a =< w, w =< n * c
    PROVE  Truncate(w, n) \in a .. c
<1>1. CASE w >= 0
  BY <1>1, DivisionBounds DEF Truncate
<1>2. CASE ~(w >= 0)
  <2>1. n * (-c) = -(n * c) /\ n * (-a) = -(n * a)
    BY SMTT(30)
  <2>2. PICK p \in Int : p = n * a
    OBVIOUS
  <2>3. PICK u \in Int : u = n * c
    OBVIOUS
  <2>4. n * (-c) =< -w /\ -w =< n * (-a)
    BY <2>1, <2>2, <2>3
  <2>5. PICK q \in Int : q = (-w) \div n /\ q \in -c .. -a
    <3> DEFINE v == -w
               f == -c
               g == -a
    <3>1. v \in Int /\ f \in Int /\ g \in Int /\ n * f =< v /\ v =< n * g
      BY <2>4
    <3> HIDE DEF v, f, g
    <3>2. v \div n \in f .. g
      BY <3>1, DivisionBounds
    <3>3. v \div n \in Int
      BY <3>1
    <3> QED BY <3>2, <3>3 DEF v, f, g
  <2> QED BY <1>2, <2>5 DEF Truncate
<1> QED BY <1>1, <1>2

(* A weighted mean stays between its two numbers.                            *)
LEMMA MeanBounds ==
    ASSUME NEW a \in Int, NEW c \in Int, a =< c, NEW n \in Nat \ {0}, NEW r \in 0 .. n
    PROVE  Truncate((a * (n - r)) + (c * r), n) \in a .. c
<1>1. PICK w \in Int : w = (a * (n - r)) + (c * r)
  OBVIOUS
<1>2. (c - a) * r >= 0 /\ (c - a) * (n - r) >= 0
  OBVIOUS
<1>3. w - (n * a) = (c - a) * r
  BY <1>1
<1>4. (n * c) - w = (c - a) * (n - r)
  BY <1>1
<1>5. n * a \in Int /\ n * c \in Int
  OBVIOUS
<1>6. n * a =< w /\ w =< n * c
  <2>1. PICK p \in Int : p = n * a
    OBVIOUS
  <2>2. PICK u \in Int : u = n * c
    OBVIOUS
  <2>3. PICK d \in Int : d = (c - a) * r
    OBVIOUS
  <2>4. PICK e \in Int : e = (c - a) * (n - r)
    OBVIOUS
  <2> QED BY <1>2, <1>3, <1>4, <2>1, <2>2, <2>3, <2>4
<1> QED BY <1>1, <1>6, TruncateBounds

(* The power of a sum.                                                       *)
LEMMA Pow2Sum ==
    \A m, n \in Nat : Pow2[m + n] = Pow2[m] * Pow2[n]
<1> SUFFICES ASSUME NEW m \in Nat
             PROVE  \A n \in Nat : Pow2[m + n] = Pow2[m] * Pow2[n]
  OBVIOUS
<1> DEFINE T == {n \in Nat : Pow2[m + n] # Pow2[m] * Pow2[n]}
<1> SUFFICES ASSUME T # {} PROVE FALSE
  OBVIOUS
<1>1. PICK k \in T : \A j \in T : k =< j
  <2>1. T \in SUBSET Nat
    OBVIOUS
  <2> HIDE DEF T
  <2> QED BY <2>1, LeastNatural
<1>2. k # 0
  <2>1. Pow2[m + 0] = Pow2[m] * Pow2[0]
    BY Pow2Values
  <2> QED BY <1>1, <2>1
<1>3. k \in Nat \ {0} /\ k - 1 \in Nat /\ ~(k =< k - 1) /\ m + k \in Nat \ {0} /\ (m + k) - 1 = m + (k - 1)
  BY <1>1, <1>2
<1>4. Pow2[m + (k - 1)] = Pow2[m] * Pow2[k - 1]
  BY <1>1, <1>3
<1>5. Pow2[m + k] = 2 * Pow2[m + (k - 1)] /\ Pow2[k] = 2 * Pow2[k - 1]
  BY <1>3, Pow2Values
<1>6. PICK a \in Nat : a = Pow2[m]
  BY Pow2Values
<1>7. PICK c \in Nat : c = Pow2[k - 1]
  BY <1>3, Pow2Values
<1>8. 2 * (a * c) = a * (2 * c)
  OBVIOUS
<1> QED BY <1>1, <1>4, <1>5, <1>6, <1>7, <1>8

(* Powers grow.                                                              *)
LEMMA Pow2Grows ==
    \A m, n \in Nat : m =< n => Pow2[m] =< Pow2[n] /\ Pow2[n] = Pow2[m] * Pow2[n - m]
<1> SUFFICES ASSUME NEW m \in Nat, NEW n \in Nat, m =< n
             PROVE  Pow2[m] =< Pow2[n] /\ Pow2[n] = Pow2[m] * Pow2[n - m]
  OBVIOUS
<1>1. n - m \in Nat /\ n = m + (n - m)
  OBVIOUS
<1>2. Pow2[n] = Pow2[m] * Pow2[n - m]
  BY <1>1, Pow2Sum
<1>3. PICK a \in Nat \ {0} : a = Pow2[m]
  BY Pow2Values
<1>4. PICK c \in Nat \ {0} : c = Pow2[n - m]
  BY <1>1, Pow2Values
<1>5. a * c >= a
  OBVIOUS
<1> QED BY <1>2, <1>3, <1>4, <1>5

-----------------------------------------------------------------------------
(* The test values of gen_vals: one value of random_val (btest.c:112-116).   *)

(* The ends of long.                                                         *)
LEMMA LongFacts ==
    /\ LongBits \in Nat /\ LongBits >= 2
    /\ LongMin \in Int /\ LongMin =< -2
    /\ LongMax = -LongMin - 1
    /\ Pow2[LongBits] = -(2 * LongMin)
    /\ Pow2[LongBits - 1] = -LongMin
    /\ Long \subseteq Int
<1>1. LongBits \in Nat \ {0} /\ LongBits >= 2
  BY WordAssumption
<1>2. LongBits - 1 \in Nat /\ LongBits - 2 \in Nat /\ LongBits - 1 \in Nat \ {0} /\ (LongBits - 1) - 1 = LongBits - 2
  BY <1>1
<1>3. /\ Pow2[LongBits] = 2 * Pow2[LongBits - 1]
      /\ Pow2[LongBits - 1] = 2 * Pow2[LongBits - 2]
  BY <1>1, <1>2, Pow2Values
<1>4. PICK h \in Nat \ {0} : h = Pow2[LongBits - 2]
  BY <1>2, Pow2Values
<1>5. Pow2[LongBits - 1] = 2 * h /\ Pow2[LongBits] = 4 * h
  BY <1>3, <1>4
<1> QED BY <1>1, <1>5 DEF LongMin, LongMax, Long

(* What an array of test values holds for a range and a given argument.      *)
Covers(vals, given, min, max) ==
    /\ vals \in Seq(Int)
    /\ Len(vals) \in 1 .. MaxTestVals
    /\ \/ given # NULL /\ Range(vals) = {given}
       \/ given = NULL /\ min = 1 /\ max = 1 /\ Range(vals) \subseteq 0 .. 2 * sign - 1
       \/ /\ given = NULL
          /\ {min, max} \subseteq Range(vals)
          /\ 0 \in min .. max => 0 \in Range(vals)
          /\ Range(vals) \subseteq min .. max \cup {LongMin}
          /\ (max - min =< MaxTestVals \/ {min, max} \subseteq -Ulp .. Ulp) =>
                 Range(vals) \subseteq min .. max
          /\ max - min =< MaxTestVals => min .. max \subseteq Range(vals)

(* One value out of range at most, whatever rand returns.                    *)
LEMMA RandomValue ==
    ASSUME NEW min \in Long, NEW max \in Long, max - min > MaxTestVals,
           {min, max} \subseteq -Ulp .. Ulp \cup {LongMin, -LongMax, LongMax},
           NEW rand \in 0 .. RandMax
    PROVE  /\ random_val(min, max, rand) \in min .. max \cup {LongMin}
           /\ {min, max} \subseteq -Ulp .. Ulp => random_val(min, max, rand) \in min .. max
<1>1. /\ MaxTestVals \in Nat /\ MaxTestVals >= 16 /\ Ulp \in Nat \ {0} /\ RandMax \in Nat \ {0}
  <2>1. /\ MaxTestVals \in Nat /\ Ulp \in Nat \ {0} /\ RandMax \in Nat \ {0}
        /\ 0 \in 0 .. 3 /\ TestRange[0] \in Nat \ {0}
    BY BTestAssumption
  <2>2. 12 * TestRange[0] + 4 =< MaxTestVals
    BY <2>1, ArrayAssumption
  <2> QED BY <2>1, <2>2
<1>2. /\ min \in Int /\ max \in Int /\ min \in LongMin .. LongMax /\ max \in LongMin .. LongMax
  BY LongFacts DEF Long
<1>3. PICK h \in Int : h = Ulp \div 2 /\ h >= 0 /\ 2 * h \in Ulp - 1 .. Ulp
  BY <1>1
<1>4. PICK m \in Int : LongMin = Ulp * m
  <2>1. LongMin \in Int /\ LongMin % Ulp = 0
    BY LongFacts, DoubleAssumption
  <2>2. PICK m \in Int : m = LongMin \div Ulp /\ LongMin = (Ulp * m) + (LongMin % Ulp)
    BY <1>1, <2>1, Division
  <2>3. Ulp * m \in Int
    BY <1>1
  <2> QED BY <2>1, <2>2, <2>3
<1>5. ASSUME NEW q \in Int, NEW r \in 0 .. Ulp - 1, NEW y \in Int, y = (Ulp * q) + r
      PROVE  Ulp * (y \div Ulp) = Ulp * q
  <2>1. ((Ulp * q) + r) \div Ulp = q
    BY <1>1, DivisionUnique
  <2> QED BY <1>5, <2>1
<1>6. Ulp * (-m) = -LongMin /\ Ulp * (m + 1) = LongMin + Ulp /\ Ulp * m = LongMin
  <2>1. Ulp * (-m) = -(Ulp * m) /\ Ulp * (m + 1) = (Ulp * m) + Ulp
    BY <1>1
  <2> QED BY <1>4, <2>1
<1>7. ASSUME NEW x \in Long, x \in -Ulp .. Ulp \cup {LongMin, -LongMax, LongMax}
      PROVE  /\ ToDouble(x) \in Int
             /\ x \in -Ulp .. Ulp => ToDouble(x) = x
             /\ ToDouble(x) \in {x, x + 1} \/ (x = -LongMax /\ ToDouble(x) = LongMin)
             /\ ToDouble(x) = x + 1 => x \in {LongMax, -LongMax}
  <2>1. x \in Int /\ x \in -Ulp .. Ulp \cup {LongMin, LongMin + 1, -LongMin - 1}
    BY <1>7, LongFacts
  <2>2. CASE x \in -Ulp .. Ulp
    <3>1. ToDouble(x) = x
      BY <2>2 DEF ToDouble
    <3> QED BY <2>1, <2>2, <3>1
  <2>0. x \notin -Ulp .. Ulp => ToDouble(x) = Ulp * ((x + h) \div Ulp)
    BY <1>3 DEF ToDouble
  <2>3. CASE x \notin -Ulp .. Ulp /\ Ulp = 1
    <3>1. h = 0 /\ Ulp * ((x + h) \div Ulp) = x
      BY <1>3, <2>1, <2>3
    <3> QED BY <2>0, <2>1, <2>3, <3>1
  <2>4. CASE x \notin -Ulp .. Ulp /\ Ulp # 1 /\ x = LongMin
    <3>1. x + h \in Int /\ h \in 0 .. Ulp - 1 /\ x + h = (Ulp * m) + h /\ m \in Int
      BY <1>1, <1>3, <1>6, <2>1, <2>4
    <3>2. Ulp * ((x + h) \div Ulp) = Ulp * m
      BY <1>5, <3>1
    <3> QED BY <1>6, <2>0, <2>1, <2>4, <3>2, LongFacts
  <2>5. CASE x \notin -Ulp .. Ulp /\ Ulp # 1 /\ x = -LongMin - 1
    <3>1. x + h \in Int /\ h - 1 \in 0 .. Ulp - 1 /\ x + h = (Ulp * (-m)) + (h - 1) /\ -m \in Int
      BY <1>1, <1>3, <1>6, <2>1, <2>5
    <3>2. Ulp * ((x + h) \div Ulp) = Ulp * (-m)
      BY <1>5, <3>1
    <3> QED BY <1>6, <2>0, <2>1, <2>5, <3>2, LongFacts
  <2>6. CASE x \notin -Ulp .. Ulp /\ Ulp = 2 /\ x = LongMin + 1
    <3>1. h = 1 /\ x + h \in Int /\ 0 \in 0 .. Ulp - 1 /\ x + h = (Ulp * (m + 1)) + 0 /\ m + 1 \in Int
      BY <1>1, <1>3, <1>6, <2>1, <2>6
    <3>2. Ulp * ((x + h) \div Ulp) = Ulp * (m + 1)
      BY <1>5, <3>1
    <3> QED BY <1>6, <2>0, <2>1, <2>6, <3>2, LongFacts
  <2>7. CASE x \notin -Ulp .. Ulp /\ Ulp \notin {1, 2} /\ x = LongMin + 1
    <3>1. x + h \in Int /\ h + 1 \in 0 .. Ulp - 1 /\ x + h = (Ulp * m) + (h + 1) /\ m \in Int
      BY <1>1, <1>3, <1>6, <2>1, <2>7
    <3>2. Ulp * ((x + h) \div Ulp) = Ulp * m
      BY <1>5, <3>1
    <3> QED BY <1>6, <2>0, <2>1, <2>7, <3>2, LongFacts
  <2> QED BY <2>1, <2>2, <2>3, <2>4, <2>5, <2>6, <2>7
<1>8. PICK a \in Int : /\ a = ToDouble(min)
                       /\ min \in -Ulp .. Ulp => a = min
                       /\ a \in {min, min + 1} \/ (min = -LongMax /\ a = LongMin)
                       /\ a = min + 1 => min \in {LongMax, -LongMax}
  BY <1>7
<1>9. PICK c \in Int : /\ c = ToDouble(max)
                       /\ max \in -Ulp .. Ulp => c = max
                       /\ c \in {max, max + 1} \/ (max = -LongMax /\ c = LongMin)
                       /\ c = max + 1 => max \in {LongMax, -LongMax}
  BY <1>7
<1>10. max # -LongMax
  BY <1>1, <1>2, LongFacts
<1>11. a =< c
  BY <1>1, <1>2, <1>8, <1>9, <1>10, LongFacts
<1>12. PICK t \in Int : /\ t = Truncate((a * (RandMax - rand)) + (c * rand), RandMax)
                        /\ t \in a .. c
  <2>1. Truncate((a * (RandMax - rand)) + (c * rand), RandMax) \in a .. c
    BY <1>1, <1>11, MeanBounds
  <2> QED BY <2>1
<1>13. random_val(min, max, rand) = IF t \in LongMin .. LongMax THEN t ELSE LongMin
  BY <1>8, <1>9, <1>12 DEF random_val, ToLong
<1>14. t \in LongMin .. LongMax => t \in min .. max \cup {LongMin}
  BY <1>2, <1>8, <1>9, <1>10, <1>12, LongFacts
<1>15. {min, max} \subseteq -Ulp .. Ulp => t \in min .. max /\ t \in LongMin .. LongMax
  BY <1>2, <1>8, <1>9, <1>12, LongFacts
<1> QED BY <1>13, <1>14, <1>15

-----------------------------------------------------------------------------
(* The patterns of floats (btest.c:142-188).                                 *)

(* The constants of floats, as multiples of one fraction.                    *)
LEMMA FloatNumbers ==
    \E f, p \in Nat :
        /\ f >= 1 /\ p >= 2 * f
        /\ Pow2[Fraction] = f /\ smallest_norm = f
        /\ sign = 2 * p
        /\ one = p - f
        /\ largest_norm = (2 * p) - (2 * f)
        /\ inf = (2 * p) - f
        /\ nan \in inf .. (2 * p) - 1
<1>1. /\ Fraction \in Nat \ {0} /\ Fraction - 1 \in Nat
      /\ Exponent \in Nat \ {0} /\ Exponent - 1 \in Nat \ {0} /\ (Exponent - 1) - 1 \in Nat
  BY BTestAssumption
<1>2. PICK f \in Nat \ {0} : f = Pow2[Fraction]
  BY <1>1, Pow2Values
<1>3. PICK g \in Nat \ {0} : g = Pow2[Fraction - 1] /\ f = 2 * g
  BY <1>1, <1>2, Pow2Values
<1>4. PICK d \in Nat \ {0} : d = Pow2[(Exponent - 1) - 1]
  BY <1>1, Pow2Values
<1>5. Pow2[Exponent - 1] = 2 * d /\ Pow2[Exponent] = 2 * (2 * d)
  BY <1>1, <1>4, Pow2Values
<1>6. PICK p \in Nat : p = (2 * d) * f /\ p >= 2 * f
  OBVIOUS
<1>7. sign = 2 * p
  <2>1. sign = f * (2 * (2 * d))
    BY <1>1, <1>2, <1>5, Pow2Sum DEF sign
  <2>2. f * (2 * (2 * d)) = 2 * ((2 * d) * f)
    OBVIOUS
  <2> QED BY <1>6, <2>1, <2>2
<1>8. one = p - f
  <2>1. ((2 * d) - 1) * f = ((2 * d) * f) - f
    OBVIOUS
  <2> QED BY <1>2, <1>5, <1>6, <2>1 DEF one
<1>9. largest_norm = (2 * p) - (2 * f)
  <2>1. ((2 * (2 * d)) - 2) * f = (2 * ((2 * d) * f)) - (2 * f)
    OBVIOUS
  <2> QED BY <1>2, <1>5, <1>6, <2>1 DEF largest_norm
<1>10. inf = (2 * p) - f
  <2>1. ((2 * (2 * d)) - 1) * f = (2 * ((2 * d) * f)) - f
    OBVIOUS
  <2> QED BY <1>2, <1>5, <1>6, <2>1 DEF inf
<1>11. nan \in inf .. (2 * p) - 1
  BY <1>3, <1>6, <1>10 DEF nan
<1>12. smallest_norm = f
  BY <1>2 DEF smallest_norm
<1>13. f \in Nat /\ f >= 1
  OBVIOUS
<1> QED BY <1>2, <1>6, <1>7, <1>8, <1>9, <1>10, <1>11, <1>12, <1>13

(* A pattern with either sign is below 2 ^ bits.                             *)
LEMMA BothSignsInRange ==
    ASSUME NEW v \in 0 .. sign - 1
    PROVE  /\ BothSigns(v) \in Seq(0 .. 2 * sign - 1)
           /\ Len(BothSigns(v)) = 2
<1>1. sign \in Int
  BY FloatNumbers
<1>2. v \in 0 .. 2 * sign - 1 /\ sign + v \in 0 .. 2 * sign - 1
  BY <1>1
<1> QED BY <1>2 DEF BothSigns

(* The patterns around the points of the floats are floats.                  *)
LEMMA FloatSampleInRange ==
    ASSUME NEW k \in 0 .. Pow2[Fraction] - 1
    PROVE  /\ FloatSample(k) \in Seq(0 .. 2 * sign - 1)
           /\ Len(FloatSample(k)) =< 12
<1>1. PICK f \in Nat, p \in Nat :
        /\ f >= 1 /\ p >= 2 * f
        /\ Pow2[Fraction] = f /\ smallest_norm = f
        /\ sign = 2 * p
        /\ one = p - f
        /\ largest_norm = (2 * p) - (2 * f)
  BY FloatNumbers
<1> DEFINE S == 0 .. 2 * sign - 1
           numbers == <<k, smallest_norm + k, smallest_norm - k, one + k, one - k,
                        largest_norm - k>>
           parts == [j \in 1 .. 6 |-> BothSigns(numbers[j])]
<1>2. ASSUME NEW j \in 1 .. 6
      PROVE  numbers[j] \in 0 .. sign - 1
  <2>1. /\ k \in 0 .. sign - 1
        /\ smallest_norm + k \in 0 .. sign - 1
        /\ smallest_norm - k \in 0 .. sign - 1
        /\ one + k \in 0 .. sign - 1
        /\ one - k \in 0 .. sign - 1
        /\ largest_norm - k \in 0 .. sign - 1
    BY <1>1
  <2>2. j \in {1, 2, 3, 4, 5, 6}
    OBVIOUS
  <2> HIDE <1>1
  <2> QED BY <2>1, <2>2
<1> HIDE DEF numbers
<1>3. ASSUME NEW j \in 1 .. 6
      PROVE  BothSigns(numbers[j]) \in Seq(S) /\ Len(BothSigns(numbers[j])) = 2
  BY <1>2, BothSignsInRange
<1> HIDE DEF S
<1>4. parts \in [1 .. 6 -> Seq(S)] /\ \A j \in 1 .. 6 : Len(parts[j]) =< 2
  <2>1. \A j \in 1 .. 6 : parts[j] = BothSigns(numbers[j])
    OBVIOUS
  <2>2. parts \in [1 .. 6 -> Seq(S)]
    BY <1>3
  <2> HIDE DEF parts
  <2>3. ASSUME NEW j \in 1 .. 6 PROVE Len(parts[j]) =< 2
    <3>1. Len(parts[j]) = 2
      BY <1>3, <2>1
    <3>2. \A n : n = 2 => n =< 2
      OBVIOUS
    <3> QED BY <3>1, <3>2
  <2> QED BY <2>2, <2>3
<1>5. FloatSample(k) = FlattenSeq(parts)
  BY DEF FloatSample, numbers
<1> HIDE DEF parts
<1>6. FlattenSeq(parts) \in Seq(S) /\ Len(FlattenSeq(parts)) =< 2 * 6
  <2>1. 6 \in Nat \ {0} /\ 2 \in Nat
    OBVIOUS
  <2> QED BY <1>4, <2>1, Flattened
<1> QED BY <1>5, <1>6 DEF S

(* So are all that gen_vals makes.                                           *)
LEMMA FloatPatternsInRange ==
    ASSUME NEW test_range \in Nat \ {0}
    PROVE  /\ FloatPatterns(test_range) \in Seq(0 .. 2 * sign - 1)
           /\ Len(FloatPatterns(test_range)) \in 1 .. 12 * test_range + 4
<1>1. PICK f \in Nat : f = Pow2[Fraction] /\ f >= 1
  BY FloatNumbers
<1>2. PICK count \in Nat \ {0} :
        /\ count = IF test_range > Pow2[Fraction] THEN Pow2[Fraction] ELSE test_range
        /\ count =< test_range /\ count =< Pow2[Fraction]
  BY <1>1
<1> DEFINE S == 0 .. 2 * sign - 1
           parts == [k \in 1 .. count |-> FloatSample(k - 1)]
           specials == BothSigns(inf) \o BothSigns(nan)
<1>3. ASSUME NEW k \in 1 .. count
      PROVE  FloatSample(k - 1) \in Seq(S) /\ Len(FloatSample(k - 1)) =< 12
  <2>1. k - 1 \in 0 .. Pow2[Fraction] - 1
    BY <1>1, <1>2
  <2> QED BY <2>1, FloatSampleInRange
<1>4. /\ BothSigns(inf) \in Seq(S) /\ Len(BothSigns(inf)) = 2
      /\ BothSigns(nan) \in Seq(S) /\ Len(BothSigns(nan)) = 2
  <2>1. inf \in 0 .. sign - 1 /\ nan \in 0 .. sign - 1
    BY FloatNumbers
  <2> QED BY <2>1, BothSignsInRange
<1> HIDE DEF S
<1>5. parts \in [1 .. count -> Seq(S)] /\ \A k \in 1 .. count : Len(parts[k]) =< 12
  BY <1>3
<1>6. FloatPatterns(test_range) = FlattenSeq(parts) \o BothSigns(inf) \o BothSigns(nan)
  BY <1>2 DEF FloatPatterns
<1> HIDE DEF parts
<1>7. FlattenSeq(parts) \in Seq(S) /\ Len(FlattenSeq(parts)) =< 12 * count
  <2>1. 12 \in Nat
    OBVIOUS
  <2> QED BY <1>5, <2>1, Flattened
<1>8. /\ FloatPatterns(test_range) \in Seq(S)
      /\ Len(FloatPatterns(test_range)) = Len(FlattenSeq(parts)) + 2 + 2
  <2> DEFINE a == FlattenSeq(parts)
             b == BothSigns(inf)
             c == BothSigns(nan)
  <2>1. a \in Seq(S) /\ b \in Seq(S) /\ c \in Seq(S) /\ Len(b) = 2 /\ Len(c) = 2
    BY <1>4, <1>7
  <2>2. FloatPatterns(test_range) = (a \o b) \o c
    BY <1>6
  <2> HIDE DEF a, b, c
  <2>3. a \o b \in Seq(S) /\ Len(a \o b) = Len(a) + Len(b)
    BY <2>1, ConcatProperties
  <2>4. (a \o b) \o c \in Seq(S) /\ Len((a \o b) \o c) = Len(a \o b) + Len(c)
    BY <2>1, <2>3, ConcatProperties
  <2>5. Len(a \o b \o c) = Len(a) + 2 + 2
    BY <2>1, <2>3, <2>4
  <2> QED BY <2>2, <2>4, <2>5 DEF a
<1>9. Len(FlattenSeq(parts)) \in Nat
  BY <1>7, LenProperties
<1> QED BY <1>2, <1>7, <1>8, <1>9 DEF S

-----------------------------------------------------------------------------
(* All values of a small range (btest.c:198-202), and the points of a large  *)
(* one (btest.c:206-220).                                                    *)

(* A small range is tried number by number.                                  *)
LEMMA ExhaustiveValues ==
    ASSUME NEW min \in Int, NEW max \in Int, min =< max
    PROVE  /\ Exhaustive(min, max) \in Seq(Int)
           /\ Len(Exhaustive(min, max)) = max - min + 1
           /\ Range(Exhaustive(min, max)) = min .. max
<1> DEFINE n == max - min + 1
           a == [k \in 1 .. n |-> min + k - 1]
<1>1. n \in Nat /\ Exhaustive(min, max) = a /\ a \in [1 .. n -> Int]
  BY DEF Exhaustive
<1>2. a \in Seq(Int) /\ Len(a) = n
  BY <1>1
<1>3. Range(a) = min .. max
  <2>1. ASSUME NEW v \in min .. max PROVE v \in Range(a)
    <3>1. v - min + 1 \in 1 .. n /\ a[v - min + 1] = v
      OBVIOUS
    <3> QED BY <3>1 DEF Range
  <2>2. ASSUME NEW k \in 1 .. n PROVE a[k] \in min .. max
    OBVIOUS
  <2> QED BY <2>1, <2>2 DEF Range
<1> QED BY <1>1, <1>2, <1>3

(* Joining two sequences joins their values.                                 *)
LEMMA Concatenation ==
    ASSUME NEW a \in Seq(Int), NEW b \in Seq(Int)
    PROVE  /\ a \o b \in Seq(Int)
           /\ Len(a \o b) = Len(a) + Len(b) /\ Len(a) \in Nat /\ Len(b) \in Nat
           /\ Range(a \o b) = Range(a) \cup Range(b)
BY ConcatProperties, RangeConcatenation, LenProperties

(* The five values, or three or four, around the points of a large range.    *)
LEMMA SampleValues ==
    ASSUME NEW min \in Int, NEW max \in Int, NEW k \in Nat, NEW rand,
           random_val(min, max, rand) \in Int, k =< max - min
    PROVE  LET a == Sample(min, max, k, rand)
           IN  /\ a \in Seq(Int)
               /\ Len(a) =< 5
               /\ Range(a) \subseteq min .. max \cup {random_val(min, max, rand)}
               /\ {min + k, max - k} \subseteq Range(a)
               /\ k \in min .. max => k \in Range(a)
<1> DEFINE Inside(v) == IF v \in min .. max THEN <<v>> ELSE <<>>
           e == <<min + k, max - k>>
           r == <<random_val(min, max, rand)>>
           b == Inside(k)
           c == Inside(-k)
<1>1. Sample(min, max, k, rand) = ((e \o b) \o c) \o r
  BY DEF Sample
<1>2. /\ e \in Seq(Int) /\ Len(e) = 2 /\ Range(e) = {min + k, max - k}
      /\ r \in Seq(Int) /\ Len(r) = 1 /\ Range(r) = {random_val(min, max, rand)}
  <2>1. e \in Seq(Int) /\ Len(e) = 2 /\ r \in Seq(Int) /\ Len(r) = 1
    OBVIOUS
  <2>2. Range(e) = {e[1], e[2]} /\ Range(r) = {r[1]}
    <3>1. DOMAIN e = {1, 2} /\ DOMAIN r = {1}
      BY <2>1
    <3> QED BY <3>1 DEF Range
  <2> QED BY <2>1, <2>2
<1>3. ASSUME NEW v \in Int
      PROVE  /\ Inside(v) \in Seq(Int) /\ Len(Inside(v)) =< 1
             /\ Range(Inside(v)) = IF v \in min .. max THEN {v} ELSE {}
  <2>1. CASE v \in min .. max
    <3> DEFINE s == <<v>>
    <3>1. s \in Seq(Int) /\ Len(s) = 1 /\ DOMAIN s = {1} /\ s[1] = v
      OBVIOUS
    <3>2. Range(s) = {v}
      BY <3>1 DEF Range
    <3> QED BY <2>1, <3>1, <3>2
  <2>2. CASE v \notin min .. max
    <3> DEFINE s == <<>>
    <3>1. s \in Seq(Int) /\ Len(s) = 0 /\ DOMAIN s = {}
      OBVIOUS
    <3>2. Range(s) = {}
      BY <3>1 DEF Range
    <3>3. Inside(v) = s
      BY <2>2
    <3> HIDE DEF Inside, s
    <3> QED BY <2>2, <3>1, <3>2, <3>3
  <2> QED BY <2>1, <2>2
<1>4. /\ b \in Seq(Int) /\ Len(b) =< 1 /\ Range(b) = IF k \in min .. max THEN {k} ELSE {}
      /\ c \in Seq(Int) /\ Len(c) =< 1 /\ Range(c) = IF -k \in min .. max THEN {-k} ELSE {}
  <2>1. k \in Int /\ -k \in Int
    OBVIOUS
  <2> HIDE DEF Inside
  <2>2. b \in Seq(Int) /\ Len(b) =< 1 /\ Range(b) = IF k \in min .. max THEN {k} ELSE {}
    BY <1>3, <2>1, ZenonT(30)
  <2>3. c \in Seq(Int) /\ Len(c) =< 1 /\ Range(c) = IF -k \in min .. max THEN {-k} ELSE {}
    BY <1>3, <2>1, ZenonT(30)
  <2> QED BY <2>2, <2>3
<1> HIDE DEF e, r, b, c
<1>5. /\ e \o b \in Seq(Int) /\ Len(e \o b) = 2 + Len(b) /\ Len(b) \in Nat
      /\ Range(e \o b) = Range(e) \cup Range(b)
  <2>1. e \in Seq(Int) /\ b \in Seq(Int) /\ Len(e) = 2
    BY <1>2, <1>4
  <2> QED BY <2>1, Concatenation
<1>6. /\ (e \o b) \o c \in Seq(Int) /\ Len((e \o b) \o c) = Len(e \o b) + Len(c) /\ Len(c) \in Nat
      /\ Range((e \o b) \o c) = Range(e \o b) \cup Range(c)
  <2> DEFINE u == e \o b
  <2>1. u \in Seq(Int) /\ c \in Seq(Int)
    BY <1>4, <1>5
  <2> HIDE DEF u
  <2>2. /\ u \o c \in Seq(Int) /\ Len(u \o c) = Len(u) + Len(c) /\ Len(c) \in Nat
        /\ Range(u \o c) = Range(u) \cup Range(c)
    BY <2>1, Concatenation
  <2> QED BY <2>2 DEF u
<1>7. /\ ((e \o b) \o c) \o r \in Seq(Int)
      /\ Len(((e \o b) \o c) \o r) = Len((e \o b) \o c) + 1
      /\ Range(((e \o b) \o c) \o r) = Range((e \o b) \o c) \cup Range(r)
  <2> DEFINE u == (e \o b) \o c
  <2>1. u \in Seq(Int) /\ r \in Seq(Int) /\ Len(r) = 1
    BY <1>2, <1>6
  <2> HIDE DEF u
  <2>2. /\ u \o r \in Seq(Int) /\ Len(u \o r) = Len(u) + 1
        /\ Range(u \o r) = Range(u) \cup Range(r)
    BY <2>1, Concatenation
  <2> QED BY <2>2 DEF u
<1> DEFINE a == Sample(min, max, k, rand)
<1>8. /\ a \in Seq(Int)
      /\ Range(a) = Range(e) \cup Range(b) \cup Range(c) \cup Range(r)
  BY <1>1, <1>5, <1>6, <1>7
<1>9. Len(a) =< 5
  <2>1. Len(a) = 2 + Len(b) + Len(c) + 1
    BY <1>1, <1>5, <1>6, <1>7
  <2>2. \A n, m \in Nat : n =< 1 /\ m =< 1 => 2 + n + m + 1 =< 5
    OBVIOUS
  <2> QED BY <1>4, <1>5, <1>6, <2>1, <2>2
<1>10. min + k \in min .. max /\ max - k \in min .. max
  OBVIOUS
<1>11. /\ Range(a) \subseteq min .. max \cup {random_val(min, max, rand)}
       /\ {min + k, max - k} \subseteq Range(a)
       /\ k \in min .. max => k \in Range(a)
  <2> HIDE DEF a
  <2> QED BY <1>2, <1>4, <1>8, <1>10
<1> QED BY <1>8, <1>9, <1>11

-----------------------------------------------------------------------------
(* What gen_vals makes.                                                      *)

LEMMA WrapValues ==
    ASSUME NEW x \in Int
    PROVE  /\ Wrap(x) \in Long
           /\ x \in Long => Wrap(x) = x
<1>1. PICK m \in Nat \ {0}, l \in Int : /\ m = Pow2[LongBits] /\ l = LongMin
                                        /\ m = -(2 * l) /\ LongMax = -l - 1
  BY LongFacts, Pow2Values
<1>2. PICK y \in Int : y = x - l
  OBVIOUS
<1>3. y % m \in 0 .. m - 1
  OBVIOUS
<1>4. y \in 0 .. m - 1 => y % m = y
  <2>1. 0 \in Int /\ y = (m * 0) + y
    OBVIOUS
  <2> QED BY <2>1, DivisionUnique
<1>5. Wrap(x) = (y % m) + l
  BY <1>1, <1>2 DEF Wrap
<1> QED BY <1>1, <1>2, <1>3, <1>4, <1>5 DEF Long

(* An array fits, and covers its range, whatever rand returns.               *)
LEMMA GeneratedValues ==
    ASSUME NEW range \in Long \X Long, NEW n \in Nat \ {0},
           range[1] =< range[2], range[2] - range[1] # MaxTestVals,
           range[2] - MaxTestVals \in Long,
           range[2] - range[1] > MaxTestVals =>
               {range[1], range[2]} \subseteq -Ulp .. Ulp \cup {LongMin, -LongMax, LongMax},
           12 * n + 4 =< MaxTestVals,
           NEW given \in GivenArgs \cup {NULL},
           NEW vals \in gen_vals(range, n, given)
    PROVE  Covers(vals, given, range[1], range[2])
<1> DEFINE min == range[1]
           max == range[2]
<1>1. /\ min \in Long /\ max \in Long /\ min \in Int /\ max \in Int /\ min =< max
      /\ max - min # MaxTestVals /\ MaxTestVals \in Nat /\ Ulp \in Nat \ {0} /\ RandMax \in Nat \ {0}
      /\ Wrap(max - MaxTestVals) = max - MaxTestVals
  <2>1. /\ min \in Long /\ max \in Long /\ min \in Int /\ max \in Int /\ min =< max
        /\ max - min # MaxTestVals /\ MaxTestVals \in Nat /\ Ulp \in Nat \ {0} /\ RandMax \in Nat \ {0}
    BY LongFacts, BTestAssumption
  <2>2. PICK z \in Int : z = max - MaxTestVals /\ z \in Long
    BY <2>1
  <2>3. Wrap(z) = z
    BY <2>2, WrapValues
  <2> HIDE DEF min, max
  <2> QED BY <2>1, <2>2, <2>3
<1>2. CASE given # NULL
  <2>1. given \in Int
    BY <1>2, LongFacts, BTestAssumption
  <2> DEFINE s == <<given>>
  <2>2. vals = s
    BY <1>2 DEF gen_vals
  <2>3. s \in Seq(Int) /\ Len(s) = 1 /\ DOMAIN s = {1} /\ s[1] = given
    BY <2>1
  <2>4. Range(s) = {given}
    BY <2>3 DEF Range
  <2>5. Len(s) \in 1 .. MaxTestVals
    BY <2>3, <1>1
  <2> HIDE DEF s
  <2> QED BY <1>2, <2>2, <2>3, <2>4, <2>5 DEF Covers
<1>3. CASE given = NULL /\ min = 1 /\ max = 1
  <2>1. vals = FloatPatterns(n)
    BY <1>3 DEF gen_vals
  <2>2. vals \in Seq(0 .. 2 * sign - 1) /\ Len(vals) \in 1 .. MaxTestVals
    BY <1>1, <2>1, FloatPatternsInRange
  <2>3. Range(vals) \subseteq 0 .. 2 * sign - 1 /\ vals \in Seq(Int)
    <3>1. PICK u \in Int : u = 2 * sign - 1
      BY FloatNumbers
    <3>2. vals \in Seq(0 .. u)
      BY <2>2, <3>1
    <3>3. vals \in Seq(Int) /\ \A k \in DOMAIN vals : vals[k] \in 0 .. u
      BY <3>2
    <3> QED BY <3>1, <3>3 DEF Range
  <2> QED BY <1>3, <2>2, <2>3 DEF Covers
<1>4. CASE given = NULL /\ ~(min = 1 /\ max = 1) /\ max - MaxTestVals =< min
  <2>1. vals = Exhaustive(min, max)
    BY <1>1, <1>4 DEF gen_vals
  <2>2. vals \in Seq(Int) /\ Len(vals) = max - min + 1 /\ Range(vals) = min .. max
    <3> HIDE DEF min, max
    <3> QED BY <1>1, <2>1, ExhaustiveValues
  <2>4. {min, max} \subseteq min .. max
    BY <1>1
  <2> HIDE DEF min, max
  <2>3. Len(vals) \in 1 .. MaxTestVals
    BY <1>1, <1>4, <2>2
  <2>5. Covers(vals, given, min, max)
    BY <1>4, <2>2, <2>3, <2>4 DEF Covers
  <2> QED BY <2>5 DEF min, max
<1>5. CASE given = NULL /\ ~(min = 1 /\ max = 1) /\ ~(max - MaxTestVals =< min)
  <2>1. PICK rand \in [1 .. n -> 0 .. RandMax] :
            vals = FlattenSeq([k \in 1 .. n |-> Sample(min, max, k - 1, rand[k])])
    BY <1>1, <1>5 DEF gen_vals
  <2>2. max - min > MaxTestVals
    BY <1>1, <1>5
  <2>3. {min, max} \subseteq -Ulp .. Ulp \cup {LongMin, -LongMax, LongMax}
    BY <2>2
  <2> HIDE DEF min, max
  <2> DEFINE s == [k \in 1 .. n |-> Sample(min, max, k - 1, rand[k])]
  <2>4. ASSUME NEW k \in 1 .. n
        PROVE  /\ s[k] = Sample(min, max, k - 1, rand[k])
               /\ s[k] \in Seq(Int) /\ Len(s[k]) =< 5
               /\ Range(s[k]) \subseteq min .. max \cup {LongMin}
               /\ {min, max} \subseteq -Ulp .. Ulp => Range(s[k]) \subseteq min .. max
               /\ {min + (k - 1), max - (k - 1)} \subseteq Range(s[k])
               /\ k - 1 \in min .. max => k - 1 \in Range(s[k])
    <3>1. rand[k] \in 0 .. RandMax
      BY <2>1
    <3>2. PICK v \in min .. max \cup {LongMin} :
              /\ v = random_val(min, max, rand[k])
              /\ {min, max} \subseteq -Ulp .. Ulp => v \in min .. max
      BY <1>1, <2>2, <2>3, <3>1, RandomValue
    <3>3. v \in Int
      BY <1>1, <3>2, LongFacts
    <3>4. k - 1 \in Nat /\ k - 1 =< max - min
      BY <1>1, <2>2
    <3>5. s[k] = Sample(min, max, k - 1, rand[k])
      OBVIOUS
    <3> HIDE DEF s
    <3>6. /\ s[k] \in Seq(Int)
          /\ Len(s[k]) =< 5
          /\ Range(s[k]) \subseteq min .. max \cup {v}
          /\ {min + (k - 1), max - (k - 1)} \subseteq Range(s[k])
          /\ k - 1 \in min .. max => k - 1 \in Range(s[k])
      <4>1. PICK j \in Nat : j = k - 1 /\ j =< max - min
        BY <3>4
      <4>2. PICK r : r = rand[k]
        OBVIOUS
      <4>3. random_val(min, max, r) \in Int
        BY <3>2, <3>3, <4>2
      <4>4. /\ Sample(min, max, j, r) \in Seq(Int)
            /\ Len(Sample(min, max, j, r)) =< 5
            /\ Range(Sample(min, max, j, r)) \subseteq min .. max \cup {random_val(min, max, r)}
            /\ {min + j, max - j} \subseteq Range(Sample(min, max, j, r))
            /\ j \in min .. max => j \in Range(Sample(min, max, j, r))
        BY <1>1, <4>1, <4>3, SampleValues
      <4> QED BY <3>2, <3>5, <4>1, <4>2, <4>4
    <3> QED BY <3>2, <3>5, <3>6
  <2>5. s \in [1 .. n -> Seq(Int)] /\ vals = FlattenSeq(s)
    BY <2>1, <2>4
  <2> HIDE DEF s
  <2>6. /\ vals \in Seq(Int)
        /\ \A x : x \in Range(vals) <=> \E j \in 1 .. n : x \in Range(s[j])
        /\ Len(vals) =< 5 * n
    <3>1. 5 \in Nat /\ \A k \in 1 .. n : Len(s[k]) =< 5
      BY <2>4
    <3> QED BY <2>5, <3>1, Flattened
  <2>7. {min, max} \subseteq Range(vals) /\ (0 \in min .. max => 0 \in Range(vals))
    <3>1. 1 \in 1 .. n /\ 1 - 1 = 0 /\ min + 0 = min /\ max - 0 = max
      BY <1>1
    <3>2. {min, max} \subseteq Range(s[1]) /\ (0 \in min .. max => 0 \in Range(s[1]))
      BY <2>4, <3>1
    <3> QED BY <2>6, <3>1, <3>2
  <2>8. /\ Range(vals) \subseteq min .. max \cup {LongMin}
        /\ {min, max} \subseteq -Ulp .. Ulp => Range(vals) \subseteq min .. max
    BY <2>4, <2>6
  <2>9. Len(vals) \in 1 .. MaxTestVals
    <3>1. Len(vals) \in Nat /\ DOMAIN vals = 1 .. Len(vals)
      BY <2>6, LenProperties
    <3>2. Len(vals) # 0
      BY <2>7, <3>1 DEF Range
    <3>3. \A l \in Nat : l # 0 /\ l =< 5 * n => l \in 1 .. MaxTestVals
      BY <1>1
    <3> QED BY <2>6, <3>1, <3>2, <3>3
  <2>10. ~(max - min =< MaxTestVals)
    BY <1>1, <2>2
  <2>11. Covers(vals, given, min, max)
    BY <1>5, <2>6, <2>7, <2>8, <2>9, <2>10 DEF Covers
  <2> QED BY <2>11 DEF min, max
<1> QED BY <1>2, <1>3, <1>4, <1>5

(* The same for the three arrays of a puzzle.                                *)
LEMMA ValuesCover ==
    ASSUME i \in 1 .. Len(test_set), argval \in GivenArgs \cup {NULL},
           NEW arg \in 1 .. 3, NEW vals \in Values(arg)
    PROVE  /\ vals \in Seq(Int) /\ Len(vals) \in Nat \ {0}
           /\ arg =< test_set[i].args =>
                 Covers(vals, IF arg = 1 THEN argval ELSE NULL,
                        test_set[i].arg_ranges[arg][1], test_set[i].arg_ranges[arg][2])
<1> DEFINE test == test_set[i]
           range == test.arg_ranges[arg]
           n == TestRange[test.args]
           given == IF arg = 1 THEN argval ELSE NULL
<1>1. /\ i \in DOMAIN test_set /\ test.args \in 0 .. 3
      /\ range \in Long \X Long /\ n \in Nat \ {0}
  <2>1. test_set[i] \in [name : STRING, args : 0 .. 3, rating : Nat \ {0},
                         arg_ranges : [1 .. 3 -> Long \X Long]]
    <3> DEFINE Test == [name : STRING, args : 0 .. 3, rating : Nat \ {0},
                        arg_ranges : [1 .. 3 -> Long \X Long]]
    <3>1. test_set \in Seq(Test)
      BY BTestAssumption
    <3> HIDE DEF Test
    <3>2. test_set[i] \in Test
      BY <3>1
    <3> QED BY <3>2 DEF Test
  <2>2. i \in DOMAIN test_set
    <3> DEFINE Test == [name : STRING, args : 0 .. 3, rating : Nat \ {0},
                        arg_ranges : [1 .. 3 -> Long \X Long]]
    <3>1. test_set \in Seq(Test)
      BY BTestAssumption
    <3> HIDE DEF Test
    <3> QED BY <3>1
  <2>3. test.args \in 0 .. 3 /\ test.arg_ranges \in [1 .. 3 -> Long \X Long]
    BY <2>1
  <2>4. range \in Long \X Long
    <3> HIDE DEF test
    <3> QED BY <2>3
  <2>5. n \in Nat \ {0}
    <3>1. TestRange \in [0 .. 3 -> Nat \ {0}]
      BY BTestAssumption
    <3> HIDE DEF test
    <3> QED BY <2>3, <3>1
  <2> QED BY <2>2, <2>3, <2>4, <2>5
<1>2. CASE arg > test.args
  <2> DEFINE s == <<0>>
  <2>1. vals = s
    BY <1>1, <1>2 DEF Values
  <2>2. s \in Seq(Int) /\ Len(s) = 1
    OBVIOUS
  <2>3. ~(arg =< test.args)
    BY <1>1, <1>2
  <2> HIDE DEF s
  <2> QED BY <2>1, <2>2, <2>3
<1>3. CASE ~(arg > test.args)
  <2>1. vals \in gen_vals(range, n, given)
    BY <1>1, <1>3 DEF Values
  <2>2. /\ range[1] =< range[2] /\ range[2] - range[1] # MaxTestVals
        /\ range[2] - MaxTestVals \in Long
        /\ 12 * n + 4 =< MaxTestVals
    BY <1>1, ArrayAssumption
  <2>3. range[2] - range[1] > MaxTestVals =>
            {range[1], range[2]} \subseteq -Ulp .. Ulp \cup {LongMin, -LongMax, LongMax}
    BY <1>1, DoubleAssumption
  <2>4. given \in GivenArgs \cup {NULL}
    OBVIOUS
  <2> HIDE DEF range, n, given
  <2>5. Covers(vals, given, range[1], range[2])
    BY <1>1, <2>1, <2>2, <2>3, <2>4, GeneratedValues
  <2>6. vals \in Seq(Int) /\ Len(vals) \in Nat \ {0}
    BY <2>5 DEF Covers
  <2> QED BY <2>5, <2>6 DEF range, given
<1> QED BY <1>2, <1>3

-----------------------------------------------------------------------------
(* The calls of test_function's three loops (btest.c:381-414) are made with  *)
(* the combinations of the values, all of them and no others.                *)

LEMMA QuotientInRange ==
    ASSUME NEW r \in Nat, NEW c \in Nat \ {0}, NEW n \in 0 .. r * c - 1
    PROVE  n \div c \in 0 .. r - 1
<1>1. PICK s \in Int : s = n \div c /\ n = (c * s) + (n % c) /\ n % c \in 0 .. c - 1
  <2>1. n \in Int
    OBVIOUS
  <2> QED BY <2>1, Division
<1>2. s >= 0
  <2>1. s =< -1 => c * s =< -c
    OBVIOUS
  <2>2. PICK p \in Int : p = c * s
    OBVIOUS
  <2> QED BY <1>1, <2>1, <2>2
<1>3. s < r
  <2>1. s >= r => c * s >= r * c
    OBVIOUS
  <2>2. PICK p \in Int : p = c * s
    OBVIOUS
  <2>3. PICK u \in Int : u = r * c
    OBVIOUS
  <2> QED BY <1>1, <2>1, <2>2, <2>3
<1> QED BY <1>1, <1>2, <1>3

(* The number of a pair, and the pair of a number.                           *)
LEMMA PairNumber ==
    ASSUME NEW r \in Nat, NEW c \in Nat \ {0}, NEW a \in 0 .. r - 1, NEW b \in 0 .. c - 1
    PROVE  LET n == (c * a) + b
           IN  n \in 0 .. r * c - 1 /\ n \div c = a /\ n % c = b
<1>1. a \in Int /\ r - 1 - a >= 0 /\ c * (r - 1 - a) >= 0 /\ c * a >= 0
  OBVIOUS
<1>2. c * (r - 1 - a) = (r * c) - c - (c * a)
  OBVIOUS
<1>3. PICK p \in Int : p = c * a
  OBVIOUS
<1>4. PICK u \in Int : u = r * c
  OBVIOUS
<1>5. p + b \in 0 .. u - 1
  BY <1>1, <1>2, <1>3, <1>4
<1>6. ((c * a) + b) \div c = a /\ ((c * a) + b) % c = b
  BY <1>1, DivisionUnique
<1> QED BY <1>3, <1>4, <1>5, <1>6

(* The three arrays, as test_function holds them during its calls.           *)
Filled ==
    /\ arg_test_vals = <<arg_test_vals[1], arg_test_vals[2], arg_test_vals[3]>>
    /\ \A arg \in 1 .. 3 : arg_test_vals[arg] \in Seq(Int) /\ Count(arg) \in Nat \ {0}

Calls == Count(1) * Count(2) * Count(3)

Combinations ==
    {<<a, b, c>> : a \in Range(arg_test_vals[1]),
                   b \in Range(arg_test_vals[2]),
                   c \in Range(arg_test_vals[3])}

LEMMA CombinationsAreCalled ==
    ASSUME Filled
    PROVE  /\ Calls \in Nat \ {0}
           /\ Combinations = {Combination(n) : n \in 0 .. Calls - 1}
<1>1. PICK r \in Nat \ {0}, s \in Nat \ {0}, t \in Nat \ {0} :
          r = Count(1) /\ s = Count(2) /\ t = Count(3)
  BY DEF Filled
<1> DEFINE A == arg_test_vals[1]
           B == arg_test_vals[2]
           C == arg_test_vals[3]
<1>2. /\ A \in Seq(Int) /\ DOMAIN A = 1 .. r
      /\ B \in Seq(Int) /\ DOMAIN B = 1 .. s
      /\ C \in Seq(Int) /\ DOMAIN C = 1 .. t
  BY <1>1 DEF Filled, Count
<1>3. Calls = r * (s * t) /\ s * t \in Nat \ {0} /\ Calls \in Nat \ {0} /\ (r * s) * t = r * (s * t)
      /\ r * s \in Nat
  <2>1. s * t \in Nat \ {0} /\ (r * s) * t = r * (s * t) /\ r * s \in Nat
    OBVIOUS
  <2>2. \A x \in Nat \ {0} : r * x \in Nat \ {0}
    OBVIOUS
  <2> QED BY <1>1, <2>1, <2>2 DEF Calls
<1>4. \A n : Combination(n) = <<A[(n \div (s * t)) + 1], B[((n \div t) % s) + 1], C[(n % t) + 1]>>
  BY <1>1 DEF Combination
<1> HIDE DEF A, B, C
<1>5. ASSUME NEW n \in 0 .. Calls - 1
      PROVE  /\ Combination(n) \in Combinations
  <2>1. n \div (s * t) \in 0 .. r - 1
    BY <1>3, QuotientInRange
  <2>2. n \div t \in Int /\ n % t \in 0 .. t - 1 /\ n \in Int
    BY Division
  <2>3. (n \div t) % s \in 0 .. s - 1
    BY <2>2, Division
  <2>4. PICK x \in Int, y \in Int, z \in Int :
            /\ x = (n \div (s * t)) + 1 /\ y = ((n \div t) % s) + 1 /\ z = (n % t) + 1
            /\ x \in 1 .. r /\ y \in 1 .. s /\ z \in 1 .. t
    <3>0. PICK w \in Nat \ {0} : w = s * t
      BY <1>3
    <3>1. PICK q \in Int : q = n \div w /\ q \in 0 .. r - 1
      BY <2>1, <3>0
    <3>2. PICK p \in Int : p = (n \div t) % s /\ p \in 0 .. s - 1
      BY <2>3
    <3>3. PICK o \in Int : o = n % t /\ o \in 0 .. t - 1
      BY <2>2
    <3>4. q + 1 \in 1 .. r /\ p + 1 \in 1 .. s /\ o + 1 \in 1 .. t
      BY <3>1, <3>2, <3>3
    <3>5. PICK x \in Int : x = (n \div w) + 1 /\ x \in 1 .. r
      BY <3>1, <3>4
    <3>6. PICK y \in Int : y = ((n \div t) % s) + 1 /\ y \in 1 .. s
      BY <3>2, <3>4
    <3>7. PICK z \in Int : z = (n % t) + 1 /\ z \in 1 .. t
      BY <3>3, <3>4
    <3> QED BY <3>0, <3>5, <3>6, <3>7
  <2>5. A[x] \in Range(A) /\ B[y] \in Range(B) /\ C[z] \in Range(C)
    BY <1>2, <2>4 DEF Range
  <2>6. Combination(n) = <<A[x], B[y], C[z]>>
    BY <1>4, <2>4
  <2> QED BY <2>5, <2>6 DEF Combinations, A, B, C
<1>6. ASSUME NEW e \in Combinations
      PROVE  \E n \in 0 .. Calls - 1 : e = Combination(n)
  <2>1. PICK a \in Range(A), b \in Range(B), c \in Range(C) : e = <<a, b, c>>
    BY DEF Combinations, A, B, C
  <2>2. PICK x \in 1 .. r, y \in 1 .. s, z \in 1 .. t : a = A[x] /\ b = B[y] /\ c = C[z]
    BY <1>2 DEF Range
  <2>3. x - 1 \in 0 .. r - 1 /\ y - 1 \in 0 .. s - 1 /\ z - 1 \in 0 .. t - 1
    OBVIOUS
  <2>4. PICK m \in 0 .. s * t - 1 :
            m = (t * (y - 1)) + (z - 1) /\ m \div t = y - 1 /\ m % t = z - 1
    BY <2>3, PairNumber
  <2>5. PICK n \in 0 .. r * (s * t) - 1 :
            n = ((s * t) * (x - 1)) + m /\ n \div (s * t) = x - 1
    BY <1>3, <2>3, <2>4, PairNumber
  <2>6. n = (t * ((s * (x - 1)) + (y - 1))) + (z - 1)
    <3>1. (s * t) * (x - 1) = t * (s * (x - 1))
      OBVIOUS
    <3>2. \A u \in Int, v \in Int : t * (u + v) = (t * u) + (t * v)
      OBVIOUS
    <3>3. PICK u \in Int : u = s * (x - 1)
      OBVIOUS
    <3>4. t * (u + (y - 1)) = (t * u) + (t * (y - 1))
      BY <3>2
    <3>5. PICK p \in Int : p = t * u
      OBVIOUS
    <3>6. PICK q \in Int : q = t * (y - 1)
      OBVIOUS
    <3>7. n = p + m /\ m = q + (z - 1)
      BY <2>4, <2>5, <3>1, <3>3, <3>5, <3>6
    <3>8. t * (u + (y - 1)) = p + q
      BY <3>4, <3>5, <3>6
    <3> QED BY <3>3, <3>7, <3>8
  <2>7. PICK u \in Int : u = (s * (x - 1)) + (y - 1)
    OBVIOUS
  <2>8. n \div t = u /\ n % t = z - 1
    BY <2>3, <2>6, <2>7, DivisionUnique
  <2>9. u % s = y - 1
    BY <2>3, <2>7, DivisionUnique
  <2>10. Combination(n) = <<A[x], B[y], C[z]>>
    <3>1. (x - 1) + 1 = x /\ (y - 1) + 1 = y /\ (z - 1) + 1 = z
      OBVIOUS
    <3> QED BY <1>4, <2>5, <2>8, <2>9, <3>1
  <2> QED BY <1>3, <2>1, <2>2, <2>5, <2>10
<1> QED BY <1>3, <1>5, <1>6

-----------------------------------------------------------------------------
(* The loops of test_rotateLeft and test_bitParity as runs.                  *)

LEMMA RotateLeftRun ==
    ASSUME NEW x \in Int, NEW n \in Nat
    PROVE  \E g : /\ g \in [0 .. n -> Int]
                  /\ g[0] = x % Pow2[LongBits]
                  /\ \A k \in 1 .. n : g[k] = ((2 * g[k - 1]) % Pow2[LongBits])
                                                  + (g[k - 1] \div Pow2[LongBits - 1])
                  /\ test_rotateLeft(x, n) = Wrap(g[n])
<1> DEFINE v == x % Pow2[LongBits]
           Step == [k \in Nat |-> [u \in Int |->
                       ((2 * u) % Pow2[LongBits]) + (u \div Pow2[LongBits - 1])]]
           Equation(f) == f = [k \in 0 .. n |->
                       IF k = 0 THEN x % Pow2[LongBits]
                       ELSE ((2 * f[k - 1]) % Pow2[LongBits]) + (f[k - 1] \div Pow2[LongBits - 1])]
<1>1. PICK m \in Nat \ {0}, h \in Nat \ {0} : m = Pow2[LongBits] /\ h = Pow2[LongBits - 1]
  BY LongFacts
<1>2. Step \in [Nat -> [Int -> Int]] /\ v \in Int
  <2>1. \A u \in Int : ((2 * u) % m) + (u \div h) \in Int
    OBVIOUS
  <2>2. v \in Int
    BY <1>1
  <2> QED BY <1>1, <2>1, <2>2
<1>3. PICK g : RunOf(Int, v, Step, n, g)
  <2> HIDE DEF Step, v
  <2> QED BY <1>2, RunsExist
<1>4. /\ g \in [0 .. n -> Int] /\ g[0] = v
      /\ \A k \in 1 .. n : g[k] = Step[k][g[k - 1]] /\ k \in Nat /\ g[k - 1] \in Int
  <2>1. \A k \in 1 .. n : k - 1 \in 0 .. n
    OBVIOUS
  <2> HIDE DEF Step, v
  <2> QED BY <1>3, <2>1 DEF RunOf
<1>5. \A k \in 1 .. n : g[k] = ((2 * g[k - 1]) % Pow2[LongBits])
                                   + (g[k - 1] \div Pow2[LongBits - 1])
  BY <1>4
<1>6. Equation(g)
  <2>1. \A k \in 0 .. n : k # 0 => k \in 1 .. n
    OBVIOUS
  <2> QED BY <1>4, <1>5, <2>1
<1> DEFINE f == CHOOSE w : Equation(w)
<1>7. Equation(f)
  <2> HIDE DEF Equation
  <2> QED BY <1>6
<1>8. test_rotateLeft(x, n) = Wrap(f[n])
  BY DEF test_rotateLeft
<1>9. n \in 0 .. n /\ 0 \in 0 .. n
  OBVIOUS
<1>10. \A k \in 0 .. n : f[k] = g[k]
  <2> DEFINE T == {k \in 0 .. n : f[k] # g[k]}
  <2> SUFFICES ASSUME T # {} PROVE FALSE
    OBVIOUS
  <2>1. PICK k \in T : \A j \in T : k =< j
    <3>1. T \in SUBSET Nat
      OBVIOUS
    <3> HIDE DEF T
    <3> QED BY <3>1, LeastNatural
  <2>2. f[0] = v
    <3> HIDE DEF f
    <3> QED BY <1>7, <1>9
  <2>3. k # 0
    BY <1>4, <2>1, <2>2
  <2>4. k \in 1 .. n /\ k - 1 \in 0 .. n /\ ~(k =< k - 1)
    BY <2>1, <2>3
  <2>5. f[k - 1] = g[k - 1]
    BY <2>1, <2>4
  <2>6. f[k] = ((2 * f[k - 1]) % Pow2[LongBits]) + (f[k - 1] \div Pow2[LongBits - 1])
    <3> HIDE DEF f
    <3> QED BY <1>7, <2>1, <2>3
  <2> QED BY <1>5, <2>1, <2>4, <2>5, <2>6
<1> HIDE DEF f
<1> QED BY <1>4, <1>5, <1>8, <1>9, <1>10

LEMMA BitParityRun ==
    ASSUME NEW x \in Int
    PROVE  \E g : /\ g \in [0 .. LongBits -> Int]
                  /\ g[0] = 0
                  /\ \A k \in 1 .. LongBits : g[k] = (g[k - 1] + Bit(x, k - 1)) % 2
                  /\ test_bitParity(x) = g[LongBits]
<1> DEFINE n == LongBits
           B == [k \in Nat |-> IF k \in 1 .. n THEN Bit(x, k - 1) ELSE 0]
           Step == [k \in Nat |-> [u \in Int |-> (u + B[k]) % 2]]
           Equation(f) == f = [k \in 0 .. n |->
                       IF k = 0 THEN 0 ELSE (f[k - 1] + Bit(x, k - 1)) % 2]
<1>1. n \in Nat
  BY LongFacts
<1>2. \A k \in 1 .. n : Bit(x, k - 1) \in Int
  <2> SUFFICES ASSUME NEW k \in 1 .. n PROVE Bit(x, k - 1) \in Int
    OBVIOUS
  <2>1. k - 1 \in Nat
    BY <1>1
  <2>2. PICK p \in Nat \ {0} : p = Pow2[k - 1]
    BY <2>1, Pow2Values
  <2> QED BY <2>2 DEF Bit
<1>3. \A k \in Nat : B[k] \in Int
  BY <1>2
<1>4. Step \in [Nat -> [Int -> Int]] /\ 0 \in Int
  <2> HIDE DEF B
  <2> QED BY <1>3
<1>5. PICK g : RunOf(Int, 0, Step, n, g)
  <2> HIDE DEF Step, n
  <2> QED BY <1>1, <1>4, RunsExist
<1>6. /\ g \in [0 .. n -> Int] /\ g[0] = 0
      /\ \A k \in 1 .. n : g[k] = Step[k][g[k - 1]] /\ k \in Nat /\ g[k - 1] \in Int
  <2>1. \A k \in 1 .. n : k - 1 \in 0 .. n /\ k \in Nat
    BY <1>1
  <2> HIDE DEF Step, n
  <2> QED BY <1>5, <2>1 DEF RunOf
<1>7. \A k \in 1 .. n : g[k] = (g[k - 1] + Bit(x, k - 1)) % 2
  <2> SUFFICES ASSUME NEW k \in 1 .. n PROVE g[k] = (g[k - 1] + Bit(x, k - 1)) % 2
    OBVIOUS
  <2>1. B[k] = Bit(x, k - 1)
    BY <1>6
  <2> HIDE DEF B
  <2> QED BY <1>6, <2>1
<1>8. Equation(g)
  <2>1. \A k \in 0 .. n : k # 0 => k \in 1 .. n
    BY <1>1
  <2> QED BY <1>6, <1>7, <2>1
<1> DEFINE f == CHOOSE w : Equation(w)
<1>9. Equation(f)
  <2> HIDE DEF Equation
  <2> QED BY <1>8
<1>10. test_bitParity(x) = f[n]
  BY DEF test_bitParity
<1>11. n \in 0 .. n /\ 0 \in 0 .. n
  BY <1>1
<1>12. \A k \in 0 .. n : f[k] = g[k]
  <2> DEFINE T == {k \in 0 .. n : f[k] # g[k]}
  <2> SUFFICES ASSUME T # {} PROVE FALSE
    OBVIOUS
  <2>1. PICK k \in T : \A j \in T : k =< j
    <3>1. T \in SUBSET Nat
      BY <1>1
    <3> HIDE DEF T
    <3> QED BY <3>1, LeastNatural
  <2>2. f[0] = 0
    <3> HIDE DEF f
    <3> QED BY <1>9, <1>11
  <2>3. k # 0
    BY <1>6, <2>1, <2>2
  <2>4. k \in 1 .. n /\ k - 1 \in 0 .. n /\ ~(k =< k - 1)
    BY <1>1, <2>1, <2>3
  <2>5. f[k - 1] = g[k - 1]
    BY <2>1, <2>4
  <2>6. f[k] = (f[k - 1] + Bit(x, k - 1)) % 2
    <3> HIDE DEF f
    <3> QED BY <1>9, <2>1, <2>3
  <2> QED BY <1>7, <2>1, <2>4, <2>5, <2>6
<1> HIDE DEF f
<1> QED BY <1>6, <1>7, <1>10, <1>11, <1>12

-----------------------------------------------------------------------------
(* The table of decl.c and the stubs of bits.c.                              *)

(* The eleven puzzles come first in the table.                               *)
LEMMA TableFacts ==
    /\ DOMAIN Declared = 1 .. 11
    /\ \A k \in 1 .. 11 : k \in DOMAIN test_set /\ test_set[k] = Declared[k]
    /\ Names = {"implication", "leastBitPos", "distinctNegation", "fitsBits", "trueFiveEighths",
                "addOK", "isPower2", "rotateLeft", "isPalindrome", "bitParity", "absVal"}
    /\ \A k \in DOMAIN test_set : test_set[k].name \in Names => k \in 1 .. 11
<1>1. DOMAIN Declared = 1 .. 11 /\ Len(Declared) = 11
  BY DEF Declared
<1>2. DOMAIN test_set = 1 .. Len(test_set) /\ Len(test_set) \in Nat
  <2> DEFINE Test == [name : STRING, args : 0 .. 3, rating : Nat \ {0},
                      arg_ranges : [1 .. 3 -> Long \X Long]]
  <2>1. test_set \in Seq(Test)
    BY BTestAssumption
  <2> HIDE DEF Test
  <2> QED BY <2>1
<1>3. \A k \in 1 .. 11 : k \in DOMAIN test_set /\ test_set[k] = Declared[k]
  BY <1>1, <1>2, TableAssumption
<1>4. Names = {Declared[1].name, Declared[2].name, Declared[3].name, Declared[4].name,
               Declared[5].name, Declared[6].name, Declared[7].name, Declared[8].name,
               Declared[9].name, Declared[10].name, Declared[11].name}
  <2>1. 1 .. 11 = {1, 2, 3, 4, 5, 6, 7, 8, 9, 10, 11}
    OBVIOUS
  <2> QED BY <1>1, <2>1 DEF Names
<1>5. Names = {"implication", "leastBitPos", "distinctNegation", "fitsBits", "trueFiveEighths",
               "addOK", "isPower2", "rotateLeft", "isPalindrome", "bitParity", "absVal"}
  BY <1>4 DEF Declared, Puzzle
<1>6. \A k \in DOMAIN test_set : test_set[k].name \in Names => k \in 1 .. 11
  BY <1>1, TableAssumption
<1> QED BY <1>1, <1>3, <1>5, <1>6

(* The stubs return 2 for arguments for which the reference does not.        *)
LEMMA TruthIsNotTwo == \A holds : Truth(holds) \in {0, 1}
BY DEF Truth

LEMMA ReferencesOfZero ==
    /\ test_leastBitPos(0) = 0 /\ test_trueFiveEighths(0) = 0 /\ test_absVal(0) = 0
    /\ test_rotateLeft(0, 0) = 0 /\ test_bitParity(0) \in {0, 1}
<1>1. test_leastBitPos(0) = 0
  BY DEF test_leastBitPos
<1>2. test_trueFiveEighths(0) = 0
  BY DEF test_trueFiveEighths, Truncate
<1>3. test_absVal(0) = 0
  BY DEF test_absVal
<1>4. test_rotateLeft(0, 0) = 0
  <2>1. 0 \in Int /\ 0 \in Nat
    OBVIOUS
  <2>2. PICK g : g[0] = 0 % Pow2[LongBits] /\ test_rotateLeft(0, 0) = Wrap(g[0])
    BY <2>1, RotateLeftRun
  <2>3. 0 % Pow2[LongBits] = 0
    <3>1. PICK m \in Nat \ {0} : m = Pow2[LongBits]
      BY LongFacts, Pow2Values
    <3> QED BY <3>1
  <2>4. 0 \in Long
    BY LongFacts DEF Long
  <2> QED BY <2>1, <2>2, <2>3, <2>4, WrapValues
<1>5. test_bitParity(0) \in {0, 1}
  <2>1. 0 \in Int
    OBVIOUS
  <2>2. PICK g : /\ g \in [0 .. LongBits -> Int]
                 /\ g[0] = 0
                 /\ \A k \in 1 .. LongBits : g[k] = (g[k - 1] + Bit(0, k - 1)) % 2
                 /\ test_bitParity(0) = g[LongBits]
    BY <2>1, BitParityRun
  <2>3. LongBits \in 1 .. LongBits /\ LongBits - 1 \in 0 .. LongBits /\ LongBits - 1 \in Nat
    BY LongFacts
  <2>4. g[LongBits - 1] \in Int /\ Bit(0, LongBits - 1) \in Int
    <3>1. PICK p \in Nat \ {0} : p = Pow2[LongBits - 1]
      BY <2>3, Pow2Values
    <3> QED BY <2>2, <2>3, <3>1 DEF Bit
  <2>5. \A a, b \in Int : (a + b) % 2 \in {0, 1}
    OBVIOUS
  <2> QED BY <2>2, <2>3, <2>4, <2>5
<1> QED BY <1>1, <1>2, <1>3, <1>4, <1>5

LEMMA StubsAreWrong ==
    ASSUME NEW name \in Names, NEW x, NEW y
    PROVE  /\ Solution(name, x, y) = 2
           /\ x = 0 /\ (name = "rotateLeft" => y = 0) => Reference(name, x, y) # 2
<1>1. Solution(name, x, y) = 2
  BY TableFacts DEF Solution, implication, leastBitPos, distinctNegation, fitsBits,
     trueFiveEighths, addOK, isPower2, rotateLeft, isPalindrome, bitParity, absVal
<1>2. ASSUME x = 0, name = "rotateLeft" => y = 0
      PROVE  Reference(name, x, y) # 2
  <2>1. /\ test_implication(x, y) # 2 /\ test_distinctNegation(x) # 2 /\ test_fitsBits(x, y) # 2
        /\ test_addOK(x, y) # 2 /\ test_isPower2(x) # 2 /\ test_isPalindrome(x) # 2
    <3>1. test_implication(x, y) \in {0, 1}
      BY TruthIsNotTwo DEF test_implication
    <3>2. test_distinctNegation(x) \in {0, 1}
      BY TruthIsNotTwo DEF test_distinctNegation
    <3>3. test_fitsBits(x, y) \in {0, 1}
      BY TruthIsNotTwo DEF test_fitsBits
    <3>4. test_addOK(x, y) \in {0, 1}
      BY TruthIsNotTwo DEF test_addOK
    <3>5. test_isPower2(x) \in {0, 1}
      BY TruthIsNotTwo DEF test_isPower2
    <3>6. test_isPalindrome(x) \in {0, 1}
      BY TruthIsNotTwo DEF test_isPalindrome
    <3> QED BY <3>1, <3>2, <3>3, <3>4, <3>5, <3>6
  <2> QED BY <1>2, <2>1, TableFacts, ReferencesOfZero DEF Reference
<1> QED BY <1>1, <1>2

-----------------------------------------------------------------------------
(* The inductive invariant.  Between two tests nothing of a test is left;    *)
(* during one the arrays are made and agreed holds the calls that agreed,    *)
(* each deserved where the solutions are known; when test_function is back   *)
(* its result says whether all of them agreed in time.                       *)
Flags ==
    /\ test_fname \in Nat /\ global_rating \in Ratings
    /\ timeout_limit \in BOOLEAN /\ handout \in BOOLEAN /\ alarm \in BOOLEAN
    /\ argval \in GivenArgs \cup {NULL}
    /\ i \in 1 .. Len(test_set) + 1 /\ phase \in Phase
    /\ points \in Nat /\ max_points \in Nat
    /\ alarm => timeout_limit

Idle == arg_test_vals = None /\ calls = 0 /\ agreed = {} /\ terrors = 0 /\ ~alarm

Made ==
    \A arg \in 1 .. 3 : arg =< test_set[i].args =>
        Covers(arg_test_vals[arg], IF arg = 1 THEN argval ELSE NULL,
               test_set[i].arg_ranges[arg][1], test_set[i].arg_ranges[arg][2])

Known ==
    handout /\ test_set[i].name \in Names =>
        \A c \in agreed : Solution(test_set[i].name, c[1], c[2])
                              = Reference(test_set[i].name, c[1], c[2])

Testing ==
    /\ i =< Len(test_set) /\ Selected
    /\ Filled /\ Made /\ Known
    /\ calls \in 0 .. Calls /\ terrors \in 0 .. 1

Verdict == terrors = 0 <=> (agreed = Combinations /\ alarm = timeout_limit)

IInv ==
    /\ Flags
    /\ phase \in {"next", "exited"} => Idle
    /\ phase \in {"call", "hung", "returned", "crashed"} => Testing
    /\ phase \in {"call", "hung"} => terrors = 0 /\ alarm = timeout_limit
    /\ phase = "call" => calls < Calls /\ agreed = {Combination(n) : n \in 0 .. calls - 1}
    /\ phase = "returned" => Verdict
    /\ HandoutEarnsNothing

LEMMA TestSetIsSequence ==
    /\ Len(test_set) \in Nat /\ DOMAIN test_set = 1 .. Len(test_set)
    /\ \A k \in 1 .. Len(test_set) : /\ test_set[k].args \in 0 .. 3
                                     /\ test_set[k].rating \in Nat \ {0}
<1> DEFINE Test == [name : STRING, args : 0 .. 3, rating : Nat \ {0},
                    arg_ranges : [1 .. 3 -> Long \X Long]]
<1>1. test_set \in Seq(Test)
  BY BTestAssumption
<1>2. \A t \in Test : t.args \in 0 .. 3 /\ t.rating \in Nat \ {0}
  OBVIOUS
<1> HIDE DEF Test
<1>3. Len(test_set) \in Nat /\ DOMAIN test_set = 1 .. Len(test_set)
  BY <1>1
<1>4. \A k \in 1 .. Len(test_set) : test_set[k] \in Test
  BY <1>1
<1> QED BY <1>2, <1>3, <1>4

LEMMA Initially == Init => IInv
<1> SUFFICES ASSUME Init PROVE IInv
  OBVIOUS
<1>1. Flags
  <2>1. /\ test_fname \in Nat /\ i \in 1 .. Len(test_set) + 1
        /\ points \in Nat /\ max_points \in Nat
    BY TestSetIsSequence DEF Init
  <2>2. /\ global_rating \in Ratings /\ phase \in Phase /\ argval \in GivenArgs \cup {NULL}
        /\ timeout_limit \in BOOLEAN /\ handout \in BOOLEAN /\ alarm \in BOOLEAN /\ ~alarm
    BY Zenon DEF Init, Phase
  <2> QED BY <2>1, <2>2 DEF Flags
<1>2. Idle
  BY DEF Init, Idle
<1> QED BY <1>1, <1>2 DEF Init, IInv, HandoutEarnsNothing

(* Steps that leave a test alone.                                            *)
LEMMA TestUndisturbed ==
    ASSUME UNCHANGED <<test_fname, handout, argval, i, arg_test_vals>>
    PROVE  /\ Filled' = Filled /\ Made' = Made /\ Selected' = Selected
           /\ Calls' = Calls /\ Combinations' = Combinations
           /\ \A n : Combination(n)' = Combination(n)
BY DEF Filled, Made, Selected, Calls, Combinations, Combination, Count

LEMMA StutterKeeps == IInv /\ UNCHANGED vars => IInv'
<1> SUFFICES ASSUME IInv, UNCHANGED vars PROVE IInv'
  OBVIOUS
<1>1. /\ UNCHANGED <<test_fname, global_rating, timeout_limit, handout, argval, i, phase>>
      /\ UNCHANGED <<arg_test_vals, calls, agreed, terrors, points, max_points, alarm>>
  BY DEF vars, flags, score
<1>2. /\ Filled' = Filled /\ Made' = Made /\ Selected' = Selected
      /\ Calls' = Calls /\ Combinations' = Combinations
      /\ \A n : Combination(n)' = Combination(n)
  BY <1>1, TestUndisturbed
<1>3. Flags' = Flags /\ Idle' = Idle /\ Known' = Known
  BY <1>1 DEF Flags, Idle, Known
<1>4. Testing' = Testing /\ Verdict' = Verdict
  BY <1>1, <1>2, <1>3 DEF Testing, Verdict
<1>5. HandoutEarnsNothing' = HandoutEarnsNothing
  BY <1>1 DEF HandoutEarnsNothing
<1>6. {Combination(n) : n \in 0 .. calls - 1}' = {Combination(n) : n \in 0 .. calls - 1}
  BY <1>1, <1>2
<1> QED BY <1>1, <1>2, <1>3, <1>4, <1>5, <1>6 DEF IInv

LEMMA SkipKeeps == IInv /\ Skip => IInv'
<1> SUFFICES ASSUME IInv, Skip PROVE IInv'
  OBVIOUS
<1>1. phase = "next" /\ phase' = "next" /\ i' = i + 1 /\ i =< Len(test_set)
  BY DEF Skip
<1>2. /\ UNCHANGED <<test_fname, global_rating, timeout_limit, handout, argval>>
      /\ UNCHANGED <<arg_test_vals, calls, agreed, terrors, points, max_points, alarm>>
  BY DEF Skip, flags, score
<1>3. Flags'
  BY <1>1, <1>2, TestSetIsSequence DEF IInv, Flags
<1>4. Idle'
  BY <1>1, <1>2 DEF IInv, Idle
<1>5. HandoutEarnsNothing'
  <2>1. Len(Declared) = 11 /\ i \in Int
    BY TestSetIsSequence DEF Declared, IInv, Flags
  <2>2. i' =< Len(Declared) + 1 => i =< Len(Declared) + 1
    BY <1>1, <2>1
  <2> QED BY <1>2, <2>2 DEF IInv, HandoutEarnsNothing
<1> QED BY <1>1, <1>3, <1>4, <1>5 DEF IInv

LEMMA FinishKeeps == IInv /\ Finish => IInv'
<1> SUFFICES ASSUME IInv, Finish PROVE IInv'
  OBVIOUS
<1>1. phase = "next" /\ phase' = "exited"
  BY DEF Finish
<1>2. /\ UNCHANGED <<test_fname, global_rating, timeout_limit, handout, argval, i>>
      /\ UNCHANGED <<arg_test_vals, calls, agreed, terrors, points, max_points, alarm>>
  BY DEF Finish, flags, score
<1>3. Flags'
  BY <1>1, <1>2 DEF IInv, Flags, Phase
<1>4. Idle'
  BY <1>1, <1>2 DEF IInv, Idle
<1>5. HandoutEarnsNothing'
  BY <1>2 DEF IInv, HandoutEarnsNothing
<1> QED BY <1>1, <1>3, <1>4, <1>5 DEF IInv

LEMMA StartTestKeeps == IInv /\ StartTest => IInv'
<1> SUFFICES ASSUME IInv, StartTest PROVE IInv'
  OBVIOUS
<1>1. /\ phase = "next" /\ phase' = "call" /\ calls' = 0 /\ agreed' = {}
      /\ alarm' = timeout_limit /\ i =< Len(test_set) /\ Selected
  BY DEF StartTest
<1>2. UNCHANGED <<test_fname, global_rating, timeout_limit, handout, argval, i,
                  terrors, points, max_points>>
  BY DEF StartTest, flags, score
<1>3. PICK a \in Values(1), b \in Values(2), c \in Values(3) : arg_test_vals' = <<a, b, c>>
  BY DEF StartTest
<1>4. i \in 1 .. Len(test_set) /\ argval \in GivenArgs \cup {NULL} /\ terrors = 0
  BY <1>1, TestSetIsSequence DEF IInv, Flags, Idle
<1>5. /\ arg_test_vals'[1] \in Values(1) /\ arg_test_vals'[2] \in Values(2)
      /\ arg_test_vals'[3] \in Values(3)
      /\ arg_test_vals' = <<arg_test_vals'[1], arg_test_vals'[2], arg_test_vals'[3]>>
  BY <1>3
<1>6. ASSUME NEW arg \in 1 .. 3
      PROVE  /\ arg_test_vals'[arg] \in Seq(Int) /\ Len(arg_test_vals'[arg]) \in Nat \ {0}
             /\ arg =< test_set[i].args =>
                   Covers(arg_test_vals'[arg], IF arg = 1 THEN argval ELSE NULL,
                          test_set[i].arg_ranges[arg][1], test_set[i].arg_ranges[arg][2])
  <2>1. arg_test_vals'[arg] \in Values(arg)
    <3>1. arg = 1 \/ arg = 2 \/ arg = 3
      OBVIOUS
    <3> QED BY <1>5, <3>1
  <2> QED BY <1>4, <2>1, ValuesCover
<1>7. Filled' /\ Made'
  BY <1>2, <1>5, <1>6 DEF Filled, Made, Count
<1>8. Calls' \in Nat \ {0}
  <2>1. (Filled => Calls \in Nat \ {0})'
    BY CombinationsAreCalled, PTL
  <2> QED BY <1>7, <2>1
<1>9. Known' /\ Selected'
  BY <1>1, <1>2 DEF Known, Selected
<1>10. Testing' /\ 0 < Calls'
  BY <1>1, <1>2, <1>4, <1>7, <1>8, <1>9 DEF Testing
<1>11. agreed' = {Combination(n) : n \in 0 .. calls - 1}'
  <2>1. 0 .. calls' - 1 = {}
    BY <1>1
  <2> QED BY <1>1, <2>1
<1>12. Flags'
  BY <1>1, <1>2 DEF IInv, Flags, Phase
<1>13. HandoutEarnsNothing'
  BY <1>2 DEF IInv, HandoutEarnsNothing
<1> QED BY <1>1, <1>2, <1>4, <1>10, <1>11, <1>12, <1>13 DEF IInv

LEMMA CallKeeps == IInv /\ Call => IInv'
<1> SUFFICES ASSUME IInv, Call PROVE IInv'
  OBVIOUS
<1>1. /\ phase = "call" /\ calls' = calls + 1
      /\ UNCHANGED <<test_fname, global_rating, timeout_limit, handout, argval, i,
                     arg_test_vals, points, max_points, alarm>>
  BY DEF Call, flags, score
<1>2. /\ Testing /\ terrors = 0 /\ alarm = timeout_limit
      /\ calls \in Nat /\ Calls \in Nat \ {0} /\ calls < Calls
      /\ agreed = {Combination(n) : n \in 0 .. calls - 1}
      /\ Combinations = {Combination(n) : n \in 0 .. Calls - 1}
  <2>1. Testing /\ Filled
    BY <1>1 DEF IInv, Testing
  <2> QED BY <1>1, <2>1, CombinationsAreCalled DEF IInv, Testing
<1>3. /\ Filled' = Filled /\ Made' = Made /\ Selected' = Selected
      /\ Calls' = Calls /\ Combinations' = Combinations
      /\ \A n : Combination(n)' = Combination(n)
  BY <1>1, TestUndisturbed
<1> DEFINE args == Combination(calls)
           name == test_set[i].name
<1>4. args \in Combinations
  BY <1>2
<1>5. HandoutEarnsNothing'
  BY <1>1 DEF IInv, HandoutEarnsNothing
<1>6. i' =< Len(test_set) /\ Selected' /\ Filled' /\ Made' /\ calls' \in 0 .. Calls'
  BY <1>1, <1>2, <1>3 DEF Testing
<1>7. CASE /\ "agree" \in Outcomes(args)
           /\ agreed' = agreed \cup {args}
           /\ IF calls' = Count(1) * Count(2) * Count(3)
                THEN ReturnErrors(0) ELSE UNCHANGED <<terrors, phase>>
  <2>1. agreed' = {Combination(n) : n \in 0 .. calls' - 1}
    <3>1. \A n : n \in 0 .. calls' - 1 <=> n \in 0 .. calls - 1 \/ n = calls
      BY <1>1, <1>2
    <3> QED BY <1>2, <1>7, <3>1
  <2>2. Known'
    <3> SUFFICES ASSUME handout, name \in Names, NEW c \in agreed \cup {args}
                 PROVE  Solution(name, c[1], c[2]) = Reference(name, c[1], c[2])
      BY <1>1, <1>7 DEF Known
    <3>1. CASE c \in agreed
      BY <1>2, <3>1 DEF Testing, Known
    <3>2. CASE c = args
      BY <1>7, <3>2 DEF Outcomes
    <3> QED BY <3>1, <3>2
  <2>3. terrors' = 0 /\ phase' = IF calls' = Calls THEN "returned" ELSE "call"
    BY <1>1, <1>2, <1>7 DEF ReturnErrors, Calls
  <2>4. Testing'
    BY <1>6, <2>2, <2>3 DEF Testing
  <2>5. Flags'
    BY <1>1, <2>3 DEF IInv, Flags, Phase
  <2>6. phase' = "call" => calls' < Calls'
    BY <1>1, <1>2, <1>3, <2>3
  <2>7. phase' = "returned" => Verdict'
    BY <1>1, <1>2, <1>3, <2>1, <2>3 DEF Verdict
  <2>8. agreed' = {Combination(n) : n \in 0 .. calls - 1}'
    BY <1>3, <2>1
  <2> QED BY <1>1, <1>2, <1>5, <2>3, <2>4, <2>5, <2>6, <2>7, <2>8 DEF IInv
<1>8. CASE "differ" \in Outcomes(args) /\ ReturnErrors(1) /\ UNCHANGED agreed
  <2>1. args \notin agreed
    BY <1>2, <1>8 DEF Outcomes, Testing, Known
  <2>2. terrors' = 1 /\ phase' = "returned" /\ agreed' = agreed
    BY <1>8 DEF ReturnErrors
  <2>3. Verdict'
    BY <1>3, <1>4, <2>1, <2>2 DEF Verdict
  <2>4. Known'
    BY <1>1, <1>2, <2>2 DEF Testing, Known
  <2>5. Testing'
    BY <1>6, <2>2, <2>4 DEF Testing
  <2>6. Flags'
    BY <1>1, <2>2 DEF IInv, Flags, Phase
  <2> QED BY <1>5, <2>2, <2>3, <2>5, <2>6 DEF IInv
<1>9. CASE /\ \/ "hang" \in Outcomes(args) /\ phase' = "hung"
              \/ "die" \in Outcomes(args) /\ phase' = "crashed"
           /\ UNCHANGED <<agreed, terrors>>
  <2>1. Known'
    BY <1>1, <1>2, <1>9 DEF Testing, Known
  <2>2. Testing'
    BY <1>2, <1>6, <1>9, <2>1 DEF Testing
  <2>3. Flags'
    BY <1>1, <1>9 DEF IInv, Flags, Phase
  <2> QED BY <1>1, <1>2, <1>5, <1>9, <2>2, <2>3 DEF IInv
<1> QED BY <1>7, <1>8, <1>9 DEF Call

LEMMA TimeoutKeeps == IInv /\ Timeout => IInv'
<1> SUFFICES ASSUME IInv, Timeout PROVE IInv'
  OBVIOUS
<1>1. /\ alarm /\ phase \in {"call", "hung"} /\ alarm' = FALSE
      /\ terrors' = 1 /\ phase' = "returned"
      /\ UNCHANGED <<test_fname, global_rating, timeout_limit, handout, argval, i,
                     arg_test_vals, calls, agreed, points, max_points>>
  BY DEF Timeout, ReturnErrors, flags, score
<1>2. Testing /\ timeout_limit
  BY <1>1 DEF IInv, Flags
<1>3. /\ Filled' = Filled /\ Made' = Made /\ Selected' = Selected /\ Calls' = Calls
      /\ Known' = Known
  BY <1>1, TestUndisturbed DEF Known
<1>4. Testing'
  BY <1>1, <1>2, <1>3 DEF Testing
<1>5. Verdict'
  <2>1. terrors' # 0 /\ ~alarm' /\ timeout_limit'
    BY <1>1, <1>2
  <2> QED BY <2>1 DEF Verdict
<1>6. Flags'
  BY <1>1 DEF IInv, Flags, Phase
<1>7. HandoutEarnsNothing'
  BY <1>1 DEF IInv, HandoutEarnsNothing
<1> QED BY <1>1, <1>4, <1>5, <1>6, <1>7 DEF IInv

LEMMA LateTimeoutKeeps == IInv /\ LateTimeout => IInv'
<1> SUFFICES ASSUME IInv, LateTimeout PROVE IInv'
  OBVIOUS
<1>1. /\ alarm /\ phase = "returned" /\ alarm' = FALSE
      /\ \/ terrors' = 1 /\ phase' = "returned"
         \/ terrors' = terrors /\ phase' = "crashed"
      /\ UNCHANGED <<test_fname, global_rating, timeout_limit, handout, argval, i,
                     arg_test_vals, calls, agreed, points, max_points>>
  BY DEF LateTimeout, ReturnErrors, flags, score
<1>2. Testing /\ timeout_limit
  BY <1>1 DEF IInv, Flags
<1>3. /\ Filled' = Filled /\ Made' = Made /\ Selected' = Selected /\ Calls' = Calls
      /\ Known' = Known
  BY <1>1, TestUndisturbed DEF Known
<1>4. Testing'
  BY <1>1, <1>2, <1>3 DEF Testing
<1>5. phase' = "returned" => Verdict'
  <2>1. (phase' = "returned" => terrors' # 0) /\ ~alarm' /\ timeout_limit'
    BY <1>1, <1>2
  <2> QED BY <2>1 DEF Verdict
<1>6. Flags'
  BY <1>1 DEF IInv, Flags, Phase
<1>7. HandoutEarnsNothing'
  BY <1>1 DEF IInv, HandoutEarnsNothing
<1> QED BY <1>1, <1>4, <1>5, <1>6, <1>7 DEF IInv

(* Among the values of a puzzle of bits.c are arguments that show its stub.  *)
LEMMA StubIsCaught ==
    ASSUME Testing, i \in 1 .. 11, argval = NULL
    PROVE  /\ test_set[i].name \in Names
           /\ \E c \in Combinations : Solution(test_set[i].name, c[1], c[2])
                                          # Reference(test_set[i].name, c[1], c[2])
<1> DEFINE test == test_set[i]
<1>1. test = Declared[i] /\ test.name \in Names
  <2>1. i \in DOMAIN Declared /\ test_set[i] = Declared[i]
    BY TableFacts
  <2> QED BY <2>1 DEF Names
<1>2. \A arg \in 1 .. 3 : arg_test_vals[arg] \in Seq(Int) /\ Range(arg_test_vals[arg]) # {}
  <2> SUFFICES ASSUME NEW arg \in 1 .. 3
               PROVE  arg_test_vals[arg] \in Seq(Int) /\ Range(arg_test_vals[arg]) # {}
    OBVIOUS
  <2>1. arg_test_vals[arg] \in Seq(Int) /\ Len(arg_test_vals[arg]) \in Nat \ {0}
    BY DEF Testing, Filled, Count
  <2>2. 1 \in DOMAIN arg_test_vals[arg]
    BY <2>1
  <2> QED BY <2>1, <2>2 DEF Range
<1>3. 0 \in Range(arg_test_vals[1])
  <2>1. /\ test.args >= 1
        /\ \/ test.arg_ranges[1] = <<0, 1>>
           \/ test.arg_ranges[1] = <<LongMin, LongMax>>
           \/ test.arg_ranges[1] = <<-LongMax, LongMax>>
    <3>1. i \in {1, 2, 3, 4, 5, 6, 7, 8, 9, 10, 11}
      OBVIOUS
    <3>2. \A k \in {2, 3, 4, 5, 6, 7, 8, 9, 10} :
              Declared[k].args >= 1 /\ Declared[k].arg_ranges[1] = <<LongMin, LongMax>>
      BY DEF Declared, Puzzle, All
    <3>3. Declared[1].args >= 1 /\ Declared[1].arg_ranges[1] = <<0, 1>>
      BY DEF Declared, Puzzle
    <3>4. Declared[11].args >= 1 /\ Declared[11].arg_ranges[1] = <<-LongMax, LongMax>>
      BY DEF Declared, Puzzle
    <3> QED BY <1>1, <3>1, <3>2, <3>3, <3>4
  <2>2. PICK min \in Int, max \in Int : /\ min = test.arg_ranges[1][1]
                                        /\ max = test.arg_ranges[1][2]
                                        /\ 0 \in min .. max /\ min # 1
    <3> DEFINE r == test.arg_ranges[1]
    <3>1. \/ r[1] = 0 /\ r[2] = 1
          \/ r[1] = LongMin /\ r[2] = LongMax
          \/ r[1] = -LongMax /\ r[2] = LongMax
      BY <2>1
    <3> HIDE DEF r
    <3>2. r[1] \in Int /\ r[2] \in Int /\ 0 \in r[1] .. r[2] /\ r[1] # 1
      BY <3>1, LongFacts
    <3> QED BY <3>2 DEF r
  <2>3. test.args \in 0 .. 3 /\ 1 =< test.args
    BY <2>1, TestSetIsSequence, TableFacts
  <2>4. Covers(arg_test_vals[1], NULL, min, max)
    <3>1. 1 \in 1 .. 3
      OBVIOUS
    <3> QED BY <2>2, <2>3, <3>1 DEF Testing, Made
  <2> QED BY <2>2, <2>4 DEF Covers
<1>4. test.name = "rotateLeft" => 0 \in Range(arg_test_vals[2])
  <2> SUFFICES ASSUME test.name = "rotateLeft" PROVE 0 \in Range(arg_test_vals[2])
    OBVIOUS
  <2>1. test.args = 2 /\ test.arg_ranges[2] = <<0, LongBits - 1>>
    <3>1. i \in {1, 2, 3, 4, 5, 6, 7, 8, 9, 10, 11}
      OBVIOUS
    <3>2. i = 8
      BY <1>1, <3>1 DEF Declared, Puzzle
    <3> QED BY <1>1, <3>2 DEF Declared, Puzzle
  <2>2. Covers(arg_test_vals[2], NULL, 0, LongBits - 1)
    <3>1. 2 \in 1 .. 3 /\ 2 =< test.args /\ 2 # 1
      BY <2>1
    <3>2. test.arg_ranges[2][1] = 0 /\ test.arg_ranges[2][2] = LongBits - 1
      BY <2>1
    <3>3. Covers(arg_test_vals[2], IF 2 = 1 THEN argval ELSE NULL,
                 test.arg_ranges[2][1], test.arg_ranges[2][2])
      BY <3>1 DEF Testing, Made
    <3> QED BY <3>1, <3>2, <3>3
  <2> QED BY <2>2 DEF Covers
<1>5. PICK y \in Range(arg_test_vals[2]) : test.name = "rotateLeft" => y = 0
  <2>1. 2 \in 1 .. 3
    OBVIOUS
  <2> QED BY <1>2, <1>4, <2>1
<1>6. PICK z : z \in Range(arg_test_vals[3])
  <2>1. 3 \in 1 .. 3
    OBVIOUS
  <2> QED BY <1>2, <2>1
<1> DEFINE c == <<0, y, z>>
<1>7. c \in Combinations /\ c[1] = 0 /\ c[2] = y
  BY <1>3, <1>5, <1>6 DEF Combinations
<1> HIDE DEF c, test
<1>8. Solution(test.name, c[1], c[2]) # Reference(test.name, c[1], c[2])
  BY <1>1, <1>5, <1>7, StubsAreWrong
<1> QED BY <1>1, <1>7, <1>8 DEF test

LEMMA RatingIsPositive == IInv /\ i =< Len(test_set) => Rating \in Nat
<1> SUFFICES ASSUME IInv, i =< Len(test_set) PROVE Rating \in Nat
  OBVIOUS
<1>1. global_rating \in Nat /\ i \in 1 .. Len(test_set)
  BY TestSetIsSequence, BTestAssumption DEF IInv, Flags
<1> QED BY <1>1, TestSetIsSequence DEF Rating

LEMMA ScoreKeeps == IInv /\ Score => IInv'
<1> SUFFICES ASSUME IInv, Score PROVE IInv'
  OBVIOUS
<1>1. /\ phase = "returned" /\ phase' = "next" /\ i' = i + 1 /\ alarm' = FALSE
      /\ points' = IF terrors = 0 THEN points + Rating ELSE points
      /\ max_points' = max_points + Rating
      /\ arg_test_vals' = None /\ calls' = 0 /\ agreed' = {} /\ terrors' = 0
      /\ UNCHANGED <<test_fname, global_rating, timeout_limit, handout, argval>>
  BY DEF Score, flags
<1>2. Testing /\ i \in 1 .. Len(test_set) /\ Rating \in Nat
  BY <1>1, RatingIsPositive, TestSetIsSequence DEF IInv, Testing, Flags
<1>3. Flags'
  <2>1. Flags
    BY DEF IInv
  <2>2. points' \in Nat /\ max_points' \in Nat /\ i' \in 1 .. Len(test_set) + 1
    BY <1>1, <1>2, <2>1, TestSetIsSequence DEF Flags
  <2>3. phase' \in Phase /\ alarm' \in BOOLEAN /\ ~alarm'
    BY <1>1 DEF Phase
  <2> QED BY <1>1, <2>1, <2>2, <2>3 DEF Flags
<1>4. Idle'
  BY <1>1 DEF Idle
<1>5. HandoutEarnsNothing'
  <2> SUFFICES ASSUME handout, argval = NULL,
                      test_fname \in DOMAIN Declared \/ i' =< Len(Declared) + 1
               PROVE  points' = 0
    BY <1>1 DEF HandoutEarnsNothing
  <2>1. Len(Declared) = 11 /\ i \in Int
    BY <1>2, TestSetIsSequence DEF Declared
  <2>2. i \in 1 .. 11 /\ points = 0
    <3>1. CASE test_fname \in DOMAIN Declared
      <4>1. i \in DOMAIN Declared
        <5>1. ~(0 \in DOMAIN Declared)
          BY TableFacts
        <5> QED BY <1>2, <3>1, <5>1 DEF Testing, Selected
      <4>2. points = 0
        BY <3>1 DEF IInv, HandoutEarnsNothing
      <4> QED BY <4>1, <4>2, TableFacts
    <3>2. CASE i' =< Len(Declared) + 1
      <4>1. i =< 11 /\ i =< Len(Declared) + 1
        BY <1>1, <2>1, <3>2
      <4> QED BY <1>2, <2>1, <4>1 DEF IInv, HandoutEarnsNothing
    <3> QED BY <3>1, <3>2
  <2>3. agreed # Combinations
    BY <1>2, <2>2, StubIsCaught DEF Testing, Known
  <2>4. terrors # 0
    BY <1>1, <2>3 DEF IInv, Verdict
  <2> QED BY <1>1, <2>2, <2>4
<1> QED BY <1>1, <1>3, <1>4, <1>5 DEF IInv

LEMMA StepKeeps == IInv /\ [Next]_vars => IInv'
<1> SUFFICES ASSUME IInv, [Next]_vars PROVE IInv'
  OBVIOUS
<1>1. CASE Skip
  BY <1>1, SkipKeeps
<1>2. CASE StartTest
  BY <1>2, StartTestKeeps
<1>3. CASE Call
  BY <1>3, CallKeeps
<1>4. CASE Score
  BY <1>4, ScoreKeeps
<1>5. CASE Finish
  BY <1>5, FinishKeeps
<1>6. CASE Timeout
  BY <1>6, TimeoutKeeps
<1>7. CASE LateTimeout
  BY <1>7, LateTimeoutKeeps
<1>8. CASE UNCHANGED vars
  BY <1>8, StutterKeeps
<1>9. Ended => UNCHANGED vars
  BY DEF Ended
<1> QED BY <1>1, <1>2, <1>3, <1>4, <1>5, <1>6, <1>7, <1>8, <1>9 DEF Next, Run

(* The variables keep their types.                                           *)
LEMMA Typed == IInv => TypeOK
<1> SUFFICES ASSUME IInv PROVE TypeOK
  OBVIOUS
<1>1. phase \in {"next", "exited"} \/ phase \in {"call", "hung", "returned", "crashed"}
  BY DEF IInv, Flags, Phase
<1>2. CASE phase \in {"next", "exited"}
  <2>1. /\ arg_test_vals[1] = <<>> /\ arg_test_vals[2] = <<>> /\ arg_test_vals[3] = <<>>
        /\ calls = 0 /\ terrors = 0
    BY <1>2 DEF IInv, Idle, None
  <2>2. \A arg \in 1 .. 3 : Range(arg_test_vals[arg]) \subseteq Int
    <3>1. \A arg \in 1 .. 3 : arg = 1 \/ arg = 2 \/ arg = 3
      OBVIOUS
    <3>2. Range(<<>>) \subseteq Int
      BY DEF Range
    <3> QED BY <2>1, <3>1, <3>2
  <2>3. calls \in 0 .. Count(1) * Count(2) * Count(3)
    <3>1. Count(1) = 0 /\ Count(2) = 0 /\ Count(3) = 0
      BY <2>1 DEF Count
    <3> QED BY <2>1, <3>1
  <2> QED BY <2>1, <2>2, <2>3 DEF IInv, Flags, TypeOK
<1>3. CASE phase \in {"call", "hung", "returned", "crashed"}
  <2>1. Testing
    BY <1>3 DEF IInv
  <2>2. \A arg \in 1 .. 3 : Range(arg_test_vals[arg]) \subseteq Int
    BY <2>1 DEF Testing, Filled, Range
  <2>3. calls \in 0 .. Count(1) * Count(2) * Count(3)
    BY <2>1 DEF Testing, Calls
  <2> QED BY <2>1, <2>2, <2>3 DEF IInv, Flags, Testing, TypeOK
<1> QED BY <1>1, <1>2, <1>3

LEMMA RangesCovered == IInv => ValuesCoverRange
<1> SUFFICES ASSUME IInv, phase = "call", NEW arg \in 1 .. test_set[i].args
             PROVE  LET vals == Range(arg_test_vals[arg])
                        min  == test_set[i].arg_ranges[arg][1]
                        max  == test_set[i].arg_ranges[arg][2]
                    IN  /\ Count(arg) =< MaxTestVals
                        /\ \/ arg = 1 /\ argval # NULL
                           \/ min = 1 /\ max = 1 /\ vals \subseteq 0 .. 2 * sign - 1
                           \/ /\ {min, max} \subseteq vals
                              /\ 0 \in min .. max => 0 \in vals
                              /\ max - min =< MaxTestVals => vals = min .. max
  BY Zenon DEF ValuesCoverRange
<1>1. arg \in 1 .. 3 /\ arg =< test_set[i].args
  <2>1. i \in 1 .. Len(test_set)
    BY TestSetIsSequence DEF IInv, Flags, Testing
  <2> QED BY <2>1, TestSetIsSequence
<1>2. Covers(arg_test_vals[arg], IF arg = 1 THEN argval ELSE NULL,
             test_set[i].arg_ranges[arg][1], test_set[i].arg_ranges[arg][2])
  BY <1>1 DEF IInv, Testing, Made
<1>3. MaxTestVals \in Nat
  BY BTestAssumption
<1>4. Count(arg) =< MaxTestVals
  BY <1>2, <1>3 DEF Covers, Count
<1> QED BY <1>2, <1>4 DEF Covers

LEMMA Earned ==
    IInv /\ [Next]_vars =>
        [(phase = "returned" /\ phase' = "next") =>
          /\ max_points' = max_points + Rating
          /\ points' - points =
                IF /\ agreed = {<<a, b, c>> : a \in Range(arg_test_vals[1]),
                                              b \in Range(arg_test_vals[2]),
                                              c \in Range(arg_test_vals[3])}
                   /\ alarm = timeout_limit
                  THEN Rating ELSE 0]_vars
<1> SUFFICES ASSUME IInv, [Next]_vars, phase = "returned", phase' = "next"
             PROVE  /\ max_points' = max_points + Rating
                    /\ points' - points = IF agreed = Combinations /\ alarm = timeout_limit
                                            THEN Rating ELSE 0
  BY DEF Combinations
<1>1. Score
  BY DEF Next, Run, Skip, StartTest, Call, Finish, Timeout, LateTimeout, Ended, ReturnErrors, vars
<1>2. /\ Testing /\ Rating \in Nat /\ points \in Nat /\ Verdict
  BY RatingIsPositive DEF IInv, Testing, Flags
<1> QED BY <1>1, <1>2 DEF Score, Verdict

(* What IInv says holds whatever rand, the solutions and the alarm do.       *)
THEOREM Invariant == Spec => []IInv
BY Initially, StepKeeps, PTL DEF Spec

(* The tester's variables keep their types: no call is counted that the      *)
(* three loops (btest.c:381-414) do not make.                                *)
THEOREM TypeCorrect == Spec => []TypeOK
BY Invariant, Typed, PTL

(* While a puzzle is tested, what gen_vals (btest.c:121-222) makes for each  *)
(* argument fits its array, which it never checks, is all of a range that    *)
(* the array can hold and has the ends and the zero of any other, for every  *)
(* word size and every rand.                                                 *)
THEOREM ValuesAlwaysCover == Spec => []ValuesCoverRange
BY Invariant, RangesCovered, PTL

(* The stubs of bits.c, which all return 2, are paid for no puzzle of decl.c *)
(* (btest.c:438-441): among the combinations of every puzzle is one that     *)
(* shows its stub.                                                           *)
THEOREM HandoutNeverEarns == Spec => []HandoutEarnsNothing
<1>1. IInv => HandoutEarnsNothing
  BY DEF IInv
<1> QED BY Invariant, <1>1, PTL

(* run_tests (btest.c:433-442) pays a puzzle's rating exactly when all       *)
(* combinations of its values agreed and no alarm went off.                  *)
THEOREM PointsAlwaysEarned == Spec => PointsAreEarned
BY Invariant, Earned, PTL DEF Spec, PointsAreEarned

-----------------------------------------------------------------------------
(* Bits of words.                                                            *)

LEMMA BitValues ==
    ASSUME NEW x \in Int, NEW k \in Nat
    PROVE  Bit(x, k) \in {0, 1}
<1>1. PICK p \in Nat \ {0} : p = Pow2[k]
  BY Pow2Values
<1>2. PICK q \in Int : q = x \div p
  OBVIOUS
<1>3. q % 2 \in {0, 1}
  OBVIOUS
<1> QED BY <1>1, <1>2, <1>3 DEF Bit

LEMMA BitFromQuotient ==
    ASSUME NEW k \in Nat, NEW q \in Int, NEW r \in 0 .. Pow2[k] - 1,
           NEW x \in Int, x = (Pow2[k] * q) + r
    PROVE  Bit(x, k) = q % 2
<1>1. Pow2[k] \in Nat \ {0}
  BY Pow2Values
<1>2. x \div Pow2[k] = q
  <2>1. ((Pow2[k] * q) + r) \div Pow2[k] = q
    BY <1>1, DivisionUnique
  <2> QED BY <2>1
<1> QED BY <1>2 DEF Bit

(* One more bit of a remainder.                                              *)
LEMMA RemainderStep ==
    ASSUME NEW x \in Int, NEW k \in Nat
    PROVE  /\ x % Pow2[k + 1] = (x % Pow2[k]) + (IF Bit(x, k) = 1 THEN Pow2[k] ELSE 0)
           /\ x % Pow2[k] \in 0 .. Pow2[k] - 1
<1>1. PICK p \in Nat \ {0} : p = Pow2[k] /\ Pow2[k + 1] = 2 * p
  BY Pow2Values
<1>2. PICK q \in Int, r \in 0 .. p - 1 : x = (p * q) + r /\ q = x \div p /\ r = x % p
  <2>1. x \div p \in Int /\ x % p \in 0 .. p - 1
    OBVIOUS
  <2> QED BY <2>1, Division
<1>3. PICK s \in Int, b \in {0, 1} : q = (2 * s) + b /\ b = q % 2
  <2>1. q \div 2 \in Int /\ q % 2 \in {0, 1} /\ q = (2 * (q \div 2)) + (q % 2)
    OBVIOUS
  <2> QED BY <2>1
<1>4. Bit(x, k) = b
  BY <1>1, <1>2, <1>3 DEF Bit
<1>5. x = ((2 * p) * s) + ((p * b) + r)
  <2>1. p * ((2 * s) + b) = ((2 * p) * s) + (p * b)
    BY <1>3
  <2>2. PICK u \in Int : u = (2 * p) * s
    OBVIOUS
  <2>3. PICK w \in Int : w = p * b
    BY <1>3
  <2>4. p * q = u + w
    BY <1>3, <2>1, <2>2, <2>3
  <2> QED BY <1>2, <2>2, <2>3, <2>4
<1>6. PICK w \in 0 .. (2 * p) - 1 : w = (p * b) + r /\ w = r + (IF b = 1 THEN p ELSE 0)
  <2>1. CASE b = 0
    <3>1. p * b = 0
      BY <2>1
    <3> QED BY <2>1, <3>1
  <2>2. CASE b = 1
    <3>1. p * b = p
      BY <2>2
    <3> QED BY <2>2, <3>1
  <2> QED BY <2>1, <2>2
<1>7. x % (2 * p) = w
  <2>1. 2 * p \in Nat \ {0}
    OBVIOUS
  <2>2. (((2 * p) * s) + w) % (2 * p) = w
    BY <2>1, DivisionUnique
  <2> QED BY <1>5, <1>6, <2>2
<1> QED BY <1>1, <1>2, <1>4, <1>6, <1>7

(* Bits that are zero add nothing to a remainder.                            *)
LEMMA ZeroBits ==
    ASSUME NEW x \in Int, NEW a \in Nat, NEW b \in Nat, a =< b,
           \A j \in a .. b - 1 : Bit(x, j) = 0
    PROVE  x % Pow2[b] = x % Pow2[a]
<1> DEFINE T == {k \in a .. b : x % Pow2[k] # x % Pow2[a]}
<1> SUFFICES ASSUME T # {} PROVE FALSE
  OBVIOUS
<1>1. PICK k \in T : \A j \in T : k =< j
  <2>1. T \in SUBSET Nat
    OBVIOUS
  <2> HIDE DEF T
  <2> QED BY <2>1, LeastNatural
<1>2. k # a
  BY <1>1
<1>3. k - 1 \in a .. b - 1 /\ k - 1 \in Nat /\ k - 1 \in a .. b /\ ~(k =< k - 1) /\ (k - 1) + 1 = k
  BY <1>1, <1>2
<1>4. x % Pow2[k - 1] = x % Pow2[a]
  BY <1>1, <1>3
<1>5. PICK j \in Nat : j = k - 1
  BY <1>3
<1>6. x % Pow2[j + 1] = (x % Pow2[j]) + 0 /\ x % Pow2[j] \in 0 .. Pow2[j] - 1
  <2>1. Bit(x, j) = 0
    BY <1>3, <1>5
  <2>2. /\ x % Pow2[j + 1] = (x % Pow2[j]) + (IF Bit(x, j) = 1 THEN Pow2[j] ELSE 0)
        /\ x % Pow2[j] \in 0 .. Pow2[j] - 1
    BY RemainderStep
  <2> QED BY <2>1, <2>2
<1>7. PICK p \in Nat : p = Pow2[j]
  BY Pow2Values
<1>8. x % Pow2[j + 1] = x % Pow2[j]
  BY <1>6, <1>7
<1> QED BY <1>1, <1>3, <1>4, <1>5, <1>8

LEMMA RemainderOfZero ==
    ASSUME NEW x \in Int
    PROVE  x % Pow2[0] = 0
BY Pow2Values

LEMMA BitsOfPower ==
    ASSUME NEW k \in Nat, NEW j \in Nat
    PROVE  /\ Bit(Pow2[k], j) = IF j = k THEN 1 ELSE 0
           /\ j =< k => Bit(-Pow2[k], j) = IF j = k THEN 1 ELSE 0
<1>1. PICK p \in Nat \ {0} : p = Pow2[j]
  BY Pow2Values
<1>2. PICK w \in Nat \ {0} : w = Pow2[k]
  BY Pow2Values
<1>3. CASE j > k
  <2>1. w < p
    <3>1. k + 1 =< j /\ k + 1 \in Nat
      BY <1>3
    <3>2. Pow2[k + 1] =< p /\ Pow2[k + 1] = 2 * w
      BY <1>1, <1>2, <3>1, Pow2Grows, Pow2Values
    <3> QED BY <3>2
  <2>2. 0 \in Int /\ w = (p * 0) + w /\ w \in 0 .. p - 1 /\ 0 % 2 = 0
    BY <2>1
  <2>3. Bit(w, j) = 0
    BY <1>1, <2>2, BitFromQuotient
  <2> QED BY <1>2, <1>3, <2>3
<1>4. CASE j =< k
  <2>1. k - j \in Nat
    BY <1>4
  <2>2. PICK q \in Nat \ {0} : q = Pow2[k - j]
    BY <2>1, Pow2Values
  <2>3. w = p * q
    BY <1>1, <1>2, <1>4, <2>2, Pow2Grows
  <2>4. q % 2 = (IF j = k THEN 1 ELSE 0) /\ (-q) % 2 = (IF j = k THEN 1 ELSE 0)
    <3>1. CASE j = k
      <4>1. q = 1
        BY <2>2, <3>1, Pow2Values
      <4>2. 1 % 2 = 1 /\ (-1) % 2 = 1
        <5>0. 2 \in Nat \ {0} /\ 1 \in 0 .. 2 - 1 /\ -1 \in Int
          OBVIOUS
        <5>1. ((2 * (-1)) + 1) % 2 = 1
          BY <5>0, DivisionUnique
        <5>2. (2 * (-1)) + 1 = -1
          OBVIOUS
        <5> QED BY <5>1, <5>2
      <4> QED BY <3>1, <4>1, <4>2
    <3>2. CASE j # k
      <4>1. k - j \in Nat \ {0} /\ (k - j) - 1 \in Nat
        BY <1>4, <3>2
      <4>2. PICK h \in Nat : h = Pow2[(k - j) - 1] /\ q = 2 * h
        BY <2>2, <4>1, Pow2Values
      <4> QED BY <3>2, <4>2
    <3> QED BY <3>1, <3>2
  <2>5. 0 \in 0 .. p - 1 /\ q \in Int /\ -q \in Int /\ p * q \in Int /\ w = (p * q) + 0
        /\ -w = (p * (-q)) + 0 /\ -w \in Int /\ w \in Int
    <3>1. 0 \in 0 .. p - 1 /\ q \in Int /\ -q \in Int /\ p * q \in Int
      OBVIOUS
    <3>2. p * (-q) = -(p * q)
      BY SMTT(30)
    <3>3. PICK u \in Int : u = p * q
      BY <3>1
    <3> QED BY <2>3, <3>1, <3>2, <3>3
  <2>6. Bit(w, j) = q % 2
    <3>1. PICK o \in Int : o = q
      OBVIOUS
    <3>2. PICK v \in Int : v = w /\ v = (p * o) + 0
      BY <2>5, <3>1
    <3>3. v = (Pow2[j] * o) + 0 /\ 0 \in 0 .. Pow2[j] - 1
      BY <1>1, <2>5, <3>2
    <3>4. Bit(v, j) = o % 2
      BY <3>3, BitFromQuotient
    <3> QED BY <3>1, <3>2, <3>4
  <2>7. Bit(-w, j) = (-q) % 2
    <3>1. PICK o \in Int : o = -q
      OBVIOUS
    <3>2. PICK v \in Int : v = -w /\ v = (p * o) + 0
      BY <2>5, <3>1
    <3>3. v = (Pow2[j] * o) + 0 /\ 0 \in 0 .. Pow2[j] - 1
      BY <1>1, <2>5, <3>2
    <3>4. Bit(v, j) = o % 2
      BY <3>3, BitFromQuotient
    <3> QED BY <3>1, <3>2, <3>4
  <2> QED BY <1>2, <2>4, <2>6, <2>7
<1> QED BY <1>3, <1>4

(* Words that differ by multiples of 2 ^ LongBits have the same bits.        *)
LEMMA CongruentBits ==
    ASSUME NEW x \in Int, NEW m \in Int, NEW k \in Positions
    PROVE  Bit(x + (Pow2[LongBits] * m), k) = Bit(x, k)
<1>1. /\ k \in Nat /\ LongBits - k \in Nat \ {0} /\ (LongBits - k) - 1 \in Nat
      /\ k =< LongBits /\ LongBits \in Nat
  BY LongFacts DEF Positions
<1>2. PICK p \in Nat \ {0} : p = Pow2[k]
  BY <1>1, Pow2Values
<1>3. PICK h \in Nat \ {0} : h = Pow2[(LongBits - k) - 1] /\ Pow2[LongBits - k] = 2 * h
  BY <1>1, Pow2Values
<1>4. Pow2[LongBits] = p * (2 * h)
  BY <1>1, <1>2, <1>3, Pow2Grows
<1>5. PICK q \in Int, r \in 0 .. p - 1 : x = (p * q) + r
  <2>1. x \div p \in Int /\ x % p \in 0 .. p - 1
    OBVIOUS
  <2> QED BY <2>1, Division
<1>6. PICK s \in Int : s = q + (2 * (h * m))
  OBVIOUS
<1>7. x + (Pow2[LongBits] * m) = (p * s) + r
  <2>1. (p * (2 * h)) * m = p * (2 * (h * m))
    OBVIOUS
  <2>2. PICK z \in Int : z = 2 * (h * m)
    OBVIOUS
  <2>3. p * (q + z) = (p * q) + (p * z)
    OBVIOUS
  <2>4. PICK u \in Int : u = p * q
    OBVIOUS
  <2>5. PICK v \in Int : v = p * z
    OBVIOUS
  <2>6. p * s = u + v
    BY <1>6, <2>2, <2>3, <2>4, <2>5
  <2>7. Pow2[LongBits] * m = v
    BY <1>4, <2>1, <2>2, <2>5
  <2> QED BY <1>5, <2>4, <2>6, <2>7
<1>8. s % 2 = q % 2
  <2>1. PICK z \in Int : z = h * m
    OBVIOUS
  <2>2. s = q + (2 * z)
    BY <1>6, <2>1
  <2> QED BY <2>2
<1>9. p * s \in Int /\ (p * s) + r \in Int
  OBVIOUS
<1>10. Bit((p * s) + r, k) = s % 2 /\ Bit(x, k) = q % 2
  BY <1>1, <1>2, <1>5, <1>9, BitFromQuotient
<1> QED BY <1>7, <1>8, <1>10

LEMMA WrapKeepsBits ==
    ASSUME NEW x \in Int, NEW k \in Positions
    PROVE  Bit(Wrap(x), k) = Bit(x, k) /\ Bit(x % Pow2[LongBits], k) = Bit(x, k)
<1>1. PICK m \in Nat \ {0}, l \in Int : m = Pow2[LongBits] /\ l = LongMin
  BY LongFacts, Pow2Values
<1>2. ASSUME NEW y \in Int
      PROVE  \E q \in Int : y % m = y + (m * q)
  <2>1. PICK q \in Int : q = y \div m /\ y = (m * q) + (y % m)
    <3>1. y \div m \in Int
      OBVIOUS
    <3> QED BY <3>1, Division
  <2>2. PICK u \in Int, o \in Int : u = m * q /\ o = -q /\ m * o = -u
    <3>1. m * (-q) = -(m * q) /\ -q \in Int /\ m * q \in Int
      OBVIOUS
    <3> QED BY <3>1
  <2>3. PICK r \in Int : r = y % m
    OBVIOUS
  <2>4. y % m = y + (m * o)
    BY <2>1, <2>2, <2>3
  <2> QED BY <2>4
<1>3. PICK q \in Int : (x - l) % m = (x - l) + (m * q)
  <2>1. x - l \in Int
    OBVIOUS
  <2> HIDE DEF Positions
  <2> QED BY <1>2, <2>1
<1>4. Wrap(x) = x + (m * q)
  <2>1. m * q \in Int
    OBVIOUS
  <2> QED BY <1>1, <1>3, <2>1 DEF Wrap
<1>5. PICK s \in Int : x % m = x + (m * s)
  BY <1>2
<1> QED BY <1>1, <1>4, <1>5, CongruentBits

-----------------------------------------------------------------------------
(* The references of tests.c, puzzle by puzzle.                              *)

LEMMA WordFacts ==
    \E h \in Nat \ {0} :
        /\ LongMin = -h /\ LongMax = h - 1 /\ h >= 2
        /\ Pow2[LongBits] = 2 * h /\ Pow2[LongBits - 1] = h
        /\ \A x : x \in Long <=> x \in -h .. h - 1
<1>1. LongMin \in Int /\ LongMin =< -2 /\ LongMax = -LongMin - 1
  BY LongFacts
<1>2. -LongMin \in Nat \ {0}
  BY <1>1
<1> QED BY <1>1, <1>2, LongFacts DEF Long

LEMMA WrapNegation ==
    ASSUME NEW x \in Long
    PROVE  Wrap(-x) = IF x = LongMin THEN LongMin ELSE -x
<1>1. PICK h \in Nat \ {0} : /\ LongMin = -h /\ LongMax = h - 1 /\ h >= 2
                             /\ Pow2[LongBits] = 2 * h
                             /\ \A y : y \in Long <=> y \in -h .. h - 1
  BY WordFacts
<1>2. x \in -h .. h - 1
  BY <1>1
<1>3. CASE x = LongMin
  <2>1. Wrap(-x) = ((h + h) % (2 * h)) - h
    BY <1>1, <1>3 DEF Wrap
  <2>2. (h + h) % (2 * h) = 0
    <3>1. 2 * h \in Nat \ {0} /\ 1 \in Int /\ 0 \in 0 .. (2 * h) - 1 /\ ((2 * h) * 1) + 0 = h + h
      OBVIOUS
    <3>2. (((2 * h) * 1) + 0) % (2 * h) = 0
      BY <3>1, DivisionUnique
    <3> QED BY <3>1, <3>2
  <2> QED BY <1>1, <1>3, <2>1, <2>2
<1>4. CASE x # LongMin
  <2>1. -x \in Int /\ -x \in Long
    BY <1>1, <1>2, <1>4
  <2> QED BY <1>4, <2>1, WrapValues
<1> QED BY <1>3, <1>4

LEMMA NegationIsDistinct ==
    ASSUME NEW x \in Long
    PROVE  test_distinctNegation(x) = Truth(x \notin {0, LongMin})
<1>1. x \in Int /\ LongMin \in Int /\ LongMin # 0
  BY LongFacts
<1>2. x # Wrap(-x) <=> x \notin {0, LongMin}
  BY <1>1, WrapNegation
<1> QED BY <1>2 DEF test_distinctNegation, Truth

LEMMA AbsoluteValue ==
    ASSUME NEW x \in Long, x # LongMin
    PROVE  test_absVal(x) = Magnitude(x)
BY WrapNegation DEF test_absVal, Magnitude

LEMMA SumFits ==
    ASSUME NEW x \in Long, NEW y \in Long
    PROVE  test_addOK(x, y) = Truth(x + y \in Long)
<1>1. x + y \in Int
  BY LongFacts
<1>2. x + y = Wrap(x + y) <=> x + y \in Long
  BY <1>1, WrapValues
<1> QED BY <1>2 DEF test_addOK, Truth

LEMMA FitsInBits ==
    ASSUME NEW x \in Long, NEW y \in 1 .. LongBits
    PROVE  test_fitsBits(x, y) = Truth(x \in -(Pow2[y - 1]) .. Pow2[y - 1] - 1)
<1>1. PICK h \in Nat \ {0} : /\ LongMin = -h /\ LongMax = h - 1 /\ h >= 2
                             /\ Pow2[LongBits] = 2 * h /\ Pow2[LongBits - 1] = h
                             /\ \A z : z \in Long <=> z \in -h .. h - 1
  BY WordFacts
<1>2. y - 1 \in Nat /\ LongBits - 1 \in Nat /\ y - 1 =< LongBits - 1
  BY LongFacts
<1>3. PICK p \in Nat \ {0} : p = Pow2[y - 1] /\ p =< h
  BY <1>1, <1>2, Pow2Values, Pow2Grows
<1>4. Wrap(-Wrap(p)) = -p
  <2>1. CASE p = h
    <3>1. Wrap(h) = -h
      <4>1. Wrap(-LongMin) = LongMin
        <5>1. LongMin \in Long
          BY <1>1
        <5> QED BY <5>1, WrapNegation
      <4>2. -LongMin = h
        BY <1>1
      <4> QED BY <1>1, <4>1, <4>2
    <3>2. Wrap(-(-h)) = -h
      <4>1. -(-h) = h
        OBVIOUS
      <4> QED BY <3>1, <4>1
    <3> QED BY <2>1, <3>1, <3>2
  <2>2. CASE p # h
    <3>1. p \in Int /\ p \in Long /\ -p \in Int /\ -p \in Long
      BY <1>1, <1>3, <2>2
    <3> QED BY <3>1, WrapValues
  <2> QED BY <2>1, <2>2
<1>5. x \in Int
  BY LongFacts
<1>6. (x >= Wrap(-Wrap(Pow2[y - 1])) /\ x =< Pow2[y - 1] - 1)
          <=> x \in -(Pow2[y - 1]) .. Pow2[y - 1] - 1
  BY <1>3, <1>4, <1>5
<1> QED BY <1>6 DEF test_fitsBits, Truth

LEMMA FiveEighths ==
    ASSUME NEW x \in Int
    PROVE  LET v == test_trueFiveEighths(x)
           IN  /\ 8 * Magnitude(v) \in 5 * Magnitude(x) - 7 .. 5 * Magnitude(x)
               /\ v * x >= 0
<1>1. PICK v \in Int : v = test_trueFiveEighths(x)
  <2>1. (5 * x) \div 8 \in Int /\ -((-(5 * x)) \div 8) \in Int
    OBVIOUS
  <2> QED BY <2>1 DEF test_trueFiveEighths, Truncate
<1>2. CASE x >= 0
  <2>1. v = (5 * x) \div 8
    BY <1>1, <1>2 DEF test_trueFiveEighths, Truncate
  <2>2. v >= 0 /\ 8 * v \in 5 * x - 7 .. 5 * x
    BY <1>2, <2>1
  <2>3. v * x >= 0
    BY <1>2, <2>2
  <2>4. Magnitude(x) = x /\ Magnitude(v) = v
    BY <1>2, <2>2 DEF Magnitude
  <2> QED BY <1>1, <2>2, <2>3, <2>4
<1>3. CASE x < 0
  <2>1. v = -((-(5 * x)) \div 8)
    BY <1>1, <1>3 DEF test_trueFiveEighths, Truncate
  <2>2. v =< 0 /\ 8 * (-v) \in 5 * (-x) - 7 .. 5 * (-x)
    BY <1>3, <2>1
  <2>3. v * x >= 0
    BY <1>3, <2>2
  <2>4. Magnitude(x) = -x /\ Magnitude(v) = -v
    BY <1>3, <2>2 DEF Magnitude
  <2> QED BY <1>1, <2>2, <2>3, <2>4
<1> QED BY <1>2, <1>3

LEMMA Palindrome ==
    ASSUME NEW x
    PROVE  test_isPalindrome(x)
               = Truth(\A k \in Positions : Bit(x, k) = Bit(x, LongBits - 1 - k))
<1>1. PICK h \in Nat : h = LongBits \div 2 /\ LongBits = 2 * h
  BY WordAssumption
<1>2. (\A k \in 0 .. h - 1 : Bit(x, h + k) = Bit(x, h - 1 - k))
          <=> \A k \in Positions : Bit(x, k) = Bit(x, LongBits - 1 - k)
  <2>1. ASSUME \A k \in 0 .. h - 1 : Bit(x, h + k) = Bit(x, h - 1 - k),
               NEW k \in Positions
        PROVE  Bit(x, k) = Bit(x, LongBits - 1 - k)
    <3>1. CASE k >= h
      <4>1. PICK j \in 0 .. h - 1 : j = k - h
        BY <1>1, <3>1 DEF Positions
      <4>2. k = h + j /\ LongBits - 1 - k = h - 1 - j
        BY <1>1, <4>1 DEF Positions
      <4> QED BY <2>1, <4>1, <4>2
    <3>2. CASE k < h
      <4>1. PICK j \in 0 .. h - 1 : j = h - 1 - k
        BY <1>1, <3>2 DEF Positions
      <4>2. k = h - 1 - j /\ LongBits - 1 - k = h + j
        BY <1>1, <4>1 DEF Positions
      <4> QED BY <2>1, <4>1, <4>2
    <3> QED BY <1>1, <3>1, <3>2 DEF Positions
  <2>2. ASSUME \A k \in Positions : Bit(x, k) = Bit(x, LongBits - 1 - k),
               NEW k \in 0 .. h - 1
        PROVE  Bit(x, h + k) = Bit(x, h - 1 - k)
    <3>1. h + k \in Positions /\ LongBits - 1 - (h + k) = h - 1 - k
      BY <1>1 DEF Positions
    <3> QED BY <2>2, <3>1
  <2> QED BY <2>1, <2>2
<1> QED BY <1>1, <1>2 DEF test_isPalindrome, Truth

LEMMA RemainderOfWord ==
    ASSUME NEW x \in Long, x % Pow2[LongBits] = 0
    PROVE  x = 0
<1>1. PICK h \in Nat \ {0} : /\ Pow2[LongBits] = 2 * h
                             /\ \A y : y \in Long <=> y \in -h .. h - 1
  BY WordFacts
<1>2. x \in Int /\ x \in -h .. h - 1 /\ 2 * h \in Nat \ {0}
  BY <1>1
<1>3. PICK q \in Int : q = x \div (2 * h) /\ x = ((2 * h) * q) + (x % (2 * h))
  <2> DEFINE w == 2 * h
  <2>1. w \in Nat \ {0}
    BY <1>2
  <2> HIDE DEF w
  <2>2. x \div w \in Int /\ x = (w * (x \div w)) + (x % w)
    BY <1>2, <2>1, Division
  <2> QED BY <2>2 DEF w
<1>4. PICK u \in Int : u = (2 * h) * q
  OBVIOUS
<1>5. x = u
  BY <1>1, <1>3, <1>4
<1>6. (q >= 1 => u >= 2 * h) /\ (q =< -1 => u =< -(2 * h))
  BY <1>4
<1>7. q = 0
  BY <1>2, <1>5, <1>6
<1> QED BY <1>4, <1>5, <1>7

LEMMA LeastOne ==
    ASSUME NEW x \in Long, x # 0
    PROVE  \E k \in Positions : Bit(x, k) = 1 /\ \A j \in 0 .. k - 1 : Bit(x, j) = 0
<1>1. x \in Int /\ LongBits \in Nat /\ Positions \subseteq Nat
  BY LongFacts DEF Positions
<1>2. Ones(x) # {}
  <2> SUFFICES ASSUME Ones(x) = {} PROVE FALSE
    OBVIOUS
  <2>1. \A j \in 0 .. LongBits - 1 : Bit(x, j) = 0
    BY <1>1, BitValues DEF Ones, Positions
  <2>2. 0 \in Nat /\ 0 =< LongBits
    BY <1>1
  <2>3. x % Pow2[LongBits] = x % Pow2[0]
    BY <1>1, <2>1, <2>2, ZeroBits
  <2> QED BY <1>1, <2>3, RemainderOfZero, RemainderOfWord
<1>3. PICK k \in Ones(x) : \A j \in Ones(x) : k =< j
  <2>1. Ones(x) \in SUBSET Nat
    BY <1>1 DEF Ones
  <2> QED BY <1>2, <2>1, LeastNatural
<1>4. k \in Positions /\ Bit(x, k) = 1 /\ k \in Nat
  BY <1>1, <1>3 DEF Ones
<1>5. ASSUME NEW j \in 0 .. k - 1 PROVE Bit(x, j) = 0
  <2>1. j \in Nat /\ j \in Positions /\ ~(k =< j)
    BY <1>1, <1>4 DEF Positions
  <2>2. Bit(x, j) # 1
    BY <1>3, <2>1 DEF Ones
  <2> QED BY <1>1, <2>1, <2>2, BitValues
<1> QED BY <1>4, <1>5

LEMMA RemaindersAtLeastOne ==
    ASSUME NEW x \in Int, NEW k \in Nat, Bit(x, k) = 1, \A j \in 0 .. k - 1 : Bit(x, j) = 0
    PROVE  x % Pow2[k + 1] = Pow2[k]
<1>1. 0 \in Nat /\ 0 =< k
  OBVIOUS
<1>2. x % Pow2[k] = 0
  BY <1>1, ZeroBits, RemainderOfZero
<1>3. x % Pow2[k + 1] = (x % Pow2[k]) + Pow2[k]
  <2>1. x % Pow2[k + 1] = (x % Pow2[k]) + (IF Bit(x, k) = 1 THEN Pow2[k] ELSE 0)
    BY RemainderStep
  <2> QED BY <2>1
<1>4. Pow2[k] \in Nat
  BY Pow2Values
<1> QED BY <1>2, <1>3, <1>4

LEMMA OnesOfPower ==
    ASSUME NEW k \in Positions
    PROVE  /\ Ones(Pow2[k]) = {k}
           /\ Ones(Wrap(Pow2[k])) = {k}
           /\ Magnitude(Wrap(Pow2[k])) = Pow2[k]
           /\ k # LongBits - 1 => Wrap(Pow2[k]) = Pow2[k] /\ Pow2[k] \in Long
<1>1. k \in Nat /\ Positions \subseteq Nat /\ Pow2[k] \in Nat
  BY LongFacts, Pow2Values DEF Positions
<1>2. Ones(Pow2[k]) = {k}
  <2>1. ASSUME NEW j \in Positions PROVE Bit(Pow2[k], j) = IF j = k THEN 1 ELSE 0
    <3>1. j \in Nat
      BY <1>1
    <3> QED BY <1>1, <3>1, BitsOfPower
  <2> QED BY <2>1 DEF Ones
<1>3. \A j \in Positions : Bit(Wrap(Pow2[k]), j) = Bit(Pow2[k], j)
  <2>1. Pow2[k] \in Int
    BY <1>1
  <2> QED BY <2>1, WrapKeepsBits
<1>4. Ones(Wrap(Pow2[k])) = {k}
  BY <1>2, <1>3 DEF Ones
<1>5. PICK h \in Nat \ {0} : /\ LongMin = -h /\ LongMax = h - 1 /\ h >= 2
                             /\ Pow2[LongBits] = 2 * h /\ Pow2[LongBits - 1] = h
                             /\ \A z : z \in Long <=> z \in -h .. h - 1
  BY WordFacts
<1>6. CASE k = LongBits - 1
  <2>1. LongMin \in Long /\ -LongMin = h
    BY <1>5
  <2>2. Wrap(h) = LongMin
    BY <2>1, WrapNegation
  <2>3. Magnitude(Wrap(Pow2[k])) = Pow2[k]
    BY <1>5, <1>6, <2>2 DEF Magnitude
  <2> QED BY <1>2, <1>4, <1>6, <2>3
<1>7. CASE k # LongBits - 1
  <2>1. k + 1 \in Nat /\ LongBits - 1 \in Nat /\ k + 1 =< LongBits - 1
    BY <1>1, <1>7, LongFacts DEF Positions
  <2>2. PICK p \in Nat \ {0} : p = Pow2[k] /\ 2 * p =< h
    <3>1. Pow2[k] \in Nat \ {0} /\ Pow2[k + 1] = 2 * Pow2[k]
      BY <1>1, Pow2Values
    <3>2. Pow2[k + 1] =< Pow2[LongBits - 1]
      BY <2>1, Pow2Grows
    <3> QED BY <1>5, <3>1, <3>2
  <2>3. p \in Long /\ p \in Int
    BY <1>5, <2>2
  <2>4. Wrap(p) = p
    BY <2>3, WrapValues
  <2>5. Magnitude(p) = p
    BY DEF Magnitude
  <2> QED BY <1>2, <1>4, <2>2, <2>3, <2>4, <2>5
<1> QED BY <1>6, <1>7

LEMMA LeastBitIsFound ==
    ASSUME NEW x \in Long
    PROVE  LET v == test_leastBitPos(x)
           IN  IF x = 0 THEN v = 0
               ELSE Cardinality(Ones(v)) = 1 /\ x % (2 * Magnitude(v)) = Magnitude(v)
<1>1. CASE x = 0
  BY <1>1 DEF test_leastBitPos
<1>2. CASE x # 0
  <2> DEFINE Least(k) == Bit(x, k) = 1 /\ \A j \in 0 .. k - 1 : Bit(x, j) = 0
             k == CHOOSE m \in Positions : Least(m)
  <2>1. k \in Positions /\ Least(k)
    <3>1. \E m \in Positions : Least(m)
      BY <1>2, LeastOne
    <3> HIDE DEF Least
    <3> QED BY <3>1
  <2>2. test_leastBitPos(x) = Wrap(Pow2[k])
    BY <1>2 DEF test_leastBitPos
  <2> HIDE DEF k
  <2>3. k \in Nat /\ x \in Int
    BY <2>1, LongFacts DEF Positions
  <2>4. x % Pow2[k + 1] = Pow2[k]
    BY <2>1, <2>3, RemaindersAtLeastOne
  <2>5. Pow2[k + 1] = 2 * Pow2[k]
    BY <2>3, Pow2Values
  <2>6. Cardinality(Ones(Wrap(Pow2[k]))) = 1
    <3> HIDE DEF Least
    <3>1. Ones(Wrap(Pow2[k])) = {k}
      BY <2>1, OnesOfPower
    <3> QED BY <3>1, FS_Singleton
  <2> QED BY <1>2, <2>1, <2>2, <2>4, <2>5, <2>6, OnesOfPower
<1> QED BY <1>1, <1>2

LEMMA PowerIsFound ==
    ASSUME NEW x \in Long
    PROVE  test_isPower2(x) = Truth(x > 0 /\ Cardinality(Ones(x)) = 1)
<1>1. LongBits \in Nat /\ LongBits >= 2 /\ Positions \subseteq Nat /\ x \in Int
  BY LongFacts DEF Positions
<1>2. PICK h \in Nat \ {0} : /\ h >= 2 /\ Pow2[LongBits] = 2 * h /\ Pow2[LongBits - 1] = h
                             /\ \A z : z \in Long <=> z \in -h .. h - 1
  BY WordFacts
<1>3. ASSUME NEW k \in 0 .. LongBits - 2, x = Pow2[k]
      PROVE  x > 0 /\ Cardinality(Ones(x)) = 1
  <2>1. k \in Positions /\ k \in Nat
    BY <1>1 DEF Positions
  <2>2. Cardinality(Ones(x)) = 1
    BY <1>3, <2>1, OnesOfPower, FS_Singleton
  <2>3. x \in Nat \ {0}
    BY <1>3, <2>1, Pow2Values
  <2> QED BY <2>2, <2>3
<1>4. ASSUME x > 0, Cardinality(Ones(x)) = 1
      PROVE  \E k \in 0 .. LongBits - 2 : x = Pow2[k]
  <2>1. PICK k : Ones(x) = {k}
    <3>1. IsFiniteSet(Ones(x))
      <4>1. IsFiniteSet(0 .. LongBits - 1)
        BY <1>1, FS_Interval
      <4>2. Ones(x) \subseteq 0 .. LongBits - 1
        BY DEF Ones, Positions
      <4> QED BY <4>1, <4>2, FS_Subset
    <3> QED BY <1>4, <3>1, FS_Singleton
  <2>2. k \in Positions /\ Bit(x, k) = 1 /\ k \in Nat
    BY <1>1, <2>1 DEF Ones
  <2>3. ASSUME NEW j \in Positions, j # k PROVE Bit(x, j) = 0
    <3>1. j \in Nat /\ Bit(x, j) # 1
      BY <1>1, <2>1, <2>3 DEF Ones
    <3> QED BY <1>1, <3>1, BitValues
  <2>4. x % Pow2[k + 1] = Pow2[k]
    <3>1. \A j \in 0 .. k - 1 : Bit(x, j) = 0
      BY <1>1, <2>2, <2>3 DEF Positions
    <3> QED BY <1>1, <2>2, <3>1, RemaindersAtLeastOne
  <2>5. x % Pow2[LongBits] = Pow2[k]
    <3>1. k + 1 \in Nat /\ k + 1 =< LongBits
      BY <1>1, <2>2 DEF Positions
    <3>2. \A j \in k + 1 .. LongBits - 1 : Bit(x, j) = 0
      BY <1>1, <2>2, <2>3 DEF Positions
    <3>3. x % Pow2[LongBits] = x % Pow2[k + 1]
      BY <1>1, <3>1, <3>2, ZeroBits
    <3> QED BY <2>4, <3>3
  <2>6. x % Pow2[LongBits] = x
    <3>1. x \in 0 .. (2 * h) - 1 /\ 2 * h \in Nat \ {0} /\ 0 \in Int /\ ((2 * h) * 0) + x = x
      BY <1>1, <1>2, <1>4
    <3>2. (((2 * h) * 0) + x) % (2 * h) = x
      BY <3>1, DivisionUnique
    <3> QED BY <1>2, <3>1, <3>2
  <2>7. k # LongBits - 1
    BY <1>1, <1>2, <2>5, <2>6
  <2>8. k \in 0 .. LongBits - 2
    BY <1>1, <2>2, <2>7 DEF Positions
  <2> QED BY <2>5, <2>6, <2>8
<1> QED BY <1>3, <1>4 DEF test_isPower2, Truth

(* One iteration of test_rotateLeft.                                         *)
LEMMA RotateStep ==
    ASSUME NEW u \in 0 .. Pow2[LongBits] - 1, NEW w,
           w = ((2 * u) % Pow2[LongBits]) + (u \div Pow2[LongBits - 1])
    PROVE  /\ w \in 0 .. Pow2[LongBits] - 1
           /\ Bit(w, 0) = Bit(u, LongBits - 1)
           /\ \A k \in 0 .. LongBits - 2 : Bit(w, k + 1) = Bit(u, k)
<1>1. PICK h \in Nat \ {0} : Pow2[LongBits] = 2 * h /\ Pow2[LongBits - 1] = h
  BY WordFacts
<1>2. LongBits - 1 \in Nat /\ u \in Int /\ u \in 0 .. (2 * h) - 1
  BY <1>1, LongFacts
<1>3. PICK b \in {0, 1}, r \in 0 .. h - 1 : /\ u = r + (IF b = 1 THEN h ELSE 0)
                                            /\ u \div h = b /\ b = Bit(u, LongBits - 1)
  <2>1. PICK q \in Int, r \in 0 .. h - 1 : u = (h * q) + r /\ q = u \div h
    <3>1. u \div h \in Int /\ u % h \in 0 .. h - 1
      BY <1>2
    <3> QED BY <1>2, <3>1, Division
  <2>2. q \in {0, 1}
    <3>1. (q >= 2 => h * q >= 2 * h) /\ (q =< -1 => h * q =< -h)
      OBVIOUS
    <3>2. PICK p \in Int : p = h * q
      OBVIOUS
    <3> QED BY <1>2, <2>1, <3>1, <3>2
  <2>3. Bit(u, LongBits - 1) = q % 2 /\ q % 2 = q
    BY <1>1, <2>1, <2>2 DEF Bit
  <2>4. u = r + (IF q = 1 THEN h ELSE 0)
    <3>1. h * 0 = 0 /\ h * 1 = h
      OBVIOUS
    <3> QED BY <2>1, <2>2, <3>1
  <2> QED BY <2>1, <2>2, <2>3, <2>4
<1>4. (2 * u) % (2 * h) = 2 * r
  <2>1. 2 * h \in Nat \ {0} /\ b \in Int /\ 2 * r \in 0 .. (2 * h) - 1
    OBVIOUS
  <2>2. ((2 * h) * b) + (2 * r) = 2 * u
    <3>1. (2 * h) * 0 = 0 /\ (2 * h) * 1 = 2 * h
      OBVIOUS
    <3> QED BY <1>2, <1>3, <3>1
  <2>3. (((2 * h) * b) + (2 * r)) % (2 * h) = 2 * r
    BY <2>1, DivisionUnique
  <2> QED BY <2>2, <2>3
<1>5. w = (2 * r) + b
  BY <1>1, <1>3, <1>4
<1>6. w \in 0 .. Pow2[LongBits] - 1 /\ w \in Int
  BY <1>1, <1>5
<1>7. Bit(w, 0) = b
  <2>1. Pow2[0] = 1 /\ 0 \in 0 .. Pow2[0] - 1 /\ w = (Pow2[0] * w) + 0 /\ 0 \in Nat
    BY <1>6, Pow2Values
  <2>2. Bit(w, 0) = w % 2
    BY <1>6, <2>1, BitFromQuotient
  <2>3. 2 \in Nat \ {0} /\ r \in Int /\ b \in 0 .. 2 - 1
    OBVIOUS
  <2>4. ((2 * r) + b) % 2 = b
    BY <2>3, DivisionUnique
  <2> QED BY <1>5, <2>2, <2>4
<1>8. ASSUME NEW k \in 0 .. LongBits - 2
      PROVE  Bit(w, k + 1) = Bit(u, k)
  <2>1. /\ k \in Nat /\ k + 1 \in Nat /\ k =< LongBits - 1
        /\ (LongBits - 1) - k \in Nat \ {0} /\ ((LongBits - 1) - k) - 1 \in Nat
    BY LongFacts
  <2>2. PICK p \in Nat \ {0} : p = Pow2[k] /\ Pow2[k + 1] = 2 * p
    BY <2>1, Pow2Values
  <2>3. PICK g \in Nat \ {0} : Pow2[(LongBits - 1) - k] = 2 * g
    BY <2>1, Pow2Values
  <2>4. h = p * (2 * g)
    <3>1. PICK m \in Nat : m = LongBits - 1
      BY <1>2
    <3>2. Pow2[m] = Pow2[k] * Pow2[m - k]
      BY <2>1, <3>1, Pow2Grows
    <3> QED BY <1>1, <2>2, <2>3, <3>1, <3>2
  <2>5. PICK q \in Int, s \in 0 .. p - 1 : r = (p * q) + s
    <3>1. r \div p \in Int /\ r % p \in 0 .. p - 1 /\ r \in Int
      OBVIOUS
    <3> QED BY <3>1, Division
  <2>6. Bit(w, k + 1) = q % 2
    <3>1. w = ((2 * p) * q) + ((2 * s) + b)
      <4>1. (2 * p) * q = 2 * (p * q)
        OBVIOUS
      <4>2. PICK z \in Int : z = p * q
        OBVIOUS
      <4> QED BY <1>5, <2>5, <4>1, <4>2
    <3>2. PICK t \in 0 .. (2 * p) - 1 : t = (2 * s) + b
      OBVIOUS
    <3>3. t \in 0 .. Pow2[k + 1] - 1 /\ w = (Pow2[k + 1] * q) + t
      BY <2>2, <3>1, <3>2
    <3> QED BY <1>6, <2>1, <3>3, BitFromQuotient
  <2>7. Bit(u, k) = q % 2
    <3>1. PICK v \in Int : v = q + (IF b = 1 THEN 2 * g ELSE 0)
      OBVIOUS
    <3>2. p * (q + (2 * g)) = (p * q) + (p * (2 * g))
      OBVIOUS
    <3>3. u = (p * v) + s
      BY <1>3, <2>4, <2>5, <3>1, <3>2
    <3>4. s \in 0 .. Pow2[k] - 1 /\ u = (Pow2[k] * v) + s
      BY <2>2, <3>3
    <3>5. Bit(u, k) = v % 2
      BY <1>2, <2>1, <3>4, BitFromQuotient
    <3>6. v % 2 = q % 2
      BY <3>1
    <3> QED BY <3>5, <3>6
  <2> QED BY <2>6, <2>7
<1> QED BY <1>3, <1>6, <1>7, <1>8

(* The reference of rotateLeft rotates.                                      *)
LEMMA Rotation ==
    ASSUME NEW x \in Long, NEW n \in 0 .. LongBits - 1
    PROVE  LET v == test_rotateLeft(x, n)
           IN  /\ v \in Long
               /\ \A k \in Positions : Bit(v, (k + n) % LongBits) = Bit(x, k)
<1>1. LongBits \in Nat \ {0} /\ LongBits >= 2 /\ x \in Int /\ n \in Nat
  BY LongFacts
<1>2. PICK g : /\ g \in [0 .. n -> Int]
               /\ g[0] = x % Pow2[LongBits]
               /\ \A k \in 1 .. n : g[k] = ((2 * g[k - 1]) % Pow2[LongBits])
                                               + (g[k - 1] \div Pow2[LongBits - 1])
               /\ test_rotateLeft(x, n) = Wrap(g[n])
  BY <1>1, RotateLeftRun
<1> DEFINE Good(m) == /\ g[m] \in 0 .. Pow2[LongBits] - 1
                      /\ \A k \in Positions : Bit(g[m], (k + m) % LongBits) = Bit(x, k)
<1>3. Good(0)
  <2>1. g[0] \in 0 .. Pow2[LongBits] - 1
    <3>1. PICK p \in Nat \ {0} : p = Pow2[LongBits]
      BY <1>1, Pow2Values
    <3>2. x % p \in 0 .. p - 1
      BY <1>1
    <3> QED BY <1>2, <3>1, <3>2
  <2>2. ASSUME NEW k \in Positions PROVE Bit(g[0], (k + 0) % LongBits) = Bit(x, k)
    <3>1. k \in 0 .. LongBits - 1 /\ 0 \in Int /\ (LongBits * 0) + k = k /\ k + 0 = k
      BY <1>1 DEF Positions
    <3>2. ((LongBits * 0) + k) % LongBits = k
      BY <1>1, <3>1, DivisionUnique
    <3>3. (k + 0) % LongBits = k
      BY <3>1, <3>2
    <3> QED BY <1>1, <1>2, <3>3, WrapKeepsBits
  <2> QED BY <2>1, <2>2
<1>4. ASSUME NEW m \in 1 .. n, Good(m - 1)
      PROVE  Good(m)
  <2>1. PICK u \in 0 .. Pow2[LongBits] - 1 : u = g[m - 1]
    BY <1>4
  <2>2. g[m] = ((2 * u) % Pow2[LongBits]) + (u \div Pow2[LongBits - 1])
    BY <1>2, <2>1
  <2>3. /\ g[m] \in 0 .. Pow2[LongBits] - 1
        /\ Bit(g[m], 0) = Bit(u, LongBits - 1)
        /\ \A k \in 0 .. LongBits - 2 : Bit(g[m], k + 1) = Bit(u, k)
    BY <2>2, RotateStep
  <2>4. ASSUME NEW k \in Positions PROVE Bit(g[m], (k + m) % LongBits) = Bit(x, k)
    <3>1. PICK c \in Int : c = k + (m - 1) /\ k + m = c + 1
      BY <1>1 DEF Positions
    <3>2. PICK q \in Int, j \in 0 .. LongBits - 1 :
              c = (LongBits * q) + j /\ j = c % LongBits
      <4>1. c \div LongBits \in Int /\ c % LongBits \in 0 .. LongBits - 1
        BY <1>1
      <4> QED BY <1>1, <4>1, Division
    <3>3. Bit(u, j) = Bit(x, k)
      BY <1>4, <2>1, <3>1, <3>2
    <3>4. CASE j = LongBits - 1
      <4>1. k + m = (LongBits * (q + 1)) + 0
        <5>1. LongBits * (q + 1) = (LongBits * q) + LongBits
          BY <1>1
        <5>2. PICK z \in Int : z = LongBits * q
          BY <1>1
        <5>3. k + m = z + LongBits
          <6>1. c = z + j /\ j = LongBits - 1 /\ k + m = c + 1
            BY <3>1, <3>2, <3>4, <5>2
          <6> QED BY <1>1, <6>1
        <5>4. LongBits * (q + 1) = z + LongBits
          BY <5>1, <5>2
        <5>5. \A y \in Int : y + 0 = y
          OBVIOUS
        <5> QED BY <1>1, <5>3, <5>4, <5>5
      <4>2. q + 1 \in Int /\ 0 \in 0 .. LongBits - 1
        BY <1>1
      <4>3. ((LongBits * (q + 1)) + 0) % LongBits = 0
        BY <1>1, <4>2, DivisionUnique
      <4> QED BY <2>3, <3>3, <3>4, <4>1, <4>3
    <3>5. CASE j # LongBits - 1
      <4>1. j \in 0 .. LongBits - 2 /\ j + 1 \in 0 .. LongBits - 1
        BY <1>1, <3>5
      <4>2. k + m = (LongBits * q) + (j + 1)
        <5>1. PICK z \in Int : z = LongBits * q
          BY <1>1
        <5> QED BY <3>1, <3>2, <5>1
      <4>3. ((LongBits * q) + (j + 1)) % LongBits = j + 1
        BY <1>1, <4>1, DivisionUnique
      <4> QED BY <2>3, <3>3, <4>1, <4>2, <4>3
    <3> QED BY <3>4, <3>5
  <2> QED BY <2>3, <2>4
<1>5. Good(n)
  <2> DEFINE T == {m \in 0 .. n : ~Good(m)}
  <2> SUFFICES ASSUME T # {} PROVE FALSE
    <3>1. n \in 0 .. n
      BY <1>1
    <3> HIDE DEF Good
    <3> QED BY <3>1
  <2>1. PICK m \in T : \A j \in T : m =< j
    <3>1. T \in SUBSET Nat
      OBVIOUS
    <3> HIDE DEF T
    <3> QED BY <3>1, LeastNatural
  <2> HIDE DEF Good
  <2>2. m # 0
    BY <1>3, <2>1
  <2>3. m \in 1 .. n /\ m - 1 \in 0 .. n /\ ~(m =< m - 1)
    BY <1>1, <2>1, <2>2
  <2>4. Good(m - 1)
    BY <2>1, <2>3
  <2> QED BY <1>4, <2>1, <2>3, <2>4
<1>6. g[n] \in Int
  BY <1>1, <1>2
<1>7. ASSUME NEW k \in Positions
      PROVE  Bit(Wrap(g[n]), (k + n) % LongBits) = Bit(x, k)
  <2>1. (k + n) % LongBits \in Positions
    BY <1>1 DEF Positions
  <2>2. Bit(Wrap(g[n]), (k + n) % LongBits) = Bit(g[n], (k + n) % LongBits)
    BY <1>6, <2>1, WrapKeepsBits
  <2> QED BY <1>5, <2>2
<1> QED BY <1>2, <1>6, <1>7, WrapValues

LEMMA Parity ==
    ASSUME NEW x \in Long
    PROVE  test_bitParity(x) = Cardinality(Positions \ Ones(x)) % 2
<1>1. LongBits \in Nat /\ LongBits % 2 = 0 /\ x \in Int /\ Positions \subseteq Nat
  BY LongFacts, WordAssumption DEF Positions
<1>2. PICK g : /\ g \in [0 .. LongBits -> Int]
               /\ g[0] = 0
               /\ \A k \in 1 .. LongBits : g[k] = (g[k - 1] + Bit(x, k - 1)) % 2
               /\ test_bitParity(x) = g[LongBits]
  BY <1>1, BitParityRun
<1> DEFINE Low(k) == {j \in 0 .. k - 1 : Bit(x, j) = 1}
           Good(k) == /\ IsFiniteSet(Low(k)) /\ Cardinality(Low(k)) \in Nat
                      /\ g[k] = Cardinality(Low(k)) % 2
<1>3. Good(0)
  <2>1. Low(0) = {}
    OBVIOUS
  <2> HIDE DEF Low
  <2>2. IsFiniteSet(Low(0)) /\ Cardinality(Low(0)) = 0
    BY <2>1, FS_EmptySet
  <2>3. 0 % 2 = 0
    OBVIOUS
  <2> QED BY <1>2, <2>2, <2>3
<1>4. ASSUME NEW m \in 1 .. LongBits, Good(m - 1)
      PROVE  Good(m)
  <2>1. m \in Nat /\ m - 1 \in Nat
    BY <1>1
  <2>2. PICK b \in {0, 1} : b = Bit(x, m - 1)
    BY <1>1, <2>1, BitValues
  <2>3. Low(m) = IF b = 1 THEN Low(m - 1) \cup {m - 1} ELSE Low(m - 1)
    <3>1. \A j : j \in 0 .. m - 1 <=> j \in 0 .. (m - 1) - 1 \/ j = m - 1
      BY <2>1
    <3> QED BY <2>2, <3>1
  <2>4. m - 1 \notin Low(m - 1)
    BY <2>1
  <2> HIDE DEF Low
  <2>5. PICK c \in Nat : c = Cardinality(Low(m - 1)) /\ IsFiniteSet(Low(m - 1)) /\ g[m - 1] = c % 2
    BY <1>4
  <2>6. IsFiniteSet(Low(m)) /\ Cardinality(Low(m)) = c + b
    <3>1. CASE b = 1
      BY <2>3, <2>4, <2>5, <3>1, FS_AddElement
    <3>2. CASE b = 0
      BY <2>3, <2>5, <3>2
    <3> QED BY <3>1, <3>2
  <2>7. g[m] = ((c % 2) + b) % 2
    BY <1>2, <2>2, <2>5
  <2>8. ((c % 2) + b) % 2 = (c + b) % 2
    OBVIOUS
  <2>9. c + b \in Nat
    OBVIOUS
  <2> QED BY <2>6, <2>7, <2>8, <2>9
<1>5. Good(LongBits)
  <2> DEFINE T == {m \in 0 .. LongBits : ~Good(m)}
  <2> SUFFICES ASSUME T # {} PROVE FALSE
    <3>1. LongBits \in 0 .. LongBits
      BY <1>1
    <3> HIDE DEF Good
    <3> QED BY <3>1
  <2>1. PICK m \in T : \A j \in T : m =< j
    <3>1. T \in SUBSET Nat
      BY <1>1
    <3> HIDE DEF T
    <3> QED BY <3>1, LeastNatural
  <2> HIDE DEF Good
  <2>2. m # 0
    BY <1>3, <2>1
  <2>3. m \in 1 .. LongBits /\ m - 1 \in 0 .. LongBits /\ ~(m =< m - 1)
    BY <1>1, <2>1, <2>2
  <2>4. Good(m - 1)
    BY <2>1, <2>3
  <2> QED BY <1>4, <2>1, <2>3, <2>4
<1>6. Low(LongBits) = Ones(x)
  BY DEF Ones, Positions
<1> HIDE DEF Low
<1>7. PICK c \in Nat : c = Cardinality(Ones(x)) /\ test_bitParity(x) = c % 2
  BY <1>2, <1>5, <1>6
<1>8. Cardinality(Positions \ Ones(x)) = LongBits - c
  <2>1. IsFiniteSet(Positions) /\ Cardinality(Positions) = LongBits
    <3>1. 0 \in Int /\ LongBits - 1 \in Int
      BY <1>1
    <3>2. IsFiniteSet(0 .. LongBits - 1) /\ Cardinality(0 .. LongBits - 1) = LongBits
      BY <1>1, <3>1, FS_Interval
    <3> QED BY <3>2 DEF Positions
  <2>2. Ones(x) \subseteq Positions
    BY DEF Ones
  <2>3. Positions \cap Ones(x) = Ones(x)
    BY <2>2
  <2>4. Cardinality(Positions \ Ones(x)) = Cardinality(Positions) - Cardinality(Positions \cap Ones(x))
    BY <2>1, FS_Difference
  <2> QED BY <1>7, <2>1, <2>3, <2>4
<1>9. (LongBits - c) % 2 = c % 2
  <2>1. \A n, k \in Nat : n % 2 = 0 => (n - k) % 2 = k % 2
    OBVIOUS
  <2> QED BY <1>1, <2>1
<1> QED BY <1>7, <1>8, <1>9

(* Every reference answers as the comments of bits.c ask.                    *)
LEMMA ReferenceIsRight ==
    ASSUME NEW name \in Names, NEW x \in Long, NEW y,
           name = "fitsBits" => y \in 1 .. LongBits,
           name = "addOK" => y \in Long,
           name = "rotateLeft" => y \in 0 .. LongBits - 1
    PROVE  Asked(name, x, y, Reference(name, x, y))
<1>1. CASE name = "implication"
  <2>1. {x, y} \subseteq {0, 1} => test_implication(x, y) = IF x = 1 /\ y = 0 THEN 0 ELSE 1
    BY DEF test_implication, Truth
  <2> QED BY <1>1, <2>1 DEF Asked, Reference
<1>2. CASE name = "leastBitPos"
  BY <1>2, LeastBitIsFound DEF Asked, Reference
<1>3. CASE name = "distinctNegation"
  BY <1>3, NegationIsDistinct DEF Asked, Reference
<1>4. CASE name = "fitsBits"
  BY <1>4, FitsInBits DEF Asked, Reference
<1>5. CASE name = "trueFiveEighths"
  <2>1. x \in Int
    BY LongFacts
  <2> QED BY <1>5, <2>1, FiveEighths DEF Asked, Reference
<1>6. CASE name = "addOK"
  BY <1>6, SumFits DEF Asked, Reference
<1>7. CASE name = "isPower2"
  BY <1>7, PowerIsFound DEF Asked, Reference
<1>8. CASE name = "rotateLeft"
  BY <1>8, Rotation DEF Asked, Reference
<1>9. CASE name = "isPalindrome"
  BY <1>9, Palindrome DEF Asked, Reference
<1>10. CASE name = "bitParity"
  BY <1>10, Parity DEF Asked, Reference
<1>11. CASE name = "absVal"
  BY <1>11, AbsoluteValue DEF Asked, Reference
<1> QED BY <1>1, <1>2, <1>3, <1>4, <1>5, <1>6, <1>7, <1>8, <1>9, <1>10, <1>11, TableFacts

-----------------------------------------------------------------------------
(* What the tester passes to a reference is what the puzzle is asked for.    *)

LEMMA Pow2Exceeds ==
    \A n \in Nat : Pow2[n] > n
<1> DEFINE T == {n \in Nat : ~(Pow2[n] > n)}
<1> SUFFICES ASSUME T # {} PROVE FALSE
  OBVIOUS
<1>1. PICK n \in T : \A j \in T : n =< j
  <2>1. T \in SUBSET Nat
    OBVIOUS
  <2> HIDE DEF T
  <2> QED BY <2>1, LeastNatural
<1>2. n # 0
  BY <1>1, Pow2Values
<1>3. n - 1 \in Nat /\ n \in Nat \ {0} /\ ~(n =< n - 1)
  BY <1>1, <1>2
<1>4. PICK p \in Nat \ {0} : p = Pow2[n - 1] /\ Pow2[n] = 2 * p
  BY <1>3, Pow2Values
<1>5. p > n - 1
  BY <1>1, <1>3, <1>4
<1> QED BY <1>1, <1>3, <1>4, <1>5

(* A range of bit positions is tried without anything out of it.             *)
LEMMA SmallRange ==
    ASSUME NEW vals, NEW min \in {0, 1}, NEW max \in Int, max \in LongBits - 1 .. LongBits,
           ~(min = 1 /\ max = 1), Covers(vals, NULL, min, max),
           max - min > MaxTestVals =>
               {min, max} \subseteq -Ulp .. Ulp \cup {LongMin, -LongMax, LongMax}
    PROVE  Range(vals) \subseteq min .. max
<1>1. max - min =< MaxTestVals \/ {min, max} \subseteq -Ulp .. Ulp
  <2>1. /\ LongBits \in Nat /\ LongMin \in Int /\ LongMin =< -2 /\ LongMax = -LongMin - 1
        /\ MaxTestVals \in Nat /\ MaxTestVals >= 16 /\ Ulp \in Nat \ {0}
    <3>1. /\ MaxTestVals \in Nat /\ Ulp \in Nat \ {0} /\ 0 \in 0 .. 3 /\ TestRange[0] \in Nat \ {0}
      BY BTestAssumption
    <3>2. 12 * TestRange[0] + 4 =< MaxTestVals
      BY <3>1, ArrayAssumption
    <3> QED BY <3>1, <3>2, LongFacts
  <2> SUFFICES ASSUME max - min > MaxTestVals PROVE {min, max} \subseteq -Ulp .. Ulp
    BY <2>1
  <2>2. LongBits > 4 /\ LongBits - 2 \in Nat /\ (LongBits - 2) + 1 = LongBits - 1
    BY <2>1
  <2>3. PICK p \in Nat : p = Pow2[LongBits - 2] /\ p > LongBits - 2
    BY <2>2, Pow2Exceeds, Pow2Values
  <2>4. Pow2[LongBits - 1] = 2 * p
    BY <2>2, <2>3, Pow2Values
  <2>5. LongMax > LongBits /\ LongMin < 0 /\ -LongMax < 0
    BY <2>1, <2>2, <2>3, <2>4, LongFacts
  <2>6. min \notin {LongMin, -LongMax, LongMax} /\ max \notin {LongMin, -LongMax, LongMax}
    BY <2>1, <2>2, <2>5
  <2> QED BY <2>6
<1> QED BY <1>1 DEF Covers

LEMMA Answered == IInv => ReferenceAnswers
<1> SUFFICES ASSUME IInv, phase = "call", test_set[i].name \in Names,
                    NEW x \in Range(arg_test_vals[1]), NEW y \in Range(arg_test_vals[2])
             PROVE  Asked(test_set[i].name, x, y, Reference(test_set[i].name, x, y))
  BY DEF ReferenceAnswers
<1>1. Testing /\ i \in 1 .. Len(test_set) /\ argval \in GivenArgs \cup {NULL}
  BY TestSetIsSequence DEF IInv, Flags, Testing
<1>2. i \in 1 .. 11 /\ test_set[i] = Declared[i] /\ i \in DOMAIN test_set
  BY <1>1, TestSetIsSequence, TableFacts
<1>3. i \in {1, 2, 3, 4, 5, 6, 7, 8, 9, 10, 11}
  BY <1>2
<1> DEFINE test == test_set[i]
           Ends(arg) == <<test.arg_ranges[arg][1], test.arg_ranges[arg][2]>>
<1>4. ASSUME NEW arg \in {1, 2}, arg =< test.args
      PROVE  /\ Covers(arg_test_vals[arg], IF arg = 1 THEN argval ELSE NULL,
                       test.arg_ranges[arg][1], test.arg_ranges[arg][2])
             /\ test.arg_ranges[arg][2] - test.arg_ranges[arg][1] > MaxTestVals =>
                    {test.arg_ranges[arg][1], test.arg_ranges[arg][2]}
                        \subseteq -Ulp .. Ulp \cup {LongMin, -LongMax, LongMax}
  <2>1. arg \in 1 .. 3
    OBVIOUS
  <2> QED BY <1>1, <1>2, <1>4, <2>1, DoubleAssumption DEF Testing, Made
<1>5. x \in Long
  <2>1. /\ test.args \in {1, 2}
        /\ \/ test.arg_ranges[1] = <<0, 1>>
           \/ test.arg_ranges[1] = <<LongMin, LongMax>>
           \/ test.arg_ranges[1] = <<-LongMax, LongMax>>
    <3>2. \A k \in {2, 3, 4, 5, 6, 7, 8, 9, 10} :
              Declared[k].args \in {1, 2} /\ Declared[k].arg_ranges[1] = <<LongMin, LongMax>>
      BY DEF Declared, Puzzle, All
    <3>3. Declared[1].args \in {1, 2} /\ Declared[1].arg_ranges[1] = <<0, 1>>
      BY DEF Declared, Puzzle
    <3>4. Declared[11].args \in {1, 2} /\ Declared[11].arg_ranges[1] = <<-LongMax, LongMax>>
      BY DEF Declared, Puzzle
    <3> QED BY <1>2, <1>3, <3>2, <3>3, <3>4
  <2> DEFINE r == test.arg_ranges[1]
  <2>2. \/ r[1] = 0 /\ r[2] = 1
        \/ r[1] = LongMin /\ r[2] = LongMax
        \/ r[1] = -LongMax /\ r[2] = LongMax
    BY <2>1
  <2>3. Covers(arg_test_vals[1], argval, r[1], r[2])
    <3>1. 1 \in {1, 2} /\ 1 =< test.args
      BY <2>1
    <3>2. Covers(arg_test_vals[1], IF 1 = 1 THEN argval ELSE NULL,
                 test.arg_ranges[1][1], test.arg_ranges[1][2])
      BY <1>4, <3>1
    <3> QED BY <3>2
  <2> HIDE DEF r
  <2>4. r[1] # 1 /\ r[1] .. r[2] \cup {LongMin} \subseteq Long
    BY <2>2, LongFacts DEF Long
  <2>5. argval # NULL => argval \in Long
    BY <1>1, BTestAssumption
  <2> QED BY <2>3, <2>4, <2>5 DEF Covers
<1>6. test.name = "fitsBits" => y \in 1 .. LongBits
  <2> SUFFICES ASSUME test.name = "fitsBits" PROVE y \in 1 .. LongBits
    OBVIOUS
  <2>1. i = 4
    BY <1>2, <1>3 DEF Declared, Puzzle
  <2>2. test.args = 2 /\ test.arg_ranges[2] = <<1, LongBits>>
    BY <1>2, <2>1 DEF Declared, Puzzle
  <2>3. test.arg_ranges[2][1] = 1 /\ test.arg_ranges[2][2] = LongBits /\ 2 \in {1, 2} /\ 2 =< test.args /\ 2 # 1
    BY <2>2
  <2>4. /\ Covers(arg_test_vals[2], IF 2 = 1 THEN argval ELSE NULL,
                  test.arg_ranges[2][1], test.arg_ranges[2][2])
        /\ test.arg_ranges[2][2] - test.arg_ranges[2][1] > MaxTestVals =>
               {test.arg_ranges[2][1], test.arg_ranges[2][2]}
                   \subseteq -Ulp .. Ulp \cup {LongMin, -LongMax, LongMax}
    BY <1>4, <2>3
  <2>5. /\ Covers(arg_test_vals[2], NULL, 1, LongBits)
        /\ LongBits - 1 > MaxTestVals =>
               {1, LongBits} \subseteq -Ulp .. Ulp \cup {LongMin, -LongMax, LongMax}
    BY <2>3, <2>4
  <2>6. /\ 1 \in {0, 1} /\ LongBits \in Int /\ LongBits \in LongBits - 1 .. LongBits
        /\ ~(1 = 1 /\ LongBits = 1)
    BY LongFacts
  <2>7. Range(arg_test_vals[2]) \subseteq 1 .. LongBits
    BY <2>5, <2>6, SmallRange
  <2> QED BY <2>7
<1>7. test.name = "rotateLeft" => y \in 0 .. LongBits - 1
  <2> SUFFICES ASSUME test.name = "rotateLeft" PROVE y \in 0 .. LongBits - 1
    OBVIOUS
  <2>1. i = 8
    BY <1>2, <1>3 DEF Declared, Puzzle
  <2>2. test.args = 2 /\ test.arg_ranges[2] = <<0, LongBits - 1>>
    BY <1>2, <2>1 DEF Declared, Puzzle
  <2>3. test.arg_ranges[2][1] = 0 /\ test.arg_ranges[2][2] = LongBits - 1 /\ 2 \in {1, 2} /\ 2 =< test.args /\ 2 # 1
    BY <2>2
  <2>4. /\ Covers(arg_test_vals[2], IF 2 = 1 THEN argval ELSE NULL,
                  test.arg_ranges[2][1], test.arg_ranges[2][2])
        /\ test.arg_ranges[2][2] - test.arg_ranges[2][1] > MaxTestVals =>
               {test.arg_ranges[2][1], test.arg_ranges[2][2]}
                   \subseteq -Ulp .. Ulp \cup {LongMin, -LongMax, LongMax}
    BY <1>4, <2>3
  <2>5. PICK max \in Int : max = LongBits - 1 /\ max \in LongBits - 1 .. LongBits
    BY LongFacts
  <2>6. /\ Covers(arg_test_vals[2], NULL, 0, max)
        /\ max - 0 > MaxTestVals =>
               {0, max} \subseteq -Ulp .. Ulp \cup {LongMin, -LongMax, LongMax}
    BY <2>3, <2>4, <2>5
  <2>7. 0 \in {0, 1} /\ ~(0 = 1 /\ max = 1)
    OBVIOUS
  <2>8. Range(arg_test_vals[2]) \subseteq 0 .. max
    BY <2>5, <2>6, <2>7, SmallRange
  <2> QED BY <2>5, <2>8
<1>8. test.name = "addOK" => y \in Long
  <2> SUFFICES ASSUME test.name = "addOK" PROVE y \in Long
    OBVIOUS
  <2>1. i = 6
    BY <1>2, <1>3 DEF Declared, Puzzle
  <2>2. test.args = 2 /\ test.arg_ranges[2] = <<LongMin, LongMax>>
    BY <1>2, <2>1 DEF Declared, Puzzle, All
  <2>3. test.arg_ranges[2][1] = LongMin /\ test.arg_ranges[2][2] = LongMax /\ 2 \in {1, 2} /\ 2 =< test.args /\ 2 # 1
    BY <2>2
  <2>4. Covers(arg_test_vals[2], IF 2 = 1 THEN argval ELSE NULL,
               test.arg_ranges[2][1], test.arg_ranges[2][2])
    BY <1>4, <2>3
  <2>5. Covers(arg_test_vals[2], NULL, LongMin, LongMax)
    BY <2>3, <2>4
  <2>6. LongMin # 1 /\ LongMin .. LongMax \cup {LongMin} \subseteq Long
    BY LongFacts DEF Long
  <2> QED BY <2>5, <2>6 DEF Covers
<1> QED BY <1>5, <1>6, <1>7, <1>8, ReferenceIsRight

(* Whenever test_function calls a reference of tests.c, it answers as the    *)
(* comment of bits.c asks, for every even word size and every argument       *)
(* gen_vals makes.                                                           *)
THEOREM ReferencesAlwaysAnswer == Spec => []ReferenceAnswers
BY Invariant, Answered, PTL
=============================================================================
