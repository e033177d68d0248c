--------------------------- MODULE TraceGenProofs ---------------------------
(* What the blocks of the transpose functions store, for every size, and     *)
(* that every registered function transposes every matrix that fits the      *)
(* arrays of tracegen, alone and after the others.                           *)
EXTENDS TraceGen, SequenceTheorems, TLAPS

-----------------------------------------------------------------------------
(* Arithmetic of the loop nests.                                             *)

(* A block's number gives its row and its column of blocks.                  *)
LEMMA RowAndColumn ==
    ASSUME NEW r \in Nat, NEW c \in Nat, NEW n \in 0 .. r * c - 1
    PROVE  /\ c > 0
           /\ n \div c \in 0 .. r - 1 /\ n % c \in 0 .. c - 1
           /\ n = c * (n \div c) + (n % c)
<1>1. c > 0
  <2>1. SUFFICES ASSUME c = 0 PROVE FALSE
    OBVIOUS
  <2>2. r * c = 0
    BY <2>1
  <2> QED BY <2>2
<1>2. n = c * (n \div c) + (n % c) /\ n % c \in 0 .. c - 1 /\ n \div c \in Int
  BY <1>1
<1>3. n \div c >= 0
  BY <1>1, <1>2
<1>4. n \div c < r
  <2> DEFINE d == n \div c
  <2>1. SUFFICES ASSUME d >= r PROVE FALSE
    BY <1>2
  <2>2. d \in Nat /\ c * d =< n
    BY <1>2, <1>3
  <2> HIDE DEF d
  <2>3. c * d >= c * r
    BY <1>1, <2>1, <2>2
  <2> QED BY <2>2, <2>3
<1> QED BY <1>1, <1>2, <1>3, <1>4

LEMMA NumberOf ==
    ASSUME NEW r \in Nat, NEW c \in Nat, NEW a \in 0 .. r - 1, NEW b \in 0 .. c - 1
    PROVE  /\ a * c + b \in 0 .. r * c - 1
           /\ (a * c + b) \div c = a /\ (a * c + b) % c = b
<1>1. c > 0 /\ a * c + b \in Nat
  OBVIOUS
<1>2. a * c + c =< r * c
  <2>1. r = a + 1 + (r - a - 1) /\ r - a - 1 \in Nat
    OBVIOUS
  <2> DEFINE e == r - a - 1
  <2>2. r * c = a * c + c + e * c
    BY <2>1
  <2>3. e * c >= 0
    BY <2>1
  <2> QED BY <2>2, <2>3
<1> DEFINE n == a * c + b
<1>3. n \in Int
  BY <1>1
<1>4. n = c * (n \div c) + (n % c) /\ n % c \in 0 .. c - 1 /\ n \div c \in Int
  <2> HIDE DEF n
  <2> QED BY <1>1, <1>3
<1> DEFINE d == n \div c
<1>5. d = a
  <2>1. c * (d - a) = b - (n % c)
    BY <1>4
  <2>2. d - a \in Int /\ b - (n % c) < c /\ b - (n % c) > -c
    BY <1>4
  <2>3. CASE d - a >= 1
    BY <2>1, <2>2, <2>3, <1>1
  <2>4. CASE d - a =< -1
    BY <2>1, <2>2, <2>4, <1>1
  <2> QED BY <2>2, <2>3, <2>4
<1>6. n % c = b
  BY <1>4, <1>5
<1> QED BY <1>1, <1>2, <1>5, <1>6

(* The loops of a nest stop in the matrix and leave nothing of it out.       *)
LEMMA StridesCover ==
    ASSUME NEW s \in {1, 4, 8, 16}, NEW n \in Nat \ {0}
    PROVE  /\ Rounds(n, s) \in Nat \ {0}
           /\ \A k \in 0 .. Rounds(n, s) - 1 : s * k \in 0 .. n - 1
           /\ \A x \in 0 .. n - 1 :
                 x \div s \in 0 .. Rounds(n, s) - 1 /\ x \in s * (x \div s) .. s * (x \div s) + s - 1
<1>1. CASE s = 1
  BY <1>1 DEF Rounds
<1>2. CASE s = 4
  BY <1>2 DEF Rounds
<1>3. CASE s = 8
  BY <1>3 DEF Rounds
<1>4. CASE s = 16
  BY <1>4 DEF Rounds
<1> QED BY <1>1, <1>2, <1>3, <1>4

-----------------------------------------------------------------------------
(* What the iterations of a block are, for an A of n rows of m elements.     *)

Cell == {"A", "B"} \X Int \X Int
Iteration == [loads : Seq(Cell), stores : Seq([to : Cell, from : Nat])]

InB(m, n) == (0 .. m - 1) \X (0 .. n - 1)

Within(cell, m, n) ==
    \/ cell[1] = "A" /\ cell[2] \in 0 .. n - 1 /\ cell[3] \in 0 .. m - 1
    \/ cell[1] = "B" /\ cell[2] \in 0 .. m - 1 /\ cell[3] \in 0 .. n - 1

(* A cell of B is written at most once.                                      *)
Fine(it, m, n) ==
    /\ it \in Iteration
    /\ \A p \in DOMAIN it.loads : Within(it.loads[p], m, n)
    /\ \A p \in DOMAIN it.stores :
          /\ it.stores[p].from \in DOMAIN it.loads
          /\ it.stores[p].to[1] = "B" /\ Within(it.stores[p].to, m, n)
    /\ \A p \in DOMAIN it.stores, q \in DOMAIN it.stores :
          it.stores[p].to = it.stores[q].to => p = q

(* Every element goes where it belongs.                                      *)
Direct(it) ==
    \A p \in DOMAIN it.stores :
        it.loads[it.stores[p].from] = <<"A", it.stores[p].to[3], it.stores[p].to[2]>>

StoresTo(it, c) == \E p \in DOMAIN it.stores : it.stores[p].to = <<"B", c[1], c[2]>>

Filled(q, c) == \E k \in DOMAIN q : StoresTo(q[k], c)

Square(c, x, y, side) == c[2] \in x .. x + side - 1 /\ c[1] \in y .. y + side - 1

(* They fill what belongs to the side x side block of A at x, y, and no more.*)
Covers(q, x, y, side, m, n) ==
    \A c \in InB(m, n) : Filled(q, c) <=> Square(c, x, y, side)

Good(q, m, n) == q \in Seq(Iteration) /\ \A k \in DOMAIN q : Fine(q[k], m, n)
Plain(q, m, n) == Good(q, m, n) /\ \A k \in DOMAIN q : Direct(q[k])

(* It stores to the cells of a column of B, w of them from row y.            *)
RowEffect(it, x, y, w, m, n) ==
    \A c \in InB(m, n) : StoresTo(it, c) <=> c[2] = x /\ c[1] \in y .. y + w - 1

LEMMA CopyRowShape ==
    ASSUME NEW m \in Nat, NEW n \in Nat, NEW x \in 0 .. n - 1, NEW y \in Nat, NEW w \in Nat,
           y + w =< m
    PROVE  /\ Fine(CopyRow(x, y, w), m, n) /\ Direct(CopyRow(x, y, w))
           /\ RowEffect(CopyRow(x, y, w), x, y, w, m, n)
<1> DEFINE it == CopyRow(x, y, w)
           L(p) == <<"A", x, y + p - 1>>
           S(p) == [to |-> <<"B", y + p - 1, x>>, from |-> p]
           Store == [to : Cell, from : Nat]
<1>1. /\ it = [loads |-> it.loads, stores |-> it.stores]
      /\ it.loads = [p \in 1 .. w |-> L(p)] /\ it.stores = [p \in 1 .. w |-> S(p)]
  BY DEF CopyRow
<1>2. \A p \in 1 .. w : L(p) \in Cell /\ S(p) \in Store
  BY DEF Cell
<1>3. \A p \in 1 .. w : /\ S(p).to = <<"B", y + p - 1, x>> /\ S(p).from = p
                        /\ S(p).to[1] = "B" /\ S(p).to[2] = y + p - 1 /\ S(p).to[3] = x
                        /\ L(p) = <<"A", x, y + p - 1>>
                        /\ L(p)[1] = "A" /\ L(p)[2] = x /\ L(p)[3] = y + p - 1
  OBVIOUS
<1> HIDE DEF it, L, S, Store
<1>4. DOMAIN it.loads = 1 .. w /\ DOMAIN it.stores = 1 .. w
  BY <1>1
<1>5. \A p \in 1 .. w : it.loads[p] = L(p) /\ it.stores[p] = S(p)
  BY <1>1
<1>6. it \in Iteration
  <2>1. it.loads \in Seq(Cell)
    BY <1>1, <1>2, SMTT(30)
  <2>2. it.stores \in Seq(Store)
    BY <1>1, <1>2, SMTT(30)
  <2> QED BY <1>1, <2>1, <2>2 DEF Iteration, Store
<1>7. Fine(it, m, n)
  <2>1. \A p \in 1 .. w : Within(L(p), m, n) /\ Within(S(p).to, m, n)
    BY <1>3 DEF Within
  <2>2. \A p \in DOMAIN it.loads : Within(it.loads[p], m, n)
    BY <1>4, <1>5, <2>1
  <2>3. \A p \in DOMAIN it.stores :
          /\ it.stores[p].from \in DOMAIN it.loads
          /\ it.stores[p].to[1] = "B" /\ Within(it.stores[p].to, m, n)
    BY <1>3, <1>4, <1>5, <2>1
  <2>4. \A p \in DOMAIN it.stores, q \in DOMAIN it.stores :
          it.stores[p].to = it.stores[q].to => p = q
    <3>1. \A p \in 1 .. w, q \in 1 .. w : S(p).to[2] = S(q).to[2] => p = q
      BY <1>3
    <3> QED BY <1>4, <1>5, <3>1
  <2> QED BY <1>6, <2>2, <2>3, <2>4 DEF Fine
<1>8. Direct(it)
  BY <1>3, <1>4, <1>5, SMTT(30) DEF Direct
<1>9. ASSUME NEW c \in InB(m, n), c[2] = x, c[1] \in y .. y + w - 1
      PROVE  StoresTo(it, c)
  <2> DEFINE p == c[1] - y + 1
  <2>1. p \in 1 .. w /\ y + p - 1 = c[1]
    BY <1>9 DEF InB
  <2> HIDE DEF p
  <2>2. it.stores[p].to = <<"B", c[1], c[2]>>
    BY <1>3, <1>5, <1>9, <2>1
  <2> QED BY <1>4, <2>1, <2>2 DEF StoresTo
<1>10. ASSUME NEW c \in InB(m, n), StoresTo(it, c)
       PROVE  c[2] = x /\ c[1] \in y .. y + w - 1
  <2>1. PICK p \in 1 .. w : S(p).to = <<"B", c[1], c[2]>>
    BY <1>4, <1>5, <1>10 DEF StoresTo
  <2>2. S(p).to[2] = c[1] /\ S(p).to[3] = c[2]
    BY <2>1
  <2>3. c[1] = y + p - 1 /\ c[2] = x
    BY <1>3, <2>2
  <2> QED BY <2>3
<1> QED BY <1>7, <1>8, <1>9, <1>10 DEF it, RowEffect

(* A row of the upper half of a block: its left half goes to its place, its  *)
(* right half to where the lower left half of the block belongs.             *)
ParkEffect(it, x, y, k) ==
    /\ DOMAIN it.stores = 1 .. 8
    /\ \A p \in 1 .. 8 : it.stores[p].from = p
    /\ \A p \in 1 .. 4 : /\ it.stores[p].to = <<"B", y + p - 1, x + k>>
                         /\ it.loads[p] = <<"A", x + k, y + p - 1>>
    /\ \A p \in 5 .. 8 : /\ it.stores[p].to = <<"B", y + p - 5, x + k + 4>>
                         /\ it.loads[p] = <<"A", x + k, y + p - 1>>

LEMMA ParkShape ==
    ASSUME NEW m \in Nat, NEW n \in Nat, NEW x \in Nat, NEW y \in Nat, NEW k \in 0 .. 3,
           x + 8 =< n, y + 8 =< m
    PROVE  Fine(Park(x, y, k), m, n) /\ ParkEffect(Park(x, y, k), x, y, k)
<1> DEFINE it == Park(x, y, k)
           L(p) == <<"A", x + k, y + p - 1>>
           S(p) == IF p =< 4 THEN [to |-> <<"B", y + p - 1, x + k>>, from |-> p]
                             ELSE [to |-> <<"B", y + p - 5, x + k + 4>>, from |-> p]
           Store == [to : Cell, from : Nat]
<1>1. /\ it = [loads |-> it.loads, stores |-> it.stores]
      /\ it.loads = [p \in 1 .. 8 |-> L(p)] /\ it.stores = [p \in 1 .. 8 |-> S(p)]
  BY DEF Park
<1>2. \A p \in 1 .. 8 : L(p) \in Cell /\ S(p) \in Store
  BY DEF Cell
<1>3. /\ \A p \in 1 .. 8 : /\ S(p).from = p /\ S(p).to[1] = "B"
                           /\ L(p) = <<"A", x + k, y + p - 1>>
                           /\ L(p)[1] = "A" /\ L(p)[2] = x + k /\ L(p)[3] = y + p - 1
      /\ \A p \in 1 .. 4 : /\ S(p).to = <<"B", y + p - 1, x + k>>
                           /\ S(p).to[2] = y + p - 1 /\ S(p).to[3] = x + k
      /\ \A p \in 5 .. 8 : /\ S(p).to = <<"B", y + p - 5, x + k + 4>>
                           /\ S(p).to[2] = y + p - 5 /\ S(p).to[3] = x + k + 4
  OBVIOUS
<1> HIDE DEF it, L, S, Store
<1>4. DOMAIN it.loads = 1 .. 8 /\ DOMAIN it.stores = 1 .. 8
  BY <1>1
<1>5. \A p \in 1 .. 8 : it.loads[p] = L(p) /\ it.stores[p] = S(p)
  BY <1>1
<1>6. it \in Iteration
  <2>1. it.loads \in Seq(Cell)
    BY <1>1, <1>2
  <2>2. it.stores \in Seq(Store)
    BY <1>1, <1>2
  <2> QED BY <1>1, <2>1, <2>2 DEF Iteration, Store
<1>7. Fine(it, m, n)
  <2>1. \A p \in 1 .. 8 : Within(L(p), m, n)
    BY <1>3 DEF Within
  <2>2. \A p \in 1 .. 8 : Within(S(p).to, m, n)
    <3>1. \A p \in 1 .. 4 : Within(S(p).to, m, n)
      BY <1>3 DEF Within
    <3>2. \A p \in 5 .. 8 : Within(S(p).to, m, n)
      BY <1>3 DEF Within
    <3> QED BY <3>1, <3>2
  <2>3. \A p \in DOMAIN it.loads : Within(it.loads[p], m, n)
    BY <1>4, <1>5, <2>1
  <2>4. \A p \in DOMAIN it.stores :
          /\ it.stores[p].from \in DOMAIN it.loads
          /\ it.stores[p].to[1] = "B" /\ Within(it.stores[p].to, m, n)
    BY <1>3, <1>4, <1>5, <2>2
  <2>5. \A p \in 1 .. 8, q \in 1 .. 8 :
           S(p).to[2] = S(q).to[2] /\ S(p).to[3] = S(q).to[3] => p = q
    BY <1>3
  <2>6. \A p \in DOMAIN it.stores, q \in DOMAIN it.stores :
          it.stores[p].to = it.stores[q].to => p = q
    BY <1>4, <1>5, <2>5
  <2> QED BY <1>6, <2>3, <2>4, <2>6 DEF Fine
<1>8. /\ \A p \in 1 .. 8 : it.stores[p].from = p
      /\ \A p \in 1 .. 4 : /\ it.stores[p].to = <<"B", y + p - 1, x + k>>
                           /\ it.loads[p] = <<"A", x + k, y + p - 1>>
      /\ \A p \in 5 .. 8 : /\ it.stores[p].to = <<"B", y + p - 5, x + k + 4>>
                           /\ it.loads[p] = <<"A", x + k, y + p - 1>>
  BY <1>3, <1>5
<1> QED BY <1>4, <1>7, <1>8 DEF it, ParkEffect

(* What was parked goes to its place, and a column of A takes its place.     *)
SwapEffect(it, x, y, k) ==
    /\ DOMAIN it.stores = 1 .. 8
    /\ \A p \in 1 .. 4 : /\ it.stores[p].to = <<"B", y + k, x + p + 3>>
                         /\ it.loads[it.stores[p].from] = <<"A", x + p + 3, y + k>>
    /\ \A p \in 5 .. 8 : /\ it.stores[p].to = <<"B", y + k + 4, x + p - 5>>
                         /\ it.loads[it.stores[p].from] = <<"B", y + k, x + p - 1>>

LEMMA SwapShape ==
    ASSUME NEW m \in Nat, NEW n \in Nat, NEW x \in Nat, NEW y \in Nat, NEW k \in 0 .. 3,
           x + 8 =< n, y + 8 =< m
    PROVE  Fine(Swap(x, y, k), m, n) /\ SwapEffect(Swap(x, y, k), x, y, k)
<1> DEFINE it == Swap(x, y, k)
           L(p) == IF p =< 4 THEN <<"B", y + k, x + p + 3>> ELSE <<"A", x + p - 1, y + k>>
           S(p) == IF p =< 4 THEN [to |-> <<"B", y + k, x + p + 3>>, from |-> p + 4]
                             ELSE [to |-> <<"B", y + k + 4, x + p - 5>>, from |-> p - 4]
           Store == [to : Cell, from : Nat]
<1>1. /\ it = [loads |-> it.loads, stores |-> it.stores]
      /\ it.loads = [p \in 1 .. 8 |-> L(p)] /\ it.stores = [p \in 1 .. 8 |-> S(p)]
  BY DEF Swap
<1>2. \A p \in 1 .. 8 : L(p) \in Cell /\ S(p) \in Store
  BY DEF Cell
<1>3. /\ \A p \in 1 .. 8 : S(p).to[1] = "B"
      /\ \A p \in 1 .. 4 : /\ S(p).to = <<"B", y + k, x + p + 3>> /\ S(p).from = p + 4
                           /\ S(p).to[2] = y + k /\ S(p).to[3] = x + p + 3
                           /\ L(p) = <<"B", y + k, x + p + 3>>
                           /\ L(p)[1] = "B" /\ L(p)[2] = y + k /\ L(p)[3] = x + p + 3
      /\ \A p \in 5 .. 8 : /\ S(p).to = <<"B", y + k + 4, x + p - 5>> /\ S(p).from = p - 4
                           /\ S(p).to[2] = y + k + 4 /\ S(p).to[3] = x + p - 5
                           /\ L(p) = <<"A", x + p - 1, y + k>>
                           /\ L(p)[1] = "A" /\ L(p)[2] = x + p - 1 /\ L(p)[3] = y + k
  OBVIOUS
<1> HIDE DEF it, L, S, Store
<1>4. DOMAIN it.loads = 1 .. 8 /\ DOMAIN it.stores = 1 .. 8
  BY <1>1
<1>5. \A p \in 1 .. 8 : it.loads[p] = L(p) /\ it.stores[p] = S(p)
  BY <1>1
<1>6. it \in Iteration
  <2>1. it.loads \in Seq(Cell)
    BY <1>1, <1>2
  <2>2. it.stores \in Seq(Store)
    BY <1>1, <1>2
  <2> QED BY <1>1, <2>1, <2>2 DEF Iteration, Store
<1>7. Fine(it, m, n)
  <2>1. \A p \in 1 .. 8 : Within(L(p), m, n) /\ Within(S(p).to, m, n)
    <3>1. \A p \in 1 .. 4 : Within(L(p), m, n) /\ Within(S(p).to, m, n)
      BY <1>3 DEF Within
    <3>2. \A p \in 5 .. 8 : Within(L(p), m, n) /\ Within(S(p).to, m, n)
      BY <1>3 DEF Within
    <3> QED BY <3>1, <3>2
  <2>2. \A p \in 1 .. 8 : S(p).from \in 1 .. 8
    <3>1. \A p \in 1 .. 4 : S(p).from \in 1 .. 8
      BY <1>3
    <3>2. \A p \in 5 .. 8 : S(p).from \in 1 .. 8
      BY <1>3
    <3> QED BY <3>1, <3>2
  <2>3. \A p \in DOMAIN it.loads : Within(it.loads[p], m, n)
    BY <1>4, <1>5, <2>1
  <2>4. \A p \in DOMAIN it.stores :
          /\ it.stores[p].from \in DOMAIN it.loads
          /\ it.stores[p].to[1] = "B" /\ Within(it.stores[p].to, m, n)
    BY <1>3, <1>4, <1>5, <2>1, <2>2
  <2>5. \A p \in 1 .. 8, q \in 1 .. 8 :
           S(p).to[2] = S(q).to[2] /\ S(p).to[3] = S(q).to[3] => p = q
    BY <1>3
  <2>6. \A p \in DOMAIN it.stores, q \in DOMAIN it.stores :
          it.stores[p].to = it.stores[q].to => p = q
    BY <1>4, <1>5, <2>5
  <2> QED BY <1>6, <2>3, <2>4, <2>6 DEF Fine
<1>8. /\ \A p \in 1 .. 4 : /\ it.stores[p].to = <<"B", y + k, x + p + 3>>
                           /\ it.stores[p].from = p + 4
                           /\ it.loads[p + 4] = <<"A", x + (p + 4) - 1, y + k>>
      /\ \A p \in 5 .. 8 : /\ it.stores[p].to = <<"B", y + k + 4, x + p - 5>>
                           /\ it.stores[p].from = p - 4
                           /\ it.loads[p - 4] = <<"B", y + k, x + (p - 4) + 3>>
  BY <1>3, <1>5
<1>9. /\ \A p \in 1 .. 4 : x + (p + 4) - 1 = x + p + 3
      /\ \A p \in 5 .. 8 : x + (p - 4) + 3 = x + p - 1
  OBVIOUS
<1>10. SwapEffect(it, x, y, k)
  <2>1. \A p \in 1 .. 4 : it.loads[it.stores[p].from] = <<"A", x + p + 3, y + k>>
    BY <1>8, <1>9
  <2>2. \A p \in 5 .. 8 : it.loads[it.stores[p].from] = <<"B", y + k, x + p - 1>>
    BY <1>8, <1>9
  <2> QED BY <1>4, <1>8, <2>1, <2>2 DEF SwapEffect
<1> QED BY <1>7, <1>10 DEF it

-----------------------------------------------------------------------------
(* Sequences of iterations.                                                  *)

LEMMA Built ==
    ASSUME NEW m, NEW n, NEW h \in Nat, NEW q, q = [k \in 1 .. h |-> q[k]],
           \A k \in 1 .. h : Fine(q[k], m, n) /\ Direct(q[k])
    PROVE  Plain(q, m, n)
<1>1. \A k \in 1 .. h : q[k] \in Iteration
  BY DEF Fine
<1>2. q \in Seq(Iteration) /\ DOMAIN q = 1 .. h
  BY <1>1
<1> QED BY <1>2 DEF Plain, Good

LEMMA Joined ==
    ASSUME NEW m, NEW n, NEW q, NEW r, Plain(q, m, n), Plain(r, m, n)
    PROVE  /\ Plain(q \o r, m, n)
           /\ \A c : Filled(q \o r, c) <=> Filled(q, c) \/ Filled(r, c)
<1>1. q \in Seq(Iteration) /\ r \in Seq(Iteration)
  BY DEF Plain, Good
<1>2. /\ q \o r \in Seq(Iteration) /\ Len(q \o r) = Len(q) + Len(r)
      /\ \A k \in 1 .. Len(q) : (q \o r)[k] = q[k]
      /\ \A k \in 1 .. Len(r) : (q \o r)[Len(q) + k] = r[k]
  BY <1>1
<1>3. /\ DOMAIN q = 1 .. Len(q) /\ DOMAIN r = 1 .. Len(r) /\ Len(q) \in Nat /\ Len(r) \in Nat
      /\ DOMAIN (q \o r) = 1 .. Len(q) + Len(r)
  BY <1>1, <1>2
<1>4. \A k \in DOMAIN (q \o r) : Fine((q \o r)[k], m, n) /\ Direct((q \o r)[k])
  <2> SUFFICES ASSUME NEW k \in DOMAIN (q \o r)
               PROVE  Fine((q \o r)[k], m, n) /\ Direct((q \o r)[k])
    OBVIOUS
  <2>1. CASE k =< Len(q)
    BY <1>2, <1>3, <2>1 DEF Plain, Good
  <2>2. CASE k > Len(q)
    <3>1. k - Len(q) \in 1 .. Len(r) /\ Len(q) + (k - Len(q)) = k
      BY <1>3, <2>2
    <3>2. (q \o r)[k] = r[k - Len(q)]
      BY <1>2, <3>1
    <3> QED BY <1>3, <3>1, <3>2 DEF Plain, Good
  <2> QED BY <1>3, <2>1, <2>2
<1>5. ASSUME NEW c, Filled(q, c) PROVE Filled(q \o r, c)
  BY <1>2, <1>3, <1>5 DEF Filled
<1>6. ASSUME NEW c, Filled(r, c) PROVE Filled(q \o r, c)
  <2>1. PICK k \in 1 .. Len(r) : StoresTo(r[k], c)
    BY <1>3, <1>6 DEF Filled
  <2>2. Len(q) + k \in DOMAIN (q \o r) /\ (q \o r)[Len(q) + k] = r[k]
    BY <1>2, <1>3
  <2> QED BY <2>1, <2>2 DEF Filled
<1>7. ASSUME NEW c, Filled(q \o r, c) PROVE Filled(q, c) \/ Filled(r, c)
  <2>1. PICK k \in DOMAIN (q \o r) : StoresTo((q \o r)[k], c)
    BY <1>7 DEF Filled
  <2>2. CASE k =< Len(q)
    BY <1>2, <1>3, <2>1, <2>2 DEF Filled
  <2>3. CASE k > Len(q)
    <3>1. k - Len(q) \in 1 .. Len(r) /\ Len(q) + (k - Len(q)) = k
      BY <1>3, <2>3
    <3>2. (q \o r)[k] = r[k - Len(q)]
      BY <1>2, <3>1
    <3> QED BY <1>3, <2>1, <3>1, <3>2 DEF Filled
  <2> QED BY <1>3, <2>2, <2>3
<1> QED BY <1>2, <1>4, <1>5, <1>6, <1>7 DEF Plain, Good

LEMMA RowsShape ==
    ASSUME NEW m \in Nat, NEW n \in Nat, NEW x \in Nat, NEW y \in Nat,
           x + 8 =< n, y + 8 =< m
    PROVE  Plain(Rows(x, y), m, n) /\ Covers(Rows(x, y), x, y, 8, m, n)
<1> DEFINE F(k) == CopyRow(x + k - 1, y, 8)
<1>1. \A k \in 1 .. 8 : x + k - 1 \in 0 .. n - 1
  OBVIOUS
<1>2. \A k \in 1 .. 8 :
         /\ Fine(F(k), m, n) /\ Direct(F(k))
         /\ RowEffect(F(k), x + k - 1, y, 8, m, n)
  BY <1>1, CopyRowShape
<1>3. Rows(x, y) = [k \in 1 .. 8 |-> F(k)]
  BY DEF Rows
<1> HIDE DEF F
<1>4. Plain(Rows(x, y), m, n)
  <2> DEFINE q == Rows(x, y)
             h == 8
  <2>1. q = [k \in 1 .. h |-> q[k]] /\ h \in Nat
    BY <1>3
  <2>2. \A k \in 1 .. h : Fine(q[k], m, n) /\ Direct(q[k])
    BY <1>2, <1>3
  <2> HIDE DEF q, h
  <2>3. Plain(q, m, n)
    BY <2>1, <2>2, Built
  <2> QED BY <2>3 DEF q
<1>5. ASSUME NEW c \in InB(m, n), Square(c, x, y, 8)
      PROVE  Filled(Rows(x, y), c)
  <2> DEFINE k == c[2] - x + 1
  <2>1. k \in 1 .. 8 /\ c[2] = x + k - 1
    BY <1>5 DEF InB, Square
  <2> HIDE DEF k
  <2>2. StoresTo(F(k), c)
    BY <1>2, <1>5, <2>1 DEF Square, RowEffect
  <2> QED BY <1>3, <2>1, <2>2 DEF Filled
<1>6. ASSUME NEW c \in InB(m, n), Filled(Rows(x, y), c)
      PROVE  Square(c, x, y, 8)
  <2>1. PICK k \in 1 .. 8 : StoresTo(F(k), c)
    BY <1>3, <1>6 DEF Filled
  <2>2. c[2] = x + k - 1 /\ c[1] \in y .. y + 8 - 1
    BY <1>2, <2>1 DEF RowEffect
  <2> QED BY <2>2 DEF Square
<1> QED BY <1>4, <1>5, <1>6 DEF Covers

LEMMA CellsShape ==
    ASSUME NEW m \in Nat, NEW n \in Nat, NEW x \in 0 .. n - 1, NEW y \in 0 .. m - 1,
           NEW side \in Nat \ {0}
    PROVE  /\ Plain(Cells(x, y, side, m, n), m, n)
           /\ Covers(Cells(x, y, side, m, n), x, y, side, m, n)
<1> DEFINE height == min(n, x + side) - x
           width == min(m, y + side) - y
           F(p) == CopyRow(x + (p - 1) \div width, y + ((p - 1) % width), 1)
           q == Cells(x, y, side, m, n)
<1>1. q = [p \in 1 .. height * width |-> F(p)]
  BY DEF Cells
<1>2. /\ height \in Nat /\ width \in Nat /\ x + height =< n /\ y + width =< m
      /\ \A c \in 0 .. n - 1 : c \in x .. x + side - 1 => c - x \in 0 .. height - 1
      /\ \A c \in 0 .. m - 1 : c \in y .. y + side - 1 => c - y \in 0 .. width - 1
  BY DEF min
<1>3. \A p \in 1 .. height * width : F(p) = CopyRow(x + (p - 1) \div width, y + ((p - 1) % width), 1)
  OBVIOUS
<1> HIDE DEF height, width, F, q
<1>4. height * width \in Nat
  BY <1>2
<1>5. ASSUME NEW p \in 1 .. height * width
      PROVE  /\ Fine(F(p), m, n) /\ Direct(F(p))
             /\ \A c \in InB(m, n) :
                   StoresTo(F(p), c) <=>
                      /\ c[2] = x + (p - 1) \div width
                      /\ c[1] = y + ((p - 1) % width)
             /\ (p - 1) \div width \in 0 .. height - 1
             /\ (p - 1) % width \in 0 .. width - 1
  <2> DEFINE a == (p - 1) \div width
             b == (p - 1) % width
  <2>1. p - 1 \in 0 .. height * width - 1
    BY <1>4
  <2>2. a \in 0 .. height - 1 /\ b \in 0 .. width - 1
    BY <1>2, <2>1, RowAndColumn
  <2>3. F(p) = CopyRow(x + a, y + b, 1)
    BY <1>3
  <2> HIDE DEF a, b
  <2>4. x + a \in 0 .. n - 1 /\ y + b \in Nat /\ (y + b) + 1 =< m
    BY <1>2, <2>2
  <2>5. /\ Fine(F(p), m, n) /\ Direct(F(p))
        /\ RowEffect(F(p), x + a, y + b, 1, m, n)
    BY <2>3, <2>4, CopyRowShape
  <2>6. \A z \in Int : z \in y + b .. (y + b) + 1 - 1 <=> z = y + b
    BY <2>4
  <2>7. \A c \in InB(m, n) : c[1] \in Int
    BY DEF InB
  <2>8. \A c \in InB(m, n) : StoresTo(F(p), c) <=> c[2] = x + a /\ c[1] = y + b
    BY <2>5, <2>6, <2>7 DEF RowEffect
  <2> QED BY <2>2, <2>5, <2>8 DEF a, b
<1>6. Plain(q, m, n)
  <2>1. /\ \A k \in 1 .. height * width : q[k] = F(k)
        /\ q = [k \in 1 .. height * width |-> q[k]]
    BY <1>1
  <2> QED BY <1>4, <1>5, <2>1, Built
<1>7. ASSUME NEW c \in InB(m, n), Square(c, x, y, side)
      PROVE  Filled(q, c)
  <2> DEFINE a == c[2] - x
             b == c[1] - y
             p == a * width + b + 1
  <2>1. a \in 0 .. height - 1 /\ b \in 0 .. width - 1 /\ c[2] = x + a /\ c[1] = y + b
    BY <1>2, <1>7 DEF InB, Square
  <2> HIDE DEF a, b
  <2>2. /\ a * width + b \in 0 .. height * width - 1
        /\ (a * width + b) \div width = a /\ (a * width + b) % width = b
    BY <1>2, <2>1, NumberOf
  <2>3. p \in 1 .. height * width /\ p - 1 = a * width + b
    BY <1>4, <2>2
  <2> HIDE DEF p
  <2>4. StoresTo(F(p), c)
    BY <1>5, <2>1, <2>2, <2>3
  <2> QED BY <1>1, <2>3, <2>4 DEF Filled
<1>8. ASSUME NEW c \in InB(m, n), Filled(q, c)
      PROVE  Square(c, x, y, side)
  <2>1. PICK p \in 1 .. height * width : StoresTo(F(p), c)
    BY <1>1, <1>8 DEF Filled
  <2>2. /\ c[2] = x + (p - 1) \div width /\ c[1] = y + ((p - 1) % width)
        /\ (p - 1) \div width \in 0 .. height - 1 /\ (p - 1) % width \in 0 .. width - 1
    BY <1>5, <2>1
  <2>3. height =< side /\ width =< side
    BY DEF height, width, min
  <2> QED BY <1>2, <2>2, <2>3 DEF Square
<1> QED BY <1>6, <1>7, <1>8 DEF Covers, q

LEMMA EdgeShape ==
    ASSUME NEW m \in Nat, NEW n \in Nat, NEW x \in Nat, NEW y \in Nat
    PROVE  Plain(Edge(x, y, m, n), m, n) /\ Covers(Edge(x, y, m, n), x, y, 8, m, n)
<1>1. CASE x > n \/ y > m
  <2>1. Edge(x, y, m, n) = <<>>
    BY <1>1 DEF Edge
  <2>2. Plain(<<>>, m, n)
    BY DEF Plain, Good
  <2>3. Covers(<<>>, x, y, 8, m, n)
    BY <1>1 DEF Covers, InB, Square, Filled
  <2> QED BY <2>1, <2>2, <2>3
<1>2. CASE ~(x > n \/ y > m)
  <2> DEFINE height == min(n, x + 8) - x
             width == min(m, y + 8) - y
             F(k) == CopyRow(x + k - 1, y, width)
             q == Edge(x, y, m, n)
  <2>1. q = [k \in 1 .. height |-> F(k)]
    BY <1>2 DEF Edge
  <2>2. /\ height \in Nat /\ width \in Nat /\ x + height =< n /\ y + width =< m
        /\ \A c \in 0 .. n - 1 : c \in x .. x + 8 - 1 => c - x \in 0 .. height - 1
        /\ \A c \in 0 .. m - 1 : c \in y .. y + 8 - 1 => c \in y .. y + width - 1
    BY <1>2 DEF min
  <2> HIDE DEF height, width, q
  <2>3. \A k \in 1 .. height : x + k - 1 \in 0 .. n - 1
    BY <2>2
  <2>4. \A k \in 1 .. height :
           /\ Fine(F(k), m, n) /\ Direct(F(k))
           /\ RowEffect(F(k), x + k - 1, y, width, m, n)
    BY <2>2, <2>3, CopyRowShape
  <2> HIDE DEF F
  <2>5. Plain(q, m, n)
    <3>1. /\ \A k \in 1 .. height : q[k] = F(k)
          /\ q = [k \in 1 .. height |-> q[k]]
      BY <2>1
    <3> QED BY <2>2, <2>4, <3>1, Built
  <2>6. ASSUME NEW c \in InB(m, n), Square(c, x, y, 8)
        PROVE  Filled(q, c)
    <3> DEFINE k == c[2] - x + 1
    <3>1. c[2] \in 0 .. n - 1 /\ c[1] \in 0 .. m - 1
      BY DEF InB
    <3>2. c[2] - x \in 0 .. height - 1 /\ c[1] \in y .. y + width - 1
      <4> HIDE DEF k
      <4> QED BY <2>2, <2>6, <3>1 DEF Square
    <3>3. k \in 1 .. height /\ c[2] = x + k - 1
      BY <2>2, <3>1, <3>2
    <3> HIDE DEF k
    <3>4. StoresTo(F(k), c)
      BY <2>4, <3>2, <3>3 DEF RowEffect
    <3> QED BY <2>1, <3>3, <3>4 DEF Filled
  <2>7. ASSUME NEW c \in InB(m, n), Filled(q, c)
        PROVE  Square(c, x, y, 8)
    <3>1. PICK k \in 1 .. height : StoresTo(F(k), c)
      BY <2>1, <2>7 DEF Filled
    <3>2. c[2] = x + k - 1 /\ c[1] \in y .. y + width - 1
      BY <2>4, <3>1 DEF RowEffect
    <3>3. height =< 8 /\ width =< 8
      BY DEF height, width, min
    <3> QED BY <2>2, <3>2, <3>3 DEF Square
  <2> QED BY <2>5, <2>6, <2>7 DEF Covers, q
<1> QED BY <1>1, <1>2

LEMMA QuartersShape ==
    ASSUME NEW m \in Nat, NEW n \in Nat, NEW x \in Nat, NEW y \in Nat
    PROVE  /\ Plain(Quarters(x, y, m, n), m, n)
           /\ Covers(Quarters(x, y, m, n), x, y, 16, m, n)
<1> DEFINE a == Edge(x, y, m, n)
           b == Edge(x + 8, y, m, n)
           d == Edge(x, y + 8, m, n)
           e == Edge(x + 8, y + 8, m, n)
<1>1. Quarters(x, y, m, n) = ((a \o b) \o d) \o e
  BY DEF Quarters
<1>2. x + 8 \in Nat /\ y + 8 \in Nat
  OBVIOUS
<1>3. /\ Plain(a, m, n) /\ Covers(a, x, y, 8, m, n)
      /\ Plain(b, m, n) /\ Covers(b, x + 8, y, 8, m, n)
      /\ Plain(d, m, n) /\ Covers(d, x, y + 8, 8, m, n)
      /\ Plain(e, m, n) /\ Covers(e, x + 8, y + 8, 8, m, n)
  BY <1>2, EdgeShape
<1> HIDE DEF a, b, d, e
<1>4. /\ Plain(a \o b, m, n)
      /\ \A c : Filled(a \o b, c) <=> Filled(a, c) \/ Filled(b, c)
  BY <1>3, Joined
<1>5. /\ Plain((a \o b) \o d, m, n)
      /\ \A c : Filled((a \o b) \o d, c) <=> Filled(a \o b, c) \/ Filled(d, c)
  BY <1>3, <1>4, Joined, ZenonT(30)
<1>6. /\ Plain(((a \o b) \o d) \o e, m, n)
      /\ \A c : Filled(((a \o b) \o d) \o e, c) <=> Filled((a \o b) \o d, c) \/ Filled(e, c)
  <2> DEFINE g == (a \o b) \o d
  <2>1. Plain(g, m, n)
    BY <1>5
  <2> HIDE DEF g
  <2>2. Plain(g \o e, m, n) /\ \A c : Filled(g \o e, c) <=> Filled(g, c) \/ Filled(e, c)
    BY <1>3, <2>1, Joined
  <2> QED BY <2>2 DEF g
<1>7. ASSUME NEW c \in InB(m, n)
      PROVE  Filled(((a \o b) \o d) \o e, c) <=> Square(c, x, y, 16)
  <2>1. c[2] \in Nat /\ c[1] \in Nat
    BY DEF InB
  <2>2. Square(c, x, y, 16) <=> \/ Square(c, x, y, 8) \/ Square(c, x + 8, y, 8)
                               \/ Square(c, x, y + 8, 8) \/ Square(c, x + 8, y + 8, 8)
    BY <2>1 DEF Square
  <2>3. /\ Filled(a, c) <=> Square(c, x, y, 8)
        /\ Filled(b, c) <=> Square(c, x + 8, y, 8)
        /\ Filled(d, c) <=> Square(c, x, y + 8, 8)
        /\ Filled(e, c) <=> Square(c, x + 8, y + 8, 8)
    BY <1>3 DEF Covers
  <2> QED BY <1>4, <1>5, <1>6, <2>2, <2>3
<1> QED BY <1>1, <1>6, <1>7 DEF Covers

(* The steps of a whole block in place.                                      *)
SubblockStep(x, y, s) ==
    IF s =< 4 THEN Park(x, y, s - 1)
    ELSE IF s =< 8 THEN Swap(x, y, s - 5)
    ELSE CopyRow(x + s - 5, y + 4, 4)

LEMMA SubblockShape ==
    ASSUME NEW m \in Nat, NEW n \in Nat, NEW x \in Nat, NEW y \in Nat,
           x + 8 =< n, y + 8 =< m
    PROVE  /\ Good(Subblock(x, y), m, n) /\ Len(Subblock(x, y)) = 12
           /\ \A s \in 1 .. 12 : Subblock(x, y)[s] = SubblockStep(x, y, s)
           /\ \A s \in 9 .. 12 : Direct(SubblockStep(x, y, s))
           /\ Covers(Subblock(x, y), x, y, 8, m, n)
<1> DEFINE a == [k \in 1 .. 4 |-> Park(x, y, k - 1)]
           b == [k \in 1 .. 4 |-> Swap(x, y, k - 1)]
           d == [k \in 1 .. 4 |-> CopyRow(x + k + 3, y + 4, 4)]
           q == Subblock(x, y)
<1>1. \A k \in 1 .. 4 : Fine(Park(x, y, k - 1), m, n) /\ Fine(Swap(x, y, k - 1), m, n)
  <2>1. \A k \in 1 .. 4 : k - 1 \in 0 .. 3
    OBVIOUS
  <2> QED BY <2>1, ParkShape, SwapShape
<1>2. \A k \in 1 .. 4 :
         /\ Fine(CopyRow(x + k + 3, y + 4, 4), m, n) /\ Direct(CopyRow(x + k + 3, y + 4, 4))
         /\ RowEffect(CopyRow(x + k + 3, y + 4, 4), x + k + 3, y + 4, 4, m, n)
  <2>1. \A k \in 1 .. 4 : x + k + 3 \in 0 .. n - 1
    OBVIOUS
  <2>2. y + 4 \in Nat /\ 4 \in Nat /\ (y + 4) + 4 =< m
    OBVIOUS
  <2> QED BY <2>1, <2>2, CopyRowShape
<1>3. a \in Seq(Iteration) /\ b \in Seq(Iteration) /\ d \in Seq(Iteration)
  BY <1>1, <1>2 DEF Fine
<1>4. /\ Len(a) = 4 /\ Len(b) = 4 /\ Len(d) = 4
      /\ \A k \in 1 .. 4 : /\ a[k] = Park(x, y, k - 1) /\ b[k] = Swap(x, y, k - 1)
                           /\ d[k] = CopyRow(x + k + 3, y + 4, 4)
  OBVIOUS
<1>5. q = (a \o b) \o d
  BY DEF Subblock
<1> HIDE DEF a, b, d, q
<1>6. /\ q \in Seq(Iteration) /\ Len(q) = 12
      /\ \A s \in 1 .. 4 : q[s] = a[s]
      /\ \A s \in 5 .. 8 : q[s] = b[s - 4]
      /\ \A s \in 9 .. 12 : q[s] = d[s - 8]
  <2> DEFINE ab == a \o b
  <2>1. /\ ab \in Seq(Iteration) /\ Len(ab) = Len(a) + Len(b)
        /\ \A k \in 1 .. Len(a) : ab[k] = a[k]
        /\ \A k \in 1 .. Len(b) : ab[Len(a) + k] = b[k]
    BY <1>3
  <2> HIDE DEF ab
  <2>2. /\ ab \o d \in Seq(Iteration) /\ Len(ab \o d) = Len(ab) + Len(d)
        /\ \A k \in 1 .. Len(ab) : (ab \o d)[k] = ab[k]
        /\ \A k \in 1 .. Len(d) : (ab \o d)[Len(ab) + k] = d[k]
    <3>1. ab \in Seq(Iteration)
      BY <2>1
    <3> QED BY <1>3, <3>1
  <2>3. q = ab \o d
    BY <1>5 DEF ab
  <2>4. Len(ab) = 8 /\ Len(q) = 12
    BY <1>4, <2>1, <2>2, <2>3
  <2>5. \A s \in 1 .. 4 : q[s] = a[s]
    <3>1. \A s \in 1 .. 4 : s \in 1 .. Len(a) /\ s \in 1 .. Len(ab)
      BY <1>4, <2>4
    <3> QED BY <2>1, <2>2, <2>3, <3>1
  <2>6. \A s \in 5 .. 8 : q[s] = b[s - 4]
    <3>1. \A s \in 5 .. 8 : /\ s - 4 \in 1 .. Len(b) /\ s = Len(a) + (s - 4)
                            /\ s \in 1 .. Len(ab)
      BY <1>4, <2>4
    <3> QED BY <2>1, <2>2, <2>3, <3>1
  <2>7. \A s \in 9 .. 12 : q[s] = d[s - 8]
    <3>1. \A s \in 9 .. 12 : s - 8 \in 1 .. Len(d) /\ s = Len(ab) + (s - 8)
      BY <1>4, <2>4
    <3> QED BY <2>2, <2>3, <3>1
  <2> QED BY <2>2, <2>3, <2>4, <2>5, <2>6, <2>7
<1>7. /\ \A s \in 1 .. 4 : q[s] = Park(x, y, s - 1)
      /\ \A s \in 5 .. 8 : q[s] = Swap(x, y, s - 5)
      /\ \A s \in 9 .. 12 : q[s] = CopyRow(x + s - 5, y + 4, 4)
  <2>1. \A s \in 1 .. 4 : q[s] = Park(x, y, s - 1)
    BY <1>4, <1>6
  <2>2. \A s \in 5 .. 8 : s - 4 \in 1 .. 4 /\ (s - 4) - 1 = s - 5
    OBVIOUS
  <2>3. \A s \in 9 .. 12 : s - 8 \in 1 .. 4 /\ x + (s - 8) + 3 = x + s - 5
    OBVIOUS
  <2> QED BY <1>4, <1>6, <2>1, <2>2, <2>3
<1>8. \A s \in 1 .. 12 : q[s] = SubblockStep(x, y, s)
  <2>1. \A s \in 1 .. 4 : SubblockStep(x, y, s) = Park(x, y, s - 1)
    BY DEF SubblockStep
  <2>2. \A s \in 5 .. 8 : SubblockStep(x, y, s) = Swap(x, y, s - 5)
    BY DEF SubblockStep
  <2>3. \A s \in 9 .. 12 : SubblockStep(x, y, s) = CopyRow(x + s - 5, y + 4, 4)
    BY DEF SubblockStep
  <2> QED BY <1>7, <2>1, <2>2, <2>3
<1>9. \A s \in 1 .. 12 : Fine(q[s], m, n)
  <2>1. \A s \in 1 .. 4 : Fine(q[s], m, n)
    BY <1>1, <1>4, <1>6
  <2>2. \A s \in 5 .. 8 : s - 4 \in 1 .. 4
    OBVIOUS
  <2>3. \A s \in 9 .. 12 : s - 8 \in 1 .. 4
    OBVIOUS
  <2>4. \A s \in 5 .. 8 : Fine(q[s], m, n)
    BY <1>1, <1>4, <1>6, <2>2, SMTT(30)
  <2>5. \A s \in 9 .. 12 : Fine(q[s], m, n)
    <3>1. \A k \in 1 .. 4 : Fine(d[k], m, n)
      BY <1>2, <1>4
    <3> QED BY <1>6, <2>3, <3>1
  <2> QED BY <2>1, <2>4, <2>5
<1>10. \A s \in 9 .. 12 : Direct(SubblockStep(x, y, s))
  <2> SUFFICES ASSUME NEW s \in 9 .. 12 PROVE Direct(SubblockStep(x, y, s))
    OBVIOUS
  <2>1. s - 8 \in 1 .. 4 /\ s \in 1 .. 12
    OBVIOUS
  <2>2. Direct(d[s - 8])
    BY <1>2, <1>4, <2>1
  <2>3. SubblockStep(x, y, s) = d[s - 8]
    BY <1>6, <1>8, <2>1
  <2> QED BY <2>2, <2>3
<1>11. DOMAIN q = 1 .. 12
  BY <1>6
<1>12. ASSUME NEW c \in InB(m, n), Square(c, x, y, 8)
       PROVE  Filled(q, c)
  <2> DEFINE r == c[1] - y
             k == c[2] - x
  <2>1. r \in 0 .. 7 /\ k \in 0 .. 7 /\ c[1] = y + r /\ c[2] = x + k
    BY <1>12 DEF InB, Square
  <2> HIDE DEF r, k
  <2>2. CASE r =< 3 /\ k =< 3
    <3>1. k \in 0 .. 3 /\ k + 1 \in 1 .. 4 /\ (k + 1) - 1 = k /\ r + 1 \in 1 .. 4
          /\ y + (r + 1) - 1 = y + r /\ r + 1 \in 1 .. 8 /\ k + 1 \in 1 .. 12
      BY <2>1, <2>2
    <3>2. r + 1 \in DOMAIN Park(x, y, k).stores
          /\ Park(x, y, k).stores[r + 1].to = <<"B", c[1], c[2]>>
      <4>1. Fine(Park(x, y, k), m, n) /\ ParkEffect(Park(x, y, k), x, y, k)
        BY <3>1, ParkShape
      <4> QED BY <2>1, <3>1, <4>1 DEF ParkEffect
    <3>3. q[k + 1] = Park(x, y, k)
      BY <1>7, <3>1
    <3>4. StoresTo(q[k + 1], c)
      BY <3>2, <3>3 DEF StoresTo
    <3> QED BY <1>11, <3>1, <3>4 DEF Filled
  <2>3. CASE r =< 3 /\ k >= 4
    <3>1. r \in 0 .. 3 /\ r + 5 \in 5 .. 8 /\ (r + 5) - 5 = r /\ k - 3 \in 1 .. 4
          /\ x + (k - 3) + 3 = x + k /\ k - 3 \in 1 .. 8 /\ r + 5 \in 1 .. 12
      BY <2>1, <2>3
    <3>2. k - 3 \in DOMAIN Swap(x, y, r).stores
          /\ Swap(x, y, r).stores[k - 3].to = <<"B", c[1], c[2]>>
      <4>1. Fine(Swap(x, y, r), m, n) /\ SwapEffect(Swap(x, y, r), x, y, r)
        BY <3>1, SwapShape
      <4> QED BY <2>1, <3>1, <4>1 DEF SwapEffect
    <3>3. q[r + 5] = Swap(x, y, r)
      BY <1>7, <3>1
    <3>4. StoresTo(q[r + 5], c)
      BY <3>2, <3>3 DEF StoresTo
    <3> QED BY <1>11, <3>1, <3>4 DEF Filled
  <2>4. CASE r >= 4 /\ k =< 3
    <3>1. r - 4 \in 0 .. 3 /\ r + 1 \in 5 .. 8 /\ (r + 1) - 5 = r - 4 /\ k + 5 \in 5 .. 8
          /\ x + (k + 5) - 5 = x + k /\ y + (r - 4) + 4 = y + r
          /\ k + 5 \in 1 .. 8 /\ r + 1 \in 1 .. 12
      BY <2>1, <2>4
    <3>2. k + 5 \in DOMAIN Swap(x, y, r - 4).stores
          /\ Swap(x, y, r - 4).stores[k + 5].to = <<"B", c[1], c[2]>>
      <4>1. Fine(Swap(x, y, r - 4), m, n) /\ SwapEffect(Swap(x, y, r - 4), x, y, r - 4)
        BY <3>1, SwapShape
      <4> QED BY <2>1, <3>1, <4>1 DEF SwapEffect
    <3>3. q[r + 1] = Swap(x, y, r - 4)
      BY <1>7, <3>1
    <3>4. StoresTo(q[r + 1], c)
      BY <3>2, <3>3 DEF StoresTo
    <3> QED BY <1>11, <3>1, <3>4 DEF Filled
  <2>5. CASE r >= 4 /\ k >= 4
    <3>1. k - 3 \in 1 .. 4 /\ k + 5 \in 9 .. 12 /\ (k + 5) - 8 = k - 3
          /\ x + (k - 3) + 3 = x + k /\ c[1] \in y + 4 .. (y + 4) + 4 - 1 /\ k + 5 \in 1 .. 12
      BY <2>1, <2>5
    <3>2. StoresTo(CopyRow(x + (k - 3) + 3, y + 4, 4), c)
      BY <1>2, <2>1, <3>1 DEF RowEffect
    <3>3. q[k + 5] = CopyRow(x + (k - 3) + 3, y + 4, 4)
      BY <1>4, <1>6, <3>1
    <3> QED BY <1>11, <3>1, <3>2, <3>3 DEF Filled
  <2> QED BY <2>1, <2>2, <2>3, <2>4, <2>5
<1>13. ASSUME NEW c \in InB(m, n), Filled(q, c)
       PROVE  Square(c, x, y, 8)
  <2>1. PICK s \in 1 .. 12 : StoresTo(q[s], c)
    BY <1>11, <1>13 DEF Filled
  <2>2. CASE s =< 4
    <3> DEFINE k == s - 1
    <3>1. k \in 0 .. 3 /\ q[s] = Park(x, y, k)
      BY <1>7, <2>2
    <3> HIDE DEF k
    <3>2. Fine(Park(x, y, k), m, n) /\ ParkEffect(Park(x, y, k), x, y, k)
      BY <3>1, ParkShape
    <3>3. PICK p \in 1 .. 8 : Park(x, y, k).stores[p].to = <<"B", c[1], c[2]>>
      BY <2>1, <3>1, <3>2 DEF StoresTo, ParkEffect
    <3>4. CASE p \in 1 .. 4
      <4>1. <<"B", c[1], c[2]>> = <<"B", y + p - 1, x + k>>
        BY <3>2, <3>3, <3>4 DEF ParkEffect
      <4>2. c[1] = y + p - 1 /\ c[2] = x + k
        BY <4>1
      <4> QED BY <3>1, <3>4, <4>2 DEF Square
    <3>5. CASE p \in 5 .. 8
      <4>1. <<"B", c[1], c[2]>> = <<"B", y + p - 5, x + k + 4>>
        BY <3>2, <3>3, <3>5 DEF ParkEffect
      <4>2. c[1] = y + p - 5 /\ c[2] = x + k + 4
        BY <4>1
      <4> QED BY <3>1, <3>5, <4>2 DEF Square
    <3> QED BY <3>4, <3>5
  <2>3. CASE s \in 5 .. 8
    <3> DEFINE k == s - 5
    <3>1. k \in 0 .. 3 /\ q[s] = Swap(x, y, k)
      BY <1>7, <2>3
    <3> HIDE DEF k
    <3>2. Fine(Swap(x, y, k), m, n) /\ SwapEffect(Swap(x, y, k), x, y, k)
      BY <3>1, SwapShape
    <3>3. PICK p \in 1 .. 8 : Swap(x, y, k).stores[p].to = <<"B", c[1], c[2]>>
      BY <2>1, <3>1, <3>2 DEF StoresTo, SwapEffect
    <3>4. CASE p \in 1 .. 4
      <4>1. <<"B", c[1], c[2]>> = <<"B", y + k, x + p + 3>>
        BY <3>2, <3>3, <3>4 DEF SwapEffect
      <4>2. c[1] = y + k /\ c[2] = x + p + 3
        BY <4>1
      <4> QED BY <3>1, <3>4, <4>2 DEF Square
    <3>5. CASE p \in 5 .. 8
      <4>1. <<"B", c[1], c[2]>> = <<"B", y + k + 4, x + p - 5>>
        BY <3>2, <3>3, <3>5 DEF SwapEffect
      <4>2. c[1] = y + k + 4 /\ c[2] = x + p - 5
        BY <4>1
      <4> QED BY <3>1, <3>5, <4>2 DEF Square
    <3> QED BY <3>4, <3>5
  <2>4. CASE s \in 9 .. 12
    <3>1. s - 8 \in 1 .. 4 /\ q[s] = CopyRow(x + (s - 8) + 3, y + 4, 4)
      <4>1. s - 8 \in 1 .. 4 /\ q[s] = d[s - 8]
        BY <1>6, <2>4
      <4> QED BY <1>4, <4>1
    <3>2. c[2] = x + (s - 8) + 3 /\ c[1] \in y + 4 .. (y + 4) + 4 - 1
      BY <1>2, <2>1, <3>1 DEF RowEffect
    <3> QED BY <3>1, <3>2 DEF Square
  <2> QED BY <2>2, <2>3, <2>4
<1> QED BY <1>6, <1>8, <1>9, <1>10, <1>11, <1>12, <1>13 DEF Good, Covers, q

-----------------------------------------------------------------------------
(* The block of a loop nest.                                                 *)

Nests == {"transpose_simple_buffer", "symmetric_routine", "quarters",
          "transpose_unblocked", "transpose_unblocked_wa", "trans"}

LEMMA NestShape ==
    ASSUME NEW f \in DOMAIN func_list, NEW m, NEW n
    PROVE  Chosen(func_list[f], m, n) \in Nests
<1>1. func_list[f] \in Nests \cup {"transpose_submit"}
  BY DEF func_list, Nests
<1> QED BY <1>1 DEF Chosen, Nests

LEMMA StrideShape ==
    ASSUME NEW nest \in Nests
    PROVE  Stride(nest) \in {1, 4, 8, 16}
BY DEF Stride, Nests

LEMMA BodyShape ==
    ASSUME NEW m \in Nat, NEW n \in Nat, NEW x \in 0 .. n - 1, NEW y \in 0 .. m - 1,
           NEW nest \in Nests
    PROVE  /\ Covers(Body(nest, x, y, m, n), x, y, Stride(nest), m, n)
           /\ \/ Plain(Body(nest, x, y, m, n), m, n)
              \/ /\ x + 8 =< n /\ y + 8 =< m /\ Stride(nest) = 8
                 /\ Body(nest, x, y, m, n) = Subblock(x, y)
<1> DEFINE q == Body(nest, x, y, m, n)
<1>1. CASE nest = "transpose_simple_buffer"
  <2>1. Stride(nest) = 8
    BY <1>1 DEF Stride
  <2>2. CASE Fits(x, y, m, n)
    <3>1. q = Rows(x, y)
      BY <1>1, <2>2 DEF Body
    <3>2. x + 8 =< n /\ y + 8 =< m /\ x \in Nat /\ y \in Nat
      BY <2>2 DEF Fits
    <3> QED BY <2>1, <3>1, <3>2, RowsShape
  <2>3. CASE ~Fits(x, y, m, n)
    <3>1. q = Cells(x, y, 8, m, n)
      BY <1>1, <2>3 DEF Body
    <3> QED BY <2>1, <3>1, CellsShape
  <2> QED BY <2>2, <2>3
<1>2. CASE nest = "symmetric_routine"
  <2>1. Stride(nest) = 8
    BY <1>2 DEF Stride
  <2>2. CASE Fits(x, y, m, n)
    <3>1. q = Subblock(x, y)
      BY <1>2, <2>2 DEF Body
    <3>2. x + 8 =< n /\ y + 8 =< m /\ x \in Nat /\ y \in Nat
      BY <2>2 DEF Fits
    <3> QED BY <2>1, <3>1, <3>2, SubblockShape
  <2>3. CASE ~Fits(x, y, m, n)
    <3>1. q = Edge(x, y, m, n)
      BY <1>2, <2>3 DEF Body
    <3> QED BY <2>1, <3>1, EdgeShape
  <2> QED BY <2>2, <2>3
<1>3. CASE nest = "quarters"
  <2>1. Stride(nest) = 16 /\ q = Quarters(x, y, m, n)
    BY <1>3 DEF Stride, Body
  <2> QED BY <2>1, QuartersShape
<1>4. CASE nest = "transpose_unblocked"
  <2>1. Stride(nest) = 8 /\ q = Cells(x, y, 8, m, n)
    BY <1>4 DEF Stride, Body
  <2> QED BY <2>1, CellsShape
<1>5. CASE nest = "transpose_unblocked_wa"
  <2>1. Stride(nest) = 4 /\ q = Cells(x, y, 4, m, n)
    BY <1>5 DEF Stride, Body
  <2> QED BY <2>1, CellsShape
<1>6. CASE nest = "trans"
  <2>1. Stride(nest) = 1 /\ q = Cells(x, y, 1, m, n)
    BY <1>6 DEF Stride, Body
  <2> QED BY <2>1, CellsShape
<1> QED BY <1>1, <1>2, <1>3, <1>4, <1>5, <1>6 DEF Nests


-----------------------------------------------------------------------------
(* The invariant.                                                            *)

Nest     == Chosen(func_list[i], M, N)
Side     == Stride(Nest)
Columns  == Rounds(M, Side)
CornerX(b) == Side * (b \div Columns)
CornerY(b) == Side * (b % Columns)
BlockOf(c) == (c[2] \div Side) * Columns + (c[1] \div Side)

(* In a block transposed in place, after s of its steps, what is parked in   *)
(* B and not yet moved is known, and where something will be parked the      *)
(* function has stored nothing.                                              *)
Parked(x, y, s) ==
    \A p \in 0 .. 3, r \in 0 .. 3 :
        r < s /\ p >= s - 4 => B[y + p][x + r + 4] = <<x + r, y + p + 4>>

Unparked(x, y, s) ==
    \A p \in 0 .. 3, r \in 0 .. 3 : r >= s => <<y + p, x + r + 4>> \notin stored

InPlaceAt(x, y, s) ==
    /\ x \in Nat /\ y \in Nat /\ x + 8 =< N /\ y + 8 =< M
    /\ Len(todo) = 12 - s
    /\ \A k \in 1 .. 12 - s : todo[k] = SubblockStep(x, y, s + k)
    /\ Parked(x, y, s) /\ Unparked(x, y, s)

InPlace ==
    /\ block > 0
    /\ \E x \in 0 .. N, y \in 0 .. M, s \in 0 .. 7 :
          x = CornerX(block - 1) /\ y = CornerY(block - 1) /\ InPlaceAt(x, y, s)

Work == Good(todo, M, N) /\ (Plain(todo, M, N) \/ InPlace)

(* A cell is in its place, or is to be filled in this block or a later one.  *)
Cover ==
    \A c \in Target :
        /\ Correct(c) \/ Filled(todo, c) \/ block =< BlockOf(c)
        /\ Filled(todo, c) \/ c \in stored => BlockOf(c) < block

TransposeInv == TypeOK /\ Work /\ Cover /\ AllValid

LEMMA Sizes ==
    ASSUME arguments \in Invocations
    PROVE  M \in 1 .. 256 /\ N \in 1 .. 256 /\ Target = InB(M, N)
<1>1. <<M, N, selectedFunc>> \in (1 .. 256) \X (1 .. 256) \X ({-1} \cup DOMAIN func_list)
  BY InvocationAssumption DEF arguments
<1> QED BY <1>1 DEF Target, InB

(* Blocks tile the matrix.                                                   *)
LEMMA Geometry ==
    ASSUME arguments \in Invocations, i \in DOMAIN func_list
    PROVE  /\ Nest \in Nests /\ Side \in {1, 4, 8, 16} /\ Count \in Nat
           /\ \A b \in 0 .. Count - 1 : CornerX(b) \in 0 .. N - 1 /\ CornerY(b) \in 0 .. M - 1
           /\ \A c \in Target : BlockOf(c) \in 0 .. Count - 1
           /\ \A b \in 0 .. Count - 1, c \in Target :
                 BlockOf(c) = b <=> Square(c, CornerX(b), CornerY(b), Side)
<1>1. Nest \in Nests /\ Side \in {1, 4, 8, 16}
  BY NestShape, StrideShape DEF Nest, Side
<1>2. M \in Nat \ {0} /\ N \in Nat \ {0} /\ Target = InB(M, N)
  BY Sizes
<1> DEFINE s == Side
           rows == Rounds(N, Side)
           cols == Columns
<1>3. Count = rows * cols
  BY DEF Count, BlockCount, Nest, Side, Columns
<1>4. /\ rows \in Nat /\ cols \in Nat
      /\ \A k \in 0 .. rows - 1 : s * k \in 0 .. N - 1
      /\ \A z \in 0 .. N - 1 : z \div s \in 0 .. rows - 1
                               /\ z \in s * (z \div s) .. s * (z \div s) + s - 1
  BY <1>1, <1>2, StridesCover DEF Columns
<1>5. /\ \A k \in 0 .. cols - 1 : s * k \in 0 .. M - 1
      /\ \A z \in 0 .. M - 1 : z \div s \in 0 .. cols - 1
                               /\ z \in s * (z \div s) .. s * (z \div s) + s - 1
  BY <1>1, <1>2, StridesCover DEF Columns
<1>6. \A z \in Nat, k \in Nat : z \in s * k .. s * k + s - 1 <=> z \div s = k
  <2>1. CASE s = 1
    BY <2>1
  <2>2. CASE s = 4
    BY <2>2
  <2>3. CASE s = 8
    BY <2>3
  <2>4. CASE s = 16
    BY <2>4
  <2> QED BY <1>1, <2>1, <2>2, <2>3, <2>4
<1> HIDE DEF s, rows, cols
<1>7. Count \in Nat
  BY <1>3, <1>4
<1>8. ASSUME NEW b \in 0 .. Count - 1
      PROVE  /\ b \div cols \in 0 .. rows - 1 /\ b % cols \in 0 .. cols - 1
             /\ b = cols * (b \div cols) + (b % cols)
  BY <1>3, <1>4, RowAndColumn
<1>9. \A b \in 0 .. Count - 1 : CornerX(b) \in 0 .. N - 1 /\ CornerY(b) \in 0 .. M - 1
  BY <1>4, <1>5, <1>8 DEF CornerX, CornerY, s, cols
<1>10. ASSUME NEW c \in Target
       PROVE  /\ c[2] \div s \in 0 .. rows - 1 /\ c[1] \div s \in 0 .. cols - 1
              /\ c[2] \in Nat /\ c[1] \in Nat
  <2>1. c[2] \in 0 .. N - 1 /\ c[1] \in 0 .. M - 1
    BY DEF Target
  <2> QED BY <1>4, <1>5, <2>1
<1>11. ASSUME NEW c \in Target
       PROVE  /\ BlockOf(c) \in 0 .. Count - 1
              /\ BlockOf(c) \div cols = c[2] \div s /\ BlockOf(c) % cols = c[1] \div s
  <2> DEFINE a == c[2] \div s
             d == c[1] \div s
  <2>1. a \in 0 .. rows - 1 /\ d \in 0 .. cols - 1
    BY <1>10
  <2>2. BlockOf(c) = a * cols + d
    BY DEF BlockOf, s, cols
  <2> HIDE DEF a, d
  <2>3. /\ a * cols + d \in 0 .. rows * cols - 1
        /\ (a * cols + d) \div cols = a /\ (a * cols + d) % cols = d
    BY <1>4, <2>1, NumberOf
  <2> QED BY <1>3, <2>2, <2>3 DEF a, d
<1>12. ASSUME NEW b \in 0 .. Count - 1, NEW c \in Target
       PROVE  BlockOf(c) = b <=> Square(c, CornerX(b), CornerY(b), Side)
  <2>1. Square(c, CornerX(b), CornerY(b), Side) <=>
           c[2] \div s = b \div cols /\ c[1] \div s = b % cols
    BY <1>4, <1>6, <1>8, <1>10 DEF Square, CornerX, CornerY, s, cols
  <2>2. BlockOf(c) = b => c[2] \div s = b \div cols /\ c[1] \div s = b % cols
    BY <1>11
  <2>3. ASSUME c[2] \div s = b \div cols, c[1] \div s = b % cols
        PROVE  BlockOf(c) = b
    <3> DEFINE a == b \div cols
               d == b % cols
    <3>1. BlockOf(c) = a * cols + d
      BY <2>3 DEF BlockOf, s, cols
    <3>2. a \in Nat /\ cols \in Nat /\ b = cols * a + d
      BY <1>4, <1>8
    <3> HIDE DEF a, d
    <3>3. cols * a = a * cols
      BY <3>2
    <3> QED BY <3>1, <3>2, <3>3
  <2> QED BY <2>1, <2>2, <2>3
<1> QED BY <1>1, <1>7, <1>9, <1>11, <1>12

-----------------------------------------------------------------------------
(* Steps.                                                                    *)

(* What one iteration does to B: a cell it stores to gets what it loaded.    *)
LEMMA IterateEffect ==
    ASSUME TypeOK, Iterate, Fine(Head(todo), M, N)
    PROVE  LET now == Head(todo) IN
           /\ B' \in [0 .. M - 1 -> [0 .. N - 1 -> Element \cup {Junk}]]
           /\ \A c \in Target : ~StoresTo(now, c) => B'[c[1]][c[2]] = B[c[1]][c[2]]
           /\ \A c \in Target : \A p \in DOMAIN now.stores :
                 now.stores[p].to = <<"B", c[1], c[2]>> =>
                    B'[c[1]][c[2]] = Load(now.loads[now.stores[p].from])
<1> DEFINE now == Head(todo)
           rows == {now.stores[p].to[2] : p \in DOMAIN now.stores}
           hits(r, c) == {p \in DOMAIN now.stores : now.stores[p].to = <<"B", r, c>>}
           new(r, c) == Stored(now.loads, now.stores, r, c)
<1>1. B' = [r \in 0 .. M - 1 |-> IF r \in rows THEN [c \in 0 .. N - 1 |-> new(r, c)] ELSE B[r]]
  BY DEF Iterate
<1>2. /\ now \in Iteration
      /\ \A p \in DOMAIN now.loads : Within(now.loads[p], M, N)
      /\ \A p \in DOMAIN now.stores : now.stores[p].from \in DOMAIN now.loads
      /\ \A p \in DOMAIN now.stores, q \in DOMAIN now.stores :
            now.stores[p].to = now.stores[q].to => p = q
  BY DEF Fine
<1>3. DOMAIN now.stores \subseteq Int
  <2>1. now.stores \in Seq([to : Cell, from : Nat])
    BY <1>2 DEF Iteration
  <2>2. DOMAIN now.stores = 1 .. Len(now.stores)
    BY <2>1
  <2> QED BY <2>2
<1>4. \A r, c : new(r, c) = IF hits(r, c) = {} THEN B[r][c]
                            ELSE Load(now.loads[now.stores[Max(hits(r, c))].from])
  BY DEF Stored
<1> HIDE DEF new, now
<1>5. ASSUME NEW r, NEW c, NEW p \in DOMAIN now.stores, now.stores[p].to = <<"B", r, c>>
      PROVE  r \in rows /\ new(r, c) = Load(now.loads[now.stores[p].from])
  <2>1. hits(r, c) = {p}
    BY <1>2, <1>5
  <2>2. Max({p}) = p
    BY <1>3 DEF Max
  <2>3. now.stores[p].to[2] = r
    BY <1>5
  <2> QED BY <1>4, <2>1, <2>2, <2>3
<1>6. ASSUME NEW r, NEW c, \A p \in DOMAIN now.stores : now.stores[p].to # <<"B", r, c>>
      PROVE  new(r, c) = B[r][c]
  BY <1>4, <1>6
<1>7. ASSUME NEW r \in 0 .. M - 1, NEW c \in 0 .. N - 1
      PROVE  /\ ~StoresTo(now, <<r, c>>) => B'[r][c] = B[r][c]
             /\ \A p \in DOMAIN now.stores : now.stores[p].to = <<"B", r, c>> =>
                   B'[r][c] = Load(now.loads[now.stores[p].from])
  <2>1. B'[r][c] = IF r \in rows THEN new(r, c) ELSE B[r][c]
    BY <1>1
  <2>2. StoresTo(now, <<r, c>>) <=> \E p \in DOMAIN now.stores : now.stores[p].to = <<"B", r, c>>
    <3>1. <<r, c>>[1] = r /\ <<r, c>>[2] = c
      OBVIOUS
    <3> QED BY <3>1 DEF StoresTo
  <2>3. ASSUME ~StoresTo(now, <<r, c>>) PROVE B'[r][c] = B[r][c]
    <3>1. new(r, c) = B[r][c]
      BY <1>6, <2>2, <2>3
    <3> QED BY <2>1, <3>1
  <2>4. ASSUME NEW p \in DOMAIN now.stores, now.stores[p].to = <<"B", r, c>>
        PROVE  B'[r][c] = Load(now.loads[now.stores[p].from])
    <3>1. r \in rows /\ new(r, c) = Load(now.loads[now.stores[p].from])
      BY <1>5, <2>4
    <3> QED BY <2>1, <3>1
  <2> QED BY <2>3, <2>4
<1>8. \A c \in Target : c[1] \in 0 .. M - 1 /\ c[2] \in 0 .. N - 1 /\ c = <<c[1], c[2]>>
  BY DEF Target
<1>9. \A cell : Within(cell, M, N) => Load(cell) \in Element \cup {Junk}
  <2> SUFFICES ASSUME NEW cell, Within(cell, M, N) PROVE Load(cell) \in Element \cup {Junk}
    OBVIOUS
  <2>1. CASE cell[1] = "A"
    BY <2>1 DEF Within, Load, Element
  <2>2. CASE cell[1] = "B"
    <3>1. B \in [0 .. M - 1 -> [0 .. N - 1 -> Element \cup {Junk}]]
      BY DEF TypeOK
    <3> QED BY <2>2, <3>1 DEF Within, Load
  <2> QED BY <2>1, <2>2 DEF Within
<1>10. B' \in [0 .. M - 1 -> [0 .. N - 1 -> Element \cup {Junk}]]
  <2>1. B \in [0 .. M - 1 -> [0 .. N - 1 -> Element \cup {Junk}]]
    BY DEF TypeOK
  <2>2. ASSUME NEW r \in 0 .. M - 1, NEW c \in 0 .. N - 1
        PROVE  new(r, c) \in Element \cup {Junk}
    <3>1. CASE \E p \in DOMAIN now.stores : now.stores[p].to = <<"B", r, c>>
      BY <1>2, <1>5, <1>9, <3>1
    <3>2. CASE ~\E p \in DOMAIN now.stores : now.stores[p].to = <<"B", r, c>>
      <4>1. new(r, c) = B[r][c]
        BY <1>6, <3>2
      <4>2. B[r][c] \in Element \cup {Junk}
        BY <2>1
      <4> QED BY <4>1, <4>2
    <3> QED BY <3>1, <3>2
  <2> QED BY <1>1, <2>1, <2>2
<1>11. \A c \in Target : ~StoresTo(now, c) => B'[c[1]][c[2]] = B[c[1]][c[2]]
  BY <1>7, <1>8
<1>12. \A c \in Target : \A p \in DOMAIN now.stores :
          now.stores[p].to = <<"B", c[1], c[2]>> =>
             B'[c[1]][c[2]] = Load(now.loads[now.stores[p].from])
  BY <1>7, <1>8
<1> QED BY <1>10, <1>11, <1>12 DEF now

(* The loops that are not in place put every element where it belongs.       *)
LEMMA DirectPlaces ==
    ASSUME TypeOK, Iterate, Fine(Head(todo), M, N), Direct(Head(todo))
    PROVE  \A c \in Target : StoresTo(Head(todo), c) => Correct(c)'
<1> SUFFICES ASSUME NEW c \in Target, StoresTo(Head(todo), c)
             PROVE  B'[c[1]][c[2]] = <<c[2], c[1]>>
  BY DEF Correct
<1> DEFINE now == Head(todo)
<1>1. PICK p \in DOMAIN now.stores : now.stores[p].to = <<"B", c[1], c[2]>>
  BY DEF StoresTo
<1>2. B'[c[1]][c[2]] = Load(now.loads[now.stores[p].from])
  BY <1>1, IterateEffect
<1>3. now.loads[now.stores[p].from] = <<"A", c[2], c[1]>>
  <2>1. now.loads[now.stores[p].from] = <<"A", now.stores[p].to[3], now.stores[p].to[2]>>
    BY Zenon DEF Direct
  <2>2. now.stores[p].to[2] = c[1] /\ now.stores[p].to[3] = c[2]
    <3> HIDE DEF now
    <3> QED BY <1>1
  <2> QED BY <2>1, <2>2
<1>4. Load(<<"A", c[2], c[1]>>) = <<c[2], c[1]>>
  BY DEF Load
<1> QED BY <1>2, <1>3, <1>4

(* The upper half of a block in place: four elements reach their place and   *)
(* four are parked; what was parked before stays.                            *)
ParkPlaced(x, y, k) ==
    /\ \A c \in Target : StoresTo(Head(todo), c) =>
          Correct(c)' \/ \E p \in 0 .. 3 : c = <<y + p, x + k + 4>>
    /\ \A p \in 0 .. 3 : B'[y + p][x + k + 4] = <<x + k, y + p + 4>>
    /\ \A p \in 0 .. 3, r \in 0 .. 3 :
          r # k => B'[y + p][x + r + 4] = B[y + p][x + r + 4]

LEMMA ParkPlaces ==
    ASSUME TypeOK, Iterate, NEW x \in Nat, NEW y \in Nat, NEW k \in 0 .. 3,
           x + 8 =< N, y + 8 =< M, Head(todo) = Park(x, y, k)
    PROVE  ParkPlaced(x, y, k)
<1> DEFINE now == Head(todo)
<1>1. M \in Nat /\ N \in Nat
  <2>1. M \in 1 .. 256 /\ N \in 1 .. 256
    BY Sizes DEF TypeOK
  <2> QED BY <2>1
<1>2. Fine(now, M, N) /\ ParkEffect(now, x, y, k)
  BY <1>1, ParkShape
<1>3. /\ \A c \in Target : ~StoresTo(now, c) => B'[c[1]][c[2]] = B[c[1]][c[2]]
      /\ \A c \in Target : \A p \in DOMAIN now.stores :
            now.stores[p].to = <<"B", c[1], c[2]>> =>
               B'[c[1]][c[2]] = Load(now.loads[now.stores[p].from])
  BY <1>2, IterateEffect
<1> HIDE DEF now
<1>4. \A c \in Target : c[1] \in 0 .. M - 1 /\ c[2] \in 0 .. N - 1 /\ c = <<c[1], c[2]>>
  BY DEF Target
<1>5. \A p \in 0 .. 3, r \in 0 .. 3 : <<y + p, x + r + 4>> \in Target
  BY <1>1 DEF Target
<1>6. \A a, b : Load(<<"A", a, b>>) = <<a, b>>
  BY DEF Load
<1>7. ASSUME NEW c \in Target, StoresTo(now, c)
      PROVE  Correct(c)' \/ \E p \in 0 .. 3 : c = <<y + p, x + k + 4>>
  <2>1. PICK p \in 1 .. 8 : now.stores[p].to = <<"B", c[1], c[2]>>
    BY <1>2, <1>7 DEF StoresTo, ParkEffect
  <2>2. B'[c[1]][c[2]] = Load(now.loads[p])
    <3>1. p \in DOMAIN now.stores /\ now.stores[p].from = p
      BY <1>2 DEF ParkEffect
    <3> QED BY <1>3, <2>1, <3>1
  <2>3. CASE p \in 1 .. 4
    <3>1. <<"B", c[1], c[2]>> = <<"B", y + p - 1, x + k>> /\ now.loads[p] = <<"A", x + k, y + p - 1>>
      BY <1>2, <2>1, <2>3 DEF ParkEffect
    <3>2. c[1] = y + p - 1 /\ c[2] = x + k
      BY <3>1
    <3>3. B'[c[1]][c[2]] = <<c[2], c[1]>>
      BY <1>6, <2>2, <3>1, <3>2
    <3> QED BY <3>3 DEF Correct
  <2>4. CASE p \in 5 .. 8
    <3>1. <<"B", c[1], c[2]>> = <<"B", y + p - 5, x + k + 4>>
      BY <1>2, <2>1, <2>4 DEF ParkEffect
    <3>2. c[1] = y + p - 5 /\ c[2] = x + k + 4
      BY <3>1
    <3>3. p - 5 \in 0 .. 3 /\ y + (p - 5) = y + p - 5
      BY <2>4
    <3>4. c = <<y + (p - 5), x + k + 4>>
      BY <1>4, <3>2, <3>3
    <3> QED BY <3>3, <3>4
  <2> QED BY <2>3, <2>4
<1>8. ASSUME NEW p \in 0 .. 3 PROVE B'[y + p][x + k + 4] = <<x + k, y + p + 4>>
  <2> DEFINE c == <<y + p, x + k + 4>>
  <2>1. p + 5 \in 5 .. 8 /\ p + 5 \in 1 .. 8 /\ y + (p + 5) - 5 = y + p /\ y + (p + 5) - 1 = y + p + 4
    OBVIOUS
  <2>2. /\ now.stores[p + 5].to = <<"B", y + p, x + k + 4>> /\ now.stores[p + 5].from = p + 5
        /\ now.loads[p + 5] = <<"A", x + k, y + p + 4>> /\ p + 5 \in DOMAIN now.stores
    BY <1>2, <2>1 DEF ParkEffect
  <2>3. c \in Target /\ c[1] = y + p /\ c[2] = x + k + 4
    BY <1>5
  <2> HIDE DEF c
  <2>4. B'[c[1]][c[2]] = Load(now.loads[p + 5])
    BY <1>3, <2>2, <2>3
  <2> QED BY <1>6, <2>2, <2>3, <2>4
<1>9. ASSUME NEW p \in 0 .. 3, NEW r \in 0 .. 3, r # k
      PROVE  B'[y + p][x + r + 4] = B[y + p][x + r + 4]
  <2> DEFINE c == <<y + p, x + r + 4>>
  <2>1. c \in Target /\ c[1] = y + p /\ c[2] = x + r + 4
    BY <1>5
  <2> HIDE DEF c
  <2>2. ASSUME StoresTo(now, c) PROVE FALSE
    <3>1. PICK s \in 1 .. 8 : now.stores[s].to = <<"B", c[1], c[2]>>
      BY <1>2, <2>2 DEF StoresTo, ParkEffect
    <3>2. CASE s \in 1 .. 4
      <4>1. <<"B", c[1], c[2]>> = <<"B", y + s - 1, x + k>>
        BY <1>2, <3>1, <3>2 DEF ParkEffect
      <4>2. c[2] = x + k
        BY <4>1
      <4> QED BY <2>1, <4>2
    <3>3. CASE s \in 5 .. 8
      <4>1. <<"B", c[1], c[2]>> = <<"B", y + s - 5, x + k + 4>>
        BY <1>2, <3>1, <3>3 DEF ParkEffect
      <4>2. c[2] = x + k + 4
        BY <4>1
      <4> QED BY <1>9, <2>1, <4>2
    <3> QED BY <3>2, <3>3
  <2> QED BY <1>3, <2>1, <2>2
<1> QED BY <1>7, <1>8, <1>9 DEF now, ParkPlaced

(* What was parked reaches its place, and so does what takes its place.      *)
LEMMA SwapPlaces ==
    ASSUME TypeOK, Iterate, NEW x \in Nat, NEW y \in Nat, NEW k \in 0 .. 3,
           x + 8 =< N, y + 8 =< M, Head(todo) = Swap(x, y, k),
           \A r \in 0 .. 3 : B[y + k][x + r + 4] = <<x + r, y + k + 4>>
    PROVE  /\ \A c \in Target : StoresTo(Head(todo), c) => Correct(c)'
           /\ \A p \in k + 1 .. 3, r \in 0 .. 3 : B'[y + p][x + r + 4] = B[y + p][x + r + 4]
<1> DEFINE now == Head(todo)
<1>1. M \in Nat /\ N \in Nat
  <2>1. M \in 1 .. 256 /\ N \in 1 .. 256
    BY Sizes DEF TypeOK
  <2> QED BY <2>1
<1>2. Fine(now, M, N) /\ SwapEffect(now, x, y, k)
  BY <1>1, SwapShape
<1>3. /\ \A c \in Target : ~StoresTo(now, c) => B'[c[1]][c[2]] = B[c[1]][c[2]]
      /\ \A c \in Target : \A p \in DOMAIN now.stores :
            now.stores[p].to = <<"B", c[1], c[2]>> =>
               B'[c[1]][c[2]] = Load(now.loads[now.stores[p].from])
  BY <1>2, IterateEffect
<1> HIDE DEF now
<1>4. \A p \in 0 .. 3, r \in 0 .. 3 : <<y + p, x + r + 4>> \in Target
  BY <1>1 DEF Target
<1>5. \A a, b : Load(<<"A", a, b>>) = <<a, b>> /\ Load(<<"B", a, b>>) = B[a][b]
  BY DEF Load
<1>6. ASSUME NEW c \in Target, StoresTo(now, c)
      PROVE  Correct(c)'
  <2>1. PICK p \in 1 .. 8 : now.stores[p].to = <<"B", c[1], c[2]>>
    BY <1>2, <1>6 DEF StoresTo, SwapEffect
  <2>2. B'[c[1]][c[2]] = Load(now.loads[now.stores[p].from])
    <3>1. p \in DOMAIN now.stores
      BY <1>2 DEF SwapEffect
    <3> QED BY <1>3, <2>1, <3>1
  <2>3. CASE p \in 1 .. 4
    <3>1. /\ <<"B", c[1], c[2]>> = <<"B", y + k, x + p + 3>>
          /\ now.loads[now.stores[p].from] = <<"A", x + p + 3, y + k>>
      BY <1>2, <2>1, <2>3 DEF SwapEffect
    <3>2. c[1] = y + k /\ c[2] = x + p + 3
      BY <3>1
    <3>3. B'[c[1]][c[2]] = <<c[2], c[1]>>
      BY <1>5, <2>2, <3>1, <3>2
    <3> QED BY <3>3 DEF Correct
  <2>4. CASE p \in 5 .. 8
    <3>1. /\ <<"B", c[1], c[2]>> = <<"B", y + k + 4, x + p - 5>>
          /\ now.loads[now.stores[p].from] = <<"B", y + k, x + p - 1>>
      BY <1>2, <2>1, <2>4 DEF SwapEffect
    <3>2. c[1] = y + k + 4 /\ c[2] = x + p - 5
      BY <3>1
    <3>3. p - 5 \in 0 .. 3 /\ x + (p - 5) + 4 = x + p - 1 /\ x + (p - 5) = x + p - 5
      BY <2>4
    <3>4. B[y + k][x + p - 1] = <<x + p - 5, y + k + 4>>
      BY <3>3
    <3>5. B'[c[1]][c[2]] = <<c[2], c[1]>>
      <4>1. B'[c[1]][c[2]] = B[y + k][x + p - 1]
        BY <1>5, <2>2, <3>1
      <4> QED BY <3>2, <3>4, <4>1
    <3> QED BY <3>5 DEF Correct
  <2> QED BY <2>3, <2>4
<1>7. ASSUME NEW p \in k + 1 .. 3, NEW r \in 0 .. 3
      PROVE  B'[y + p][x + r + 4] = B[y + p][x + r + 4]
  <2> DEFINE c == <<y + p, x + r + 4>>
  <2>1. c \in Target /\ c[1] = y + p /\ c[2] = x + r + 4
    BY <1>4, SMTT(30)
  <2> HIDE DEF c
  <2>2. ASSUME StoresTo(now, c) PROVE FALSE
    <3>1. PICK s \in 1 .. 8 : now.stores[s].to = <<"B", c[1], c[2]>>
      BY <1>2, <2>2 DEF StoresTo, SwapEffect
    <3>2. CASE s \in 1 .. 4
      <4>1. <<"B", c[1], c[2]>> = <<"B", y + k, x + s + 3>>
        BY <1>2, <3>1, <3>2 DEF SwapEffect
      <4>2. c[1] = y + k
        BY <4>1
      <4> QED BY <2>1, <4>2
    <3>3. CASE s \in 5 .. 8
      <4>1. <<"B", c[1], c[2]>> = <<"B", y + k + 4, x + s - 5>>
        BY <1>2, <3>1, <3>3 DEF SwapEffect
      <4>2. c[1] = y + k + 4
        BY <4>1
      <4> QED BY <2>1, <4>2
    <3> QED BY <3>2, <3>3
  <2> QED BY <1>3, <2>1, <2>2
<1> QED BY <1>6, <1>7 DEF now

LEMMA Dimensions ==
    ASSUME TypeOK
    PROVE  M \in Nat /\ N \in Nat /\ stored \subseteq Target
<1>1. M \in 1 .. 256 /\ N \in 1 .. 256
  BY Sizes DEF TypeOK
<1> QED BY <1>1 DEF TypeOK

(* The rest of the block after an iteration.                                 *)
LEMMA IterateLeaves ==
    ASSUME Good(todo, M, N), Iterate
    PROVE  /\ Good(todo', M, N) /\ Fine(Head(todo), M, N)
           /\ Len(todo') = Len(todo) - 1 /\ Len(todo) \in Nat \ {0}
           /\ Head(todo) = todo[1]
           /\ \A k \in 1 .. Len(todo) - 1 : todo'[k] = todo[k + 1]
           /\ DOMAIN todo = 1 .. Len(todo) /\ DOMAIN todo' = 1 .. Len(todo) - 1
           /\ \A c : Filled(todo, c) <=> StoresTo(Head(todo), c) \/ Filled(todo', c)
           /\ \A c \in stored' : c \in stored \/ StoresTo(Head(todo), c)
<1>1. todo \in Seq(Iteration) /\ todo' = Tail(todo) /\ todo # <<>>
  BY DEF Good, Iterate
<1>2. /\ todo' \in Seq(Iteration) /\ Len(todo') = Len(todo) - 1 /\ Len(todo) \in Nat \ {0}
      /\ Head(todo) = todo[1]
      /\ \A k \in 1 .. Len(todo) - 1 : todo'[k] = todo[k + 1]
      /\ DOMAIN todo = 1 .. Len(todo) /\ DOMAIN todo' = 1 .. Len(todo) - 1
  BY <1>1
<1>3. \A k \in 1 .. Len(todo) : Fine(todo[k], M, N)
  BY <1>2 DEF Good
<1>4. Fine(Head(todo), M, N)
  BY <1>2, <1>3
<1>5. Good(todo', M, N)
  <2>1. \A k \in 1 .. Len(todo) - 1 : k + 1 \in 1 .. Len(todo)
    BY <1>2
  <2> QED BY <1>2, <1>3, <2>1 DEF Good
<1>6. ASSUME NEW c PROVE Filled(todo, c) <=> StoresTo(Head(todo), c) \/ Filled(todo', c)
  <2>1. ASSUME Filled(todo, c) PROVE StoresTo(Head(todo), c) \/ Filled(todo', c)
    <3>1. PICK k \in 1 .. Len(todo) : StoresTo(todo[k], c)
      BY <1>2, <2>1 DEF Filled
    <3>2. CASE k = 1
      BY <1>2, <3>1, <3>2
    <3>3. CASE k > 1
      <4>1. k - 1 \in 1 .. Len(todo) - 1 /\ (k - 1) + 1 = k
        BY <1>2, <3>3
      <4>2. todo'[k - 1] = todo[k]
        BY <1>2, <4>1
      <4> QED BY <1>2, <3>1, <4>1, <4>2 DEF Filled
    <3> QED BY <3>2, <3>3
  <2>2. ASSUME StoresTo(Head(todo), c) PROVE Filled(todo, c)
    <3>1. 1 \in DOMAIN todo
      BY <1>2
    <3> QED BY <1>2, <2>2, <3>1 DEF Filled
  <2>3. ASSUME Filled(todo', c) PROVE Filled(todo, c)
    <3>1. PICK k \in 1 .. Len(todo) - 1 : StoresTo(todo'[k], c)
      BY <1>2, <2>3 DEF Filled
    <3>2. k + 1 \in DOMAIN todo /\ todo'[k] = todo[k + 1]
      BY <1>2
    <3> QED BY <3>1, <3>2 DEF Filled
  <2> QED BY <2>1, <2>2, <2>3
<1>7. ASSUME NEW c \in StoredBy(Head(todo)) PROVE StoresTo(Head(todo), c)
  <2> DEFINE now == Head(todo)
             Store == [to : Cell, from : Nat]
  <2>1. PICK p \in DOMAIN now.stores : c = <<now.stores[p].to[2], now.stores[p].to[3]>>
    BY DEF StoredBy
  <2>2. now.stores \in Seq(Store)
    BY <1>4 DEF Fine, Iteration
  <2>3. now.stores[p].to[1] = "B"
    BY <1>4 DEF Fine
  <2> HIDE DEF now, Store
  <2>4. DOMAIN now.stores = 1 .. Len(now.stores)
    BY <2>2
  <2>5. now.stores[p] \in Store
    BY <2>2, <2>4
  <2>6. now.stores[p].to \in Cell
    BY <2>5 DEF Store
  <2>7. now.stores[p].to = <<"B", now.stores[p].to[2], now.stores[p].to[3]>>
    BY <2>3, <2>6 DEF Cell
  <2>8. c[1] = now.stores[p].to[2] /\ c[2] = now.stores[p].to[3]
    BY <2>1
  <2> QED BY <2>7, <2>8 DEF StoresTo, now
<1>8. stored' = stored \cup StoredBy(Head(todo))
  BY DEF Iterate
<1> QED BY <1>2, <1>4, <1>5, <1>6, <1>7, <1>8

(* The steps of a block in place keep what the next ones rely on.            *)
LEMMA ParkIterates ==
    ASSUME TypeOK, Good(todo, M, N), Iterate, NEW x \in Nat, NEW y \in Nat, NEW s \in 0 .. 3,
           InPlaceAt(x, y, s)
    PROVE  /\ \A c \in Target : StoresTo(Head(todo), c) => Correct(c)' \/ Filled(todo', c)
           /\ \A c \in stored : StoresTo(Head(todo), c) => Correct(c)'
           /\ InPlaceAt(x, y, s + 1)'
<1> DEFINE now == Head(todo)
<1>1. /\ M \in Nat /\ N \in Nat /\ stored \subseteq Target
      /\ x + 8 =< N /\ y + 8 =< M /\ UNCHANGED <<M, N>>
  BY Dimensions DEF InPlaceAt, Iterate, arguments
<1>2. /\ Len(todo') = 11 - s /\ DOMAIN todo' = 1 .. 11 - s
      /\ \A k \in 1 .. 11 - s : todo'[k] = SubblockStep(x, y, (s + 1) + k)
      /\ now = SubblockStep(x, y, s + 1)
  <2>1. Len(todo) = 12 - s /\ \A k \in 1 .. 12 - s : todo[k] = SubblockStep(x, y, s + k)
    BY DEF InPlaceAt
  <2>2. \A k \in 1 .. 11 - s : k + 1 \in 1 .. 12 - s /\ s + (k + 1) = (s + 1) + k
    OBVIOUS
  <2>3. 1 \in 1 .. 12 - s /\ (12 - s) - 1 = 11 - s
    OBVIOUS
  <2> QED BY <2>1, <2>2, <2>3, IterateLeaves
<1>3. now = Park(x, y, s)
  <2>1. s + 1 =< 4 /\ (s + 1) - 1 = s
    OBVIOUS
  <2> QED BY <1>2, <2>1 DEF SubblockStep
<1>4. /\ \A c \in Target : StoresTo(now, c) =>
            Correct(c)' \/ \E p \in 0 .. 3 : c = <<y + p, x + s + 4>>
      /\ \A p \in 0 .. 3 : B'[y + p][x + s + 4] = <<x + s, y + p + 4>>
      /\ \A p \in 0 .. 3, r \in 0 .. 3 :
            r # s => B'[y + p][x + r + 4] = B[y + p][x + r + 4]
  <2>1. Head(todo) = Park(x, y, s)
    BY <1>3
  <2>2. ParkPlaced(x, y, s)
    BY <1>1, <2>1, ParkPlaces
  <2> QED BY <2>2 DEF ParkPlaced
<1>5. \A c \in stored' : c \in stored \/ StoresTo(now, c)
  BY IterateLeaves
<1> HIDE DEF now
<1>6. ASSUME NEW p \in 0 .. 3 PROVE Filled(todo', <<y + p, x + s + 4>>)
  <2> DEFINE k == p + 4 - s
             c == <<y + p, x + s + 4>>
  <2>1. k \in 1 .. 11 - s /\ (s + 1) + k = p + 5
    OBVIOUS
  <2> HIDE DEF k
  <2>2. todo'[k] = Swap(x, y, p)
    <3>1. SubblockStep(x, y, p + 5) = Swap(x, y, (p + 5) - 5)
      BY DEF SubblockStep
    <3>2. (p + 5) - 5 = p
      OBVIOUS
    <3> QED BY <1>2, <2>1, <3>1, <3>2
  <2>3. Fine(Swap(x, y, p), M, N) /\ SwapEffect(Swap(x, y, p), x, y, p)
    BY <1>1, SwapShape
  <2>4. s + 1 \in 1 .. 4 /\ s + 1 \in 1 .. 8 /\ x + (s + 1) + 3 = x + s + 4
    OBVIOUS
  <2>5. /\ s + 1 \in DOMAIN Swap(x, y, p).stores
        /\ Swap(x, y, p).stores[s + 1].to = <<"B", y + p, x + s + 4>>
    BY <2>3, <2>4 DEF SwapEffect
  <2>6. c[1] = y + p /\ c[2] = x + s + 4
    OBVIOUS
  <2> HIDE DEF c
  <2>7. StoresTo(todo'[k], c)
    BY <2>2, <2>5, <2>6 DEF StoresTo
  <2>8. Filled(todo', c)
    BY <1>2, <2>1, <2>7 DEF Filled
  <2> QED BY <2>8 DEF c
<1>7. \A p \in 0 .. 3, r \in 0 .. 3 : r >= s => <<y + p, x + r + 4>> \notin stored
  BY DEF InPlaceAt, Unparked
<1>8. \A p \in 0 .. 3 : <<y + p, x + s + 4>> \notin stored
  <2>1. s \in 0 .. 3 /\ s >= s
    OBVIOUS
  <2> QED BY <1>7, <2>1
<1>9. Parked(x, y, s + 1)'
  <2> SUFFICES ASSUME NEW p \in 0 .. 3, NEW r \in 0 .. 3, r < s + 1
               PROVE  B'[y + p][x + r + 4] = <<x + r, y + p + 4>>
    BY DEF Parked
  <2>1. CASE r = s
    BY <1>4, <2>1
  <2>2. CASE r < s
    <3>1. p >= s - 4 /\ r # s
      BY <2>2
    <3>2. B[y + p][x + r + 4] = <<x + r, y + p + 4>>
      BY <2>2, <3>1 DEF InPlaceAt, Parked
    <3> QED BY <1>4, <3>1, <3>2
  <2> QED BY <2>1, <2>2
<1>10. Unparked(x, y, s + 1)'
  <2> SUFFICES ASSUME NEW p \in 0 .. 3, NEW r \in 0 .. 3, r >= s + 1,
                      <<y + p, x + r + 4>> \in stored'
               PROVE  FALSE
    BY DEF Unparked
  <2> DEFINE c == <<y + p, x + r + 4>>
  <2>1. c \notin stored
    <3>1. r >= s
      OBVIOUS
    <3> QED BY <1>7, <3>1
  <2>2. c[1] = y + p /\ c[2] = x + r + 4 /\ c \in stored'
    OBVIOUS
  <2> HIDE DEF c
  <2>3. StoresTo(now, c)
    BY <1>5, <2>1, <2>2
  <2>4. ParkEffect(now, x, y, s)
    <3>1. Fine(Park(x, y, s), M, N) /\ ParkEffect(Park(x, y, s), x, y, s)
      BY <1>1, ParkShape
    <3> QED BY <1>3, <3>1
  <2>5. PICK z \in 1 .. 8 : now.stores[z].to = <<"B", c[1], c[2]>>
    BY <2>3, <2>4 DEF StoresTo, ParkEffect
  <2>6. CASE z \in 1 .. 4
    <3>1. <<"B", c[1], c[2]>> = <<"B", y + z - 1, x + s>>
      BY <2>4, <2>5, <2>6 DEF ParkEffect
    <3>2. c[2] = x + s
      BY <3>1
    <3> QED BY <2>2, <3>2
  <2>7. CASE z \in 5 .. 8
    <3>1. <<"B", c[1], c[2]>> = <<"B", y + z - 5, x + s + 4>>
      BY <2>4, <2>5, <2>7 DEF ParkEffect
    <3>2. c[2] = x + s + 4
      BY <3>1
    <3> QED BY <2>2, <3>2
  <2> QED BY <2>6, <2>7
<1>11. InPlaceAt(x, y, s + 1)'
  <2>1. 12 - (s + 1) = 11 - s
    OBVIOUS
  <2> QED BY <1>1, <1>2, <1>9, <1>10, <2>1 DEF InPlaceAt
<1>12. \A c \in Target : StoresTo(now, c) => Correct(c)' \/ Filled(todo', c)
  BY <1>4, <1>6
<1>13. \A c \in stored : StoresTo(now, c) => Correct(c)'
  BY <1>1, <1>4, <1>8
<1> QED BY <1>11, <1>12, <1>13 DEF now

LEMMA SwapIterates ==
    ASSUME TypeOK, Good(todo, M, N), Iterate, NEW x \in Nat, NEW y \in Nat, NEW s \in 4 .. 7,
           InPlaceAt(x, y, s)
    PROVE  /\ \A c \in Target : StoresTo(Head(todo), c) => Correct(c)'
           /\ Plain(todo', M, N) \/ (s + 1 \in 0 .. 7 /\ InPlaceAt(x, y, s + 1)')
<1> DEFINE now == Head(todo)
           k == s - 4
<1>1. /\ M \in Nat /\ N \in Nat /\ x + 8 =< N /\ y + 8 =< M /\ UNCHANGED <<M, N>>
  BY Dimensions DEF InPlaceAt, Iterate, arguments
<1>2. /\ Len(todo') = 11 - s /\ DOMAIN todo' = 1 .. 11 - s
      /\ \A j \in 1 .. 11 - s : todo'[j] = SubblockStep(x, y, (s + 1) + j)
      /\ now = SubblockStep(x, y, s + 1)
  <2>1. Len(todo) = 12 - s /\ \A j \in 1 .. 12 - s : todo[j] = SubblockStep(x, y, s + j)
    BY DEF InPlaceAt
  <2>2. \A j \in 1 .. 11 - s : j + 1 \in 1 .. 12 - s /\ s + (j + 1) = (s + 1) + j
    OBVIOUS
  <2>3. 1 \in 1 .. 12 - s /\ (12 - s) - 1 = 11 - s
    OBVIOUS
  <2> QED BY <2>1, <2>2, <2>3, IterateLeaves
<1>3. k \in 0 .. 3 /\ now = Swap(x, y, k) /\ s = k + 4
  <2>1. ~(s + 1 =< 4) /\ s + 1 =< 8 /\ (s + 1) - 5 = k /\ k \in 0 .. 3 /\ s = k + 4
    OBVIOUS
  <2> QED BY <1>2, <2>1 DEF SubblockStep
<1> HIDE DEF k
<1>4. Parked(x, y, s)
  BY DEF InPlaceAt
<1>5. \A r \in 0 .. 3 : B[y + k][x + r + 4] = <<x + r, y + k + 4>>
  <2>1. \A r \in 0 .. 3 : r < s /\ k >= s - 4
    BY <1>3
  <2> QED BY <1>3, <1>4, <2>1 DEF Parked
<1>6. /\ \A c \in Target : StoresTo(now, c) => Correct(c)'
      /\ \A p \in k + 1 .. 3, r \in 0 .. 3 : B'[y + p][x + r + 4] = B[y + p][x + r + 4]
  BY <1>1, <1>3, <1>5, SwapPlaces
<1>7. Good(todo', M, N)
  BY IterateLeaves
<1>8. CASE s = 7
  <2>1. \A j \in 1 .. 11 - s : (s + 1) + j \in 9 .. 12
    BY <1>8
  <2>2. \A z \in 9 .. 12 : Direct(SubblockStep(x, y, z))
    BY <1>1, SubblockShape
  <2>3. \A j \in DOMAIN todo' : Direct(todo'[j])
    BY <1>2, <2>1, <2>2
  <2> QED BY <1>6, <1>7, <2>3 DEF Plain
<1>9. CASE s < 7
  <2>1. Parked(x, y, s + 1)'
    <3> SUFFICES ASSUME NEW p \in 0 .. 3, NEW r \in 0 .. 3, p >= (s + 1) - 4
                 PROVE  B'[y + p][x + r + 4] = <<x + r, y + p + 4>>
      BY DEF Parked
    <3>1. r < s /\ p >= s - 4 /\ p \in k + 1 .. 3
      BY <1>3
    <3>2. B[y + p][x + r + 4] = <<x + r, y + p + 4>>
      BY <1>4, <3>1 DEF Parked
    <3> QED BY <1>6, <3>1, <3>2
  <2>2. Unparked(x, y, s + 1)'
    <3>1. \A r \in 0 .. 3 : ~(r >= s + 1)
      OBVIOUS
    <3> QED BY <3>1 DEF Unparked
  <2>3. 12 - (s + 1) = 11 - s /\ s + 1 \in 0 .. 7
    BY <1>9
  <2>4. InPlaceAt(x, y, s + 1)'
    BY <1>1, <1>2, <2>1, <2>2, <2>3 DEF InPlaceAt
  <2> QED BY <1>6, <2>3, <2>4
<1> QED BY <1>8, <1>9

LEMMA StoredInside ==
    ASSUME NEW it, NEW m \in Nat, NEW n \in Nat, Fine(it, m, n)
    PROVE  StoredBy(it) \subseteq InB(m, n)
<1> SUFFICES ASSUME NEW c \in StoredBy(it) PROVE c \in InB(m, n)
  OBVIOUS
<1>1. PICK p \in DOMAIN it.stores : c = <<it.stores[p].to[2], it.stores[p].to[3]>>
  BY DEF StoredBy
<1>2. it.stores[p].to[1] = "B" /\ Within(it.stores[p].to, m, n)
  BY DEF Fine
<1> QED BY <1>1, <1>2 DEF Within, InB

(* What depends on the function and the matrices only.                       *)
SameNest ==
    /\ UNCHANGED <<M, N, selectedFunc, i>>
    /\ Target' = Target /\ Count' = Count /\ Side' = Side
    /\ \A c : BlockOf(c)' = BlockOf(c)
    /\ \A b : CornerX(b)' = CornerX(b) /\ CornerY(b)' = CornerY(b)

LEMMA NestStays ==
    ASSUME UNCHANGED <<M, N, selectedFunc, i>>
    PROVE  SameNest
BY DEF SameNest, Target, Count, Nest, Side, Columns, BlockOf, CornerX, CornerY

(* An iteration never takes an element away from its place, and leaves what  *)
(* it does not put in its place to a later iteration of the block.           *)
IterateResult ==
    /\ Work'
    /\ \A c \in Target : StoresTo(Head(todo), c) => Correct(c)' \/ Filled(todo', c)
    /\ \A c \in stored : StoresTo(Head(todo), c) => Correct(c)'

LEMMA IterateWorks ==
    ASSUME TypeOK, Work, Iterate
    PROVE  IterateResult
<1>1. Good(todo, M, N) /\ M \in Nat /\ N \in Nat /\ stored \subseteq Target
  BY Dimensions DEF Work
<1>2. UNCHANGED <<M, N, selectedFunc, i, block>>
  BY DEF Iterate, arguments
<1>3. /\ Good(todo', M, N) /\ Fine(Head(todo), M, N) /\ Head(todo) = todo[1]
      /\ Len(todo) \in Nat \ {0} /\ \A k \in 1 .. Len(todo) - 1 : todo'[k] = todo[k + 1]
      /\ DOMAIN todo = 1 .. Len(todo) /\ DOMAIN todo' = 1 .. Len(todo) - 1
  BY <1>1, IterateLeaves
<1>4. CASE Plain(todo, M, N)
  <2>1. Direct(Head(todo))
    BY <1>3, <1>4 DEF Plain
  <2>2. \A c \in Target : StoresTo(Head(todo), c) => Correct(c)'
    BY <1>3, <2>1, DirectPlaces
  <2>3. \A k \in 1 .. Len(todo) - 1 : k + 1 \in 1 .. Len(todo)
    BY <1>3
  <2>4. Plain(todo', M, N)
    BY <1>3, <1>4, <2>3 DEF Plain
  <2> QED BY <1>1, <1>2, <1>3, <2>2, <2>4 DEF IterateResult, Work
<1>5. CASE InPlace
  <2>1. PICK x \in 0 .. N, y \in 0 .. M, s \in 0 .. 7 :
           x = CornerX(block - 1) /\ y = CornerY(block - 1) /\ InPlaceAt(x, y, s)
    BY <1>5 DEF InPlace
  <2>2. x \in Nat /\ y \in Nat
    BY <1>1
  <2>3. InPlaceAt(x, y, s)
    BY <2>1
  <2>4. x = CornerX(block - 1)' /\ y = CornerY(block - 1)'
    <3>1. SameNest
      BY <1>2, NestStays
    <3> QED BY <1>2, <2>1, <3>1 DEF SameNest
  <2>5. ASSUME NEW z \in 0 .. 7, InPlaceAt(x, y, z)' PROVE Work'
    <3>1. InPlace'
      BY <1>2, <1>5, <2>4, <2>5 DEF InPlace
    <3> QED BY <1>2, <1>3, <3>1 DEF Work
  <2>6. CASE s =< 3
    <3>1. /\ \A c \in Target : StoresTo(Head(todo), c) => Correct(c)' \/ Filled(todo', c)
          /\ \A c \in stored : StoresTo(Head(todo), c) => Correct(c)'
          /\ InPlaceAt(x, y, s + 1)'
      BY <1>1, <2>2, <2>3, <2>6, ParkIterates
    <3>2. s + 1 \in 0 .. 7
      BY <2>6
    <3> QED BY <2>5, <3>1, <3>2 DEF IterateResult
  <2>7. CASE s >= 4
    <3>1. /\ \A c \in Target : StoresTo(Head(todo), c) => Correct(c)'
          /\ Plain(todo', M, N) \/ (s + 1 \in 0 .. 7 /\ InPlaceAt(x, y, s + 1)')
      BY <1>1, <2>2, <2>3, <2>7, SwapIterates
    <3>2. Work'
      <4>1. CASE Plain(todo', M, N)
        BY <1>2, <1>3, <4>1 DEF Work
      <4>2. CASE s + 1 \in 0 .. 7 /\ InPlaceAt(x, y, s + 1)'
        BY <2>5, <4>2
      <4> QED BY <3>1, <4>1, <4>2
    <3> QED BY <1>1, <3>1, <3>2 DEF IterateResult
  <2> QED BY <2>6, <2>7
<1> QED BY <1>4, <1>5 DEF Work

LEMMA IterateKeeps ==
    ASSUME TransposeInv, Iterate
    PROVE  TransposeInv' /\ \A c \in stored : Correct(c) => Correct(c)'
<1>1. TypeOK /\ Work /\ Cover /\ AllValid /\ Good(todo, M, N)
  BY DEF TransposeInv, Work
<1>2. M \in Nat /\ N \in Nat /\ stored \subseteq Target /\ Target = InB(M, N)
  <2>1. Target = InB(M, N)
    BY <1>1, Sizes DEF TypeOK
  <2> QED BY <1>1, <2>1, Dimensions
<1>3. UNCHANGED <<M, N, selectedFunc, i, block, exit_code>> /\ SameNest
  <2>1. UNCHANGED <<M, N, selectedFunc, i, block, exit_code>>
    BY DEF Iterate, arguments
  <2> QED BY <2>1, NestStays
<1>4. /\ Fine(Head(todo), M, N)
      /\ \A c : Filled(todo, c) <=> StoresTo(Head(todo), c) \/ Filled(todo', c)
      /\ \A c \in stored' : c \in stored \/ StoresTo(Head(todo), c)
  BY <1>1, IterateLeaves
<1>5. IterateResult
  BY <1>1, IterateWorks
<1>6. /\ B' \in [0 .. M - 1 -> [0 .. N - 1 -> Element \cup {Junk}]]
      /\ \A c \in Target : ~StoresTo(Head(todo), c) => B'[c[1]][c[2]] = B[c[1]][c[2]]
  BY <1>1, <1>4, IterateEffect
<1>7. \A c \in Target : ~StoresTo(Head(todo), c) /\ Correct(c) => Correct(c)'
  BY <1>6 DEF Correct
<1>8. TypeOK'
  <2>1. stored' \subseteq Target
    <3>1. stored' = stored \cup StoredBy(Head(todo))
      BY DEF Iterate
    <3>2. StoredBy(Head(todo)) \subseteq InB(M, N)
      BY <1>2, <1>4, StoredInside
    <3> QED BY <1>2, <3>1, <3>2
  <2>2. /\ B' \in [0 .. M' - 1 -> [0 .. N' - 1 -> Element' \cup {Junk}]]
        /\ stored' \subseteq Target' /\ block' \in 0 .. Count'
    BY <1>1, <1>3, <1>6, <2>1 DEF TypeOK, SameNest, Element
  <2> QED BY <1>1, <1>3, <2>2 DEF TypeOK, arguments, Junk
<1>9. Cover'
  <2> SUFFICES ASSUME NEW c \in Target
               PROVE  /\ Correct(c)' \/ Filled(todo', c) \/ block =< BlockOf(c)
                      /\ Filled(todo', c) \/ c \in stored' => BlockOf(c) < block
    BY <1>3 DEF Cover, SameNest
  <2>1. /\ Correct(c) \/ Filled(todo, c) \/ block =< BlockOf(c)
        /\ Filled(todo, c) \/ c \in stored => BlockOf(c) < block
    BY <1>1 DEF Cover
  <2>2. StoresTo(Head(todo), c) => Correct(c)' \/ Filled(todo', c)
    BY <1>5 DEF IterateResult
  <2> QED BY <1>4, <1>7, <2>1, <2>2
<1>10. \A c \in stored : Correct(c) => Correct(c)'
  BY <1>2, <1>5, <1>7 DEF IterateResult
<1>11. AllValid'
  BY <1>1, <1>3 DEF AllValid
<1> QED BY <1>5, <1>8, <1>9, <1>10, <1>11 DEF TransposeInv, IterateResult

LEMMA NestSizes ==
    ASSUME NEW f \in DOMAIN func_list, NEW m \in Nat \ {0}, NEW n \in Nat \ {0}, NEW s,
           s = Stride(Chosen(func_list[f], m, n))
    PROVE  s \in {1, 4, 8, 16} /\ Rounds(m, s) \in Nat /\ Rounds(n, s) \in Nat
<1>1. s \in {1, 4, 8, 16}
  BY NestShape, StrideShape
<1> QED BY <1>1, StridesCover

LEMMA NothingToDo ==
    ASSUME NEW m, NEW n
    PROVE  Plain(<<>>, m, n) /\ \A c : ~Filled(<<>>, c)
BY DEF Plain, Good, Filled

(* A block begins: it fills its own cells, and none of them is stored yet.   *)
LEMMA NextBlockKeeps ==
    ASSUME TransposeInv, NextBlock
    PROVE  TransposeInv'
<1>1. TypeOK /\ Work /\ Cover /\ AllValid
  BY DEF TransposeInv
<1>2. /\ M \in Nat /\ N \in Nat /\ Target = InB(M, N) /\ stored \subseteq Target
      /\ arguments \in Invocations /\ i \in DOMAIN func_list
  <2>1. arguments \in Invocations /\ i \in DOMAIN func_list
    BY <1>1 DEF TypeOK
  <2> QED BY <1>1, <2>1, Dimensions, Sizes
<1>3. /\ UNCHANGED <<M, N, selectedFunc, i, B, stored, exit_code>>
      /\ block' = block + 1 /\ todo = <<>> /\ block < Count
      /\ todo' = Block(func_list[i], block, M, N)
  BY DEF NextBlock, arguments
<1>4. SameNest
  BY <1>3, NestStays
<1>5. /\ Nest \in Nests /\ Side \in {1, 4, 8, 16} /\ Count \in Nat
      /\ \A b \in 0 .. Count - 1 : CornerX(b) \in 0 .. N - 1 /\ CornerY(b) \in 0 .. M - 1
      /\ \A c \in Target : BlockOf(c) \in 0 .. Count - 1
      /\ \A b \in 0 .. Count - 1, c \in Target :
            BlockOf(c) = b <=> Square(c, CornerX(b), CornerY(b), Side)
  BY <1>2, Geometry
<1>6. block \in 0 .. Count - 1 /\ block' \in 0 .. Count /\ block' > 0
  BY <1>1, <1>3, <1>5 DEF TypeOK
<1>7. PICK x \in 0 .. N - 1 : x = CornerX(block)
  BY <1>5, <1>6
<1>8. PICK y \in 0 .. M - 1 : y = CornerY(block)
  BY <1>5, <1>6
<1>9. todo' = Body(Nest, x, y, M, N)
  BY <1>3, <1>7, <1>8 DEF Block, Nest, CornerX, CornerY, Side, Columns
<1>10. /\ Covers(todo', x, y, Side, M, N)
       /\ \/ Plain(todo', M, N)
          \/ /\ x + 8 =< N /\ y + 8 =< M /\ Side = 8
             /\ todo' = Subblock(x, y)
  BY <1>2, <1>5, <1>9, BodyShape DEF Side
<1>11. \A c \in Target : Filled(todo', c) <=> BlockOf(c) = block
  BY <1>2, <1>5, <1>6, <1>7, <1>8, <1>10 DEF Covers
<1>12. Work'
  <2>1. CASE Plain(todo', M, N)
    BY <1>3, <2>1 DEF Work, Plain
  <2>2. CASE x + 8 =< N /\ y + 8 =< M /\ Side = 8 /\ todo' = Subblock(x, y)
    <3>1. x \in Nat /\ y \in Nat /\ x \in 0 .. N /\ y \in 0 .. M
      BY <1>2
    <3>2. /\ Good(todo', M, N) /\ Len(todo') = 12
          /\ \A s \in 1 .. 12 : todo'[s] = SubblockStep(x, y, s)
      BY <1>2, <2>2, <3>1, SubblockShape
    <3>3. Parked(x, y, 0)'
      BY DEF Parked
    <3>4. Unparked(x, y, 0)'
      <4> SUFFICES ASSUME NEW p \in 0 .. 3, NEW r \in 0 .. 3, <<y + p, x + r + 4>> \in stored
                   PROVE  FALSE
        BY <1>3 DEF Unparked
      <4> DEFINE c == <<y + p, x + r + 4>>
      <4>1. c \in Target /\ c \in stored /\ c[1] = y + p /\ c[2] = x + r + 4
        BY <1>2
      <4> HIDE DEF c
      <4>2. Square(c, x, y, 8)
        BY <3>1, <4>1 DEF Square
      <4>3. BlockOf(c) = block
        BY <1>5, <1>6, <1>7, <1>8, <2>2, <4>1, <4>2
      <4>4. BlockOf(c) < block
        BY <1>1, <4>1 DEF Cover
      <4> QED BY <1>6, <4>3, <4>4
    <3>5. InPlaceAt(x, y, 0)'
      <4>1. 12 - 0 = 12 /\ \A k \in 1 .. 12 : 0 + k = k
        OBVIOUS
      <4> QED BY <1>3, <2>2, <3>1, <3>2, <3>3, <3>4, <4>1 DEF InPlaceAt
    <3>6. x = CornerX(block - 1)' /\ y = CornerY(block - 1)'
      <4>1. block' - 1 = block /\ Side' = Side /\ Columns' = Columns
        BY <1>3, <1>4, <1>6 DEF SameNest, Columns
      <4> QED BY <1>7, <1>8, <4>1 DEF CornerX, CornerY
    <3>7. InPlace'
      <4>1. 0 \in 0 .. 7
        OBVIOUS
      <4> QED BY <1>3, <1>6, <3>1, <3>5, <3>6, <4>1 DEF InPlace
    <3> QED BY <1>3, <3>2, <3>7 DEF Work
  <2> QED BY <1>10, <2>1, <2>2
<1>13. Cover'
  <2> SUFFICES ASSUME NEW c \in Target
               PROVE  /\ Correct(c)' \/ Filled(todo', c) \/ block + 1 =< BlockOf(c)
                      /\ Filled(todo', c) \/ c \in stored => BlockOf(c) < block + 1
    BY <1>3, <1>4 DEF Cover, SameNest
  <2>1. /\ Correct(c) \/ block =< BlockOf(c)
        /\ c \in stored => BlockOf(c) < block
    BY <1>1, <1>3, NothingToDo DEF Cover
  <2>2. Correct(c)' <=> Correct(c)
    BY <1>3 DEF Correct
  <2>3. BlockOf(c) \in Int /\ block \in Int
    BY <1>5, <1>6
  <2> QED BY <1>11, <2>1, <2>2, <2>3
<1>14. TypeOK'
  BY <1>1, <1>3, <1>4, <1>6 DEF TypeOK, SameNest, arguments, Element, Junk
<1>15. AllValid'
  BY <1>1, <1>3 DEF AllValid
<1> QED BY <1>12, <1>13, <1>14, <1>15 DEF TransposeInv

(* When the last block is done nothing is left to fill: the result is valid. *)
LEMMA DoneIsValid ==
    ASSUME TransposeInv, todo = <<>>, block = Count
    PROVE  Valid
<1>1. TypeOK /\ Cover /\ arguments \in Invocations /\ i \in DOMAIN func_list
  BY DEF TransposeInv, TypeOK
<1>2. Count \in Nat /\ \A c \in Target : BlockOf(c) \in 0 .. Count - 1
  BY <1>1, Geometry
<1> SUFFICES ASSUME NEW c \in Target PROVE Correct(c)
  BY DEF Valid
<1>3. Correct(c) \/ Filled(todo, c) \/ block =< BlockOf(c)
  BY <1>1 DEF Cover
<1>4. ~(block =< BlockOf(c))
  BY <1>2
<1> QED BY <1>3, <1>4, NothingToDo

LEMMA UnmovedKeeps ==
    ASSUME TypeOK, Work, Cover, UNCHANGED <<arguments, i, B, stored, block, todo>>
    PROVE  Work' /\ Cover'
<1>1. UNCHANGED <<M, N, selectedFunc, i, B, stored, block, todo>>
  BY DEF arguments
<1>2. SameNest
  BY <1>1, NestStays
<1>3. Cover'
  BY <1>1, <1>2 DEF Cover, SameNest, Correct
<1>4. Good(todo, M, N)' /\ (Plain(todo, M, N) => Plain(todo, M, N)')
  BY <1>1 DEF Work
<1>5. ASSUME InPlace PROVE InPlace'
  <2>1. PICK x \in 0 .. N, y \in 0 .. M, s \in 0 .. 7 :
           x = CornerX(block - 1) /\ y = CornerY(block - 1) /\ InPlaceAt(x, y, s)
    BY <1>5 DEF InPlace
  <2>2. InPlaceAt(x, y, s)'
    BY <1>1, <2>1 DEF InPlaceAt, Parked, Unparked
  <2>3. x = CornerX(block - 1)' /\ y = CornerY(block - 1)'
    BY <1>1, <1>2, <2>1 DEF SameNest
  <2> QED BY <1>1, <1>5, <2>2, <2>3 DEF InPlace
<1> QED BY <1>3, <1>4, <1>5 DEF Work

LEMMA ValidateKeeps ==
    ASSUME TransposeInv, Validate
    PROVE  TransposeInv'
<1>1. TypeOK /\ Work /\ Cover /\ AllValid
  BY DEF TransposeInv
<1>2. todo = <<>> /\ block = Count /\ exit_code = Running
  BY DEF Validate, FunctionDone
<1>3. Valid
  BY <1>2, DoneIsValid
<1>4. UNCHANGED <<M, N, selectedFunc, B, todo>>
  BY DEF Validate, arguments
<1>5. CASE selectedFunc = -1 /\ i < Len(func_list)
  <2>1. i' = i + 1 /\ block' = 0 /\ stored' = {} /\ exit_code' = exit_code
    BY <1>3, <1>5 DEF Validate
  <2>2. i' \in DOMAIN func_list
    BY <1>1, <1>5, <2>1 DEF TypeOK, func_list
  <2>3. PICK f \in DOMAIN func_list : f = i'
    BY <2>2
  <2>4. M \in Nat \ {0} /\ N \in Nat \ {0} /\ Target \subseteq (Nat \X Nat)
    <3>1. M \in 1 .. 256 /\ N \in 1 .. 256
      BY <1>1, Sizes DEF TypeOK
    <3> QED BY <3>1 DEF Target
  <2>5. Side' \in {1, 4, 8, 16} /\ Columns' \in Nat /\ Count' \in Nat
    <3> DEFINE s == Stride(Chosen(func_list[f], M, N))
    <3>1. s \in {1, 4, 8, 16} /\ Rounds(M, s) \in Nat /\ Rounds(N, s) \in Nat
      BY <2>4, NestSizes
    <3>2. Side' = s
      BY <1>4, <2>3 DEF Side, Nest
    <3>3. Columns' = Rounds(M, s) /\ Count' = Rounds(N, s) * Rounds(M, s)
      BY <1>4, <2>3, <3>2 DEF Columns, Count, BlockCount
    <3> HIDE DEF s
    <3> QED BY <3>1, <3>2, <3>3
  <2>6. \A c \in Target : 0 =< BlockOf(c)'
    <3> SUFFICES ASSUME NEW c \in Target PROVE 0 =< BlockOf(c)'
      OBVIOUS
    <3>1. c[1] \in Nat /\ c[2] \in Nat
      BY <2>4
    <3>2. c[1] \div Side' \in Nat /\ c[2] \div Side' \in Nat
      BY <2>5, <3>1
    <3>3. BlockOf(c)' = (c[2] \div Side') * Columns' + (c[1] \div Side')
      BY DEF BlockOf
    <3>4. PICK a \in Nat, b \in Nat, h \in Nat :
             a = c[2] \div Side' /\ b = c[1] \div Side' /\ h = Columns'
      BY <2>5, <3>2
    <3>5. a * h + b >= 0
      OBVIOUS
    <3> QED BY <3>3, <3>4, <3>5
  <2>7. Cover'
    <3> SUFFICES ASSUME NEW c \in Target
                 PROVE  block' =< BlockOf(c)' /\ ~Filled(todo', c) /\ c \notin stored'
      BY <1>4 DEF Cover, Target
    <3> QED BY <1>2, <1>4, <2>1, <2>6, NothingToDo
  <2>8. Work'
    <3>1. Plain(todo', M', N')
      BY <1>2, <1>4, NothingToDo
    <3> QED BY <3>1 DEF Work, Plain
  <2>9. TypeOK'
    <3>1. block' \in 0 .. Count' /\ stored' \subseteq Target'
      BY <2>1, <2>5
    <3> QED BY <1>1, <1>4, <2>1, <2>2, <3>1 DEF TypeOK, arguments, Element, Junk
  <2> QED BY <1>1, <2>1, <2>7, <2>8, <2>9 DEF TransposeInv, AllValid
<1>6. CASE ~(selectedFunc = -1 /\ i < Len(func_list))
  <2>1. exit_code' = 0 /\ UNCHANGED <<arguments, i, B, stored, block, todo>>
    BY <1>3, <1>6 DEF Validate
  <2>2. Work' /\ Cover'
    BY <1>1, <2>1, UnmovedKeeps
  <2>3. SameNest
    <3>1. UNCHANGED <<M, N, selectedFunc, i>>
      BY <2>1 DEF arguments
    <3> QED BY <3>1, NestStays
  <2>4. 0 \in 0 .. Len(func_list)
    BY DEF func_list
  <2>5. TypeOK'
    BY <1>1, <2>1, <2>3, <2>4 DEF TypeOK, SameNest, Element, Junk
  <2> QED BY <2>1, <2>2, <2>5 DEF TransposeInv, AllValid
<1> QED BY <1>5, <1>6

LEMMA StutterKeeps ==
    ASSUME TransposeInv, UNCHANGED vars
    PROVE  TransposeInv'
<1>1. TypeOK /\ Work /\ Cover /\ AllValid /\ UNCHANGED <<arguments, i, B, stored, block, todo>>
  BY DEF TransposeInv, vars
<1>2. Work' /\ Cover'
  BY <1>1, UnmovedKeeps
<1>3. UNCHANGED <<M, N, selectedFunc, i>> /\ UNCHANGED exit_code
  BY DEF vars, arguments
<1>4. SameNest
  BY <1>3, NestStays
<1>5. TypeOK' /\ AllValid'
  BY <1>1, <1>3, <1>4 DEF TypeOK, AllValid, SameNest, Element, Junk
<1> QED BY <1>2, <1>5 DEF TransposeInv

LEMMA InitTransposes ==
    Init => TransposeInv
<1> SUFFICES ASSUME Init PROVE TransposeInv
  OBVIOUS
<1>1. PICK v \in Invocations : M = v[1] /\ N = v[2] /\ selectedFunc = v[3]
  BY DEF Init
<1>2. v \in (1 .. 256) \X (1 .. 256) \X ({-1} \cup DOMAIN func_list)
  BY InvocationAssumption
<1>3. arguments \in Invocations
  <2>1. v = <<v[1], v[2], v[3]>>
    BY <1>2
  <2> QED BY <1>1, <2>1 DEF arguments
<1>4. i \in DOMAIN func_list
  <2>1. 1 \in DOMAIN func_list /\ selectedFunc \in {-1} \cup DOMAIN func_list
    BY <1>1, <1>2 DEF func_list
  <2> QED BY <2>1 DEF Init
<1>5. Count \in Nat /\ \A c \in Target : BlockOf(c) \in 0 .. Count - 1
  BY <1>3, <1>4, Geometry
<1>6. todo = <<>> /\ block = 0 /\ stored = {} /\ exit_code = Running
      /\ B = [r \in 0 .. M - 1 |-> [c \in 0 .. N - 1 |-> Junk]]
  BY DEF Init
<1>7. TypeOK
  <2>1. B \in [0 .. M - 1 -> [0 .. N - 1 -> Element \cup {Junk}]]
    BY <1>6
  <2> QED BY <1>3, <1>4, <1>5, <1>6, <2>1 DEF TypeOK
<1>8. Work
  <2>1. Plain(todo, M, N)
    BY <1>6, NothingToDo
  <2> QED BY <2>1 DEF Work, Plain
<1>9. Cover
  BY <1>5, <1>6, NothingToDo DEF Cover
<1> QED BY <1>6, <1>7, <1>8, <1>9 DEF TransposeInv, AllValid

LEMMA TransposeStep ==
    TransposeInv /\ [Next]_vars => TransposeInv'
<1> SUFFICES ASSUME TransposeInv, [Next]_vars PROVE TransposeInv'
  OBVIOUS
<1>1. CASE NextBlock
  BY <1>1, NextBlockKeeps
<1>2. CASE Iterate
  BY <1>2, IterateKeeps
<1>3. CASE Validate
  BY <1>3, ValidateKeeps
<1>4. CASE Exited
  BY <1>4, StutterKeeps DEF Exited
<1>5. CASE UNCHANGED vars
  BY <1>5, StutterKeeps
<1> QED BY <1>1, <1>2, <1>3, <1>4, <1>5 DEF Next

THEOREM TransposeInvariant ==
    Spec => []TransposeInv
BY InitTransposes, TransposeStep, PTL DEF Spec
-----------------------------------------------------------------------------
(* The variables have their types (tracegen.c main and validate).            *)
THEOREM TransposeTypes ==
    Spec => []TypeOK
<1>1. TransposeInv => TypeOK
  BY DEF TransposeInv
<1> QED BY <1>1, TransposeInvariant, PTL

(* No load or store of any transpose function leaves its matrix, for every   *)
(* size the arrays of tracegen hold (trans.c, the tests at the edges).       *)
THEOREM AlwaysInBounds ==
    Spec => []InBounds
<1>1. TransposeInv => InBounds
  <2> SUFFICES ASSUME TransposeInv PROVE InBounds
    OBVIOUS
  <2>1. \A k \in DOMAIN todo : Fine(todo[k], M, N)
    BY DEF TransposeInv, Work, Good
  <2>2. \A cell : Within(cell, M, N) => Inside(cell)
    BY DEF Within, Inside, Element, Target
  <2> QED BY <2>1, <2>2 DEF InBounds, Fine
<1> QED BY <1>1, TransposeInvariant, PTL

(* Every registered function transposes every matrix that fits, on its own   *)
(* and after the others: validate never fails (tracegen.c, trans.c).         *)
THEOREM EveryFunctionTransposes ==
    Spec => []AllValid
<1>1. TransposeInv => AllValid
  BY DEF TransposeInv
<1> QED BY <1>1, TransposeInvariant, PTL

(* An element that is in its place stays there until the function is done    *)
(* (subblock_routine, whose parked elements share B with the placed ones).   *)
THEOREM PlacedAlwaysStays ==
    Spec => PlacedStays
<1> DEFINE Stays == i' = i /\ B' # B => \A c \in stored : Correct(c) => Correct(c)'
<1>1. TransposeInv /\ [Next]_vars => [Stays]_vars
  <2> SUFFICES ASSUME TransposeInv, Next, B' # B PROVE \A c \in stored : Correct(c) => Correct(c)'
    OBVIOUS
  <2>1. Iterate
    BY DEF Next, NextBlock, Validate, Exited, vars
  <2> QED BY <2>1, IterateKeeps
<1> QED BY <1>1, TransposeInvariant, PTL DEF Spec, PlacedStays
=============================================================================
