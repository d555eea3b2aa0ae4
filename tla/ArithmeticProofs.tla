--------------------------- MODULE ArithmeticProofs ---------------------------
(***************************************************************************)
(* The arithmetic the other proofs rest on: shares that are rounded down,  *)
(* the price curve of the mint, and totals over finite sets of accounts.   *)
(***************************************************************************)
EXTENDS PriceCurve, StakingMath, FiniteSums, FiniteSetTheorems, WellFoundedInduction, TLAPS

-----------------------------------------------------------------------------
(* Products and quotients.                                                 *)

\* A product grows with its factor ...
LEMMA ProductGrows ==
    ASSUME NEW s \in Nat, NEW a \in Nat, NEW b \in Nat, a <= b
    PROVE  s * a \in Nat /\ s * b \in Nat /\ s * a <= s * b
  OBVIOUS

\* ... and by at least one whole other factor.
LEMMA ProductSteps ==
    ASSUME NEW s \in Nat, NEW a \in Nat, NEW b \in Nat, a < b
    PROVE  s * a + s <= s * b
  <1>1. s * (a + 1) <= s * b
    BY ProductGrows
  <1>2. s * (a + 1) = s * a + s
    OBVIOUS
  <1> QED
    BY <1>1, <1>2

\* The quotient is the largest number of whole divisors.
LEMMA DivIsFloor ==
    ASSUME NEW x \in Nat, NEW s \in Nat \ {0}
    PROVE  /\ x \div s \in Nat
           /\ s * (x \div s) <= x
           /\ x < s * (x \div s) + s
  OBVIOUS

\* What bounds it from above ...
LEMMA DivAtMost ==
    ASSUME NEW x \in Nat, NEW s \in Nat \ {0}, NEW q \in Nat, x < s * q + s
    PROVE  x \div s <= q
  <1>1. PICK d \in Nat : d = x \div s
    BY DivIsFloor
  <1>2. s * d <= x
    BY <1>1, DivIsFloor
  <1>3. ~ (q < d)
    BY <1>2, ProductSteps
  <1> QED
    BY <1>1, <1>3

\* ... and from below.
LEMMA DivAtLeast ==
    ASSUME NEW x \in Nat, NEW s \in Nat \ {0}, NEW q \in Nat, s * q <= x
    PROVE  q <= x \div s
  <1>1. PICK d \in Nat : d = x \div s
    BY DivIsFloor
  <1>2. x < s * d + s
    BY <1>1, DivIsFloor
  <1>3. ~ (d < q)
    BY <1>2, ProductSteps
  <1> QED
    BY <1>1, <1>3

-----------------------------------------------------------------------------
(* The price curve.  The lemmas take the divisions and the product apart,  *)
(* so that each leaf is a linear problem.                                  *)

\* What the division by the width of a bucket leaves.
Rest == 0..9999

\* Below the supply the bucket is one of ten (lib.rs:2513).
LEMMA BucketRange ==
    ASSUME NEW n \in Nat, n < MAX_SUPPLY
    PROVE  /\ bucket(n) \in 0..9
           /\ remainder(n) \in Rest
           /\ 10 * n = MAX_SUPPLY * bucket(n) + remainder(n)
  BY DEF bucket, remainder, MAX_SUPPLY, Rest

\* A later gumball is in a later bucket, or further in the same one.
LEMMA BucketOrder ==
    ASSUME NEW m \in Nat, NEW n \in Nat, m <= n, n < MAX_SUPPLY
    PROVE  \/ bucket(m) < bucket(n)
           \/ bucket(m) = bucket(n) /\ remainder(m) <= remainder(n)
  <1>1. PICK b \in 0..9, r \in Rest : b = bucket(m) /\ r = remainder(m)
    <2>1. m < MAX_SUPPLY
      BY DEF MAX_SUPPLY
    <2> QED
      BY <2>1, BucketRange, Zenon
  <1>2. PICK c \in 0..9, t \in Rest : c = bucket(n) /\ t = remainder(n)
    BY BucketRange, Zenon
  <1>3. 10 * m = 10000 * b + r
    BY <1>1, BucketRange, SMT DEF MAX_SUPPLY
  <1>4. 10 * n = 10000 * c + t
    BY <1>2, BucketRange, SMT DEF MAX_SUPPLY
  <1>5. b < c \/ (b = c /\ r <= t)
    BY <1>3, <1>4, SMT DEF Rest
  <1> QED
    BY <1>1, <1>2, <1>5, Zenon

\* The table rises ...
LEMMA TableRises ==
    ASSUME NEW b \in 0..9
    PROVE  /\ point(b) \in Nat
           /\ point(b + 1) \in Nat
           /\ point(b) <= point(b + 1)
  BY SMT DEF TABLE, point

\* ... from 10000 to 40000 ...
LEMMA TableEnds ==
    ASSUME NEW b \in 0..9
    PROVE  10000 <= point(b) /\ point(b + 1) <= 40000
  BY SMT DEF TABLE, point

\* ... and a later bucket begins no lower than an earlier one ends.
LEMMA TableOrdered ==
    ASSUME NEW b \in 0..9, NEW c \in 0..9, b < c
    PROVE  point(b + 1) <= point(c)
  BY SMT DEF TABLE, point

\* The part of the way from one point to the next, d lamports apart.
part(d, r) == (d * r) \div MAX_SUPPLY

\* Rounded down, it does not leave the two ends ...
LEMMA PartIsBounded ==
    ASSUME NEW d \in Nat, NEW r \in Rest
    PROVE  part(d, r) \in Nat /\ part(d, r) <= d
  <1>1. PICK x \in Nat : x = d * r
    BY SMT DEF Rest
  <1>2. x <= d * 10000
    BY <1>1, SMT DEF Rest
  <1>3. x \div 10000 \in Nat /\ x \div 10000 <= d
    BY <1>2, SMT
  <1> QED
    BY <1>1, <1>3, SMT DEF part, MAX_SUPPLY

\* ... and does not fall.
LEMMA PartRises ==
    ASSUME NEW d \in Nat, NEW r \in Rest, NEW s \in Rest, r <= s
    PROVE  part(d, r) <= part(d, s)
  <1>1. PICK x \in Nat : x = d * r
    BY SMT DEF Rest
  <1>2. PICK y \in Nat : y = d * s
    BY SMT DEF Rest
  <1>3. x <= y
    BY <1>1, <1>2, SMT DEF Rest
  <1>4. x \div 10000 <= y \div 10000
    BY <1>3, SMT
  <1> QED
    BY <1>1, <1>2, <1>4, SMT DEF part, MAX_SUPPLY

\* What interp returns, in terms of the two points of the bucket of n.
LEMMA InterpSplit ==
    ASSUME NEW n \in Nat, n < MAX_SUPPLY
    PROVE  \E lo \in Nat, d \in Nat, r \in Rest :
               /\ lo = point(bucket(n))
               /\ lo + d = point(bucket(n) + 1)
               /\ r = remainder(n)
               /\ interp(n) = lo + part(d, r)
  <1>1. PICK b \in 0..9, r \in Rest : b = bucket(n) /\ r = remainder(n)
    BY BucketRange, Zenon
  <1>2. PICK lo \in Nat, hi \in Nat : lo = point(b) /\ hi = point(b + 1) /\ lo <= hi
    BY TableRises, Zenon
  <1>3. PICK d \in Nat : d = hi - lo
    BY <1>2, SMT
  <1>4. lo + d = hi
    BY <1>3, SMT
  <1>5. interp(n) = lo + part(d, r)
    BY <1>1, <1>2, <1>3, Zenon DEF interp, part
  <1> QED
    BY <1>1, <1>2, <1>4, <1>5, Zenon

\* It is a value between the two points.
LEMMA InterpRange ==
    ASSUME NEW n \in Nat, n < MAX_SUPPLY
    PROVE  /\ interp(n) \in Nat
           /\ point(bucket(n)) <= interp(n)
           /\ interp(n) <= point(bucket(n) + 1)
  <1>1. PICK lo \in Nat, d \in Nat, r \in Rest :
               /\ lo = point(bucket(n))
               /\ lo + d = point(bucket(n) + 1)
               /\ interp(n) = lo + part(d, r)
    BY InterpSplit, Zenon
  <1>2. PICK p \in Nat : p = part(d, r) /\ p <= d
    BY PartIsBounded, Zenon
  <1> QED
    BY <1>1, <1>2, SMT

\* The interpolated value does not fall from one gumball to a later one: in
\* the same bucket by the remainder, in a later one because it is at least
\* the next point of the table.
LEMMA InterpRises ==
    ASSUME NEW m \in Nat, NEW n \in Nat, m <= n, n < MAX_SUPPLY
    PROVE  interp(m) <= interp(n)
  <1>0. m < MAX_SUPPLY
    BY SMT DEF MAX_SUPPLY
  <1>1. PICK lo1 \in Nat, d1 \in Nat, r1 \in Rest :
               /\ lo1 = point(bucket(m))
               /\ lo1 + d1 = point(bucket(m) + 1)
               /\ r1 = remainder(m)
               /\ interp(m) = lo1 + part(d1, r1)
    BY <1>0, InterpSplit, Zenon
  <1>2. PICK lo2 \in Nat, d2 \in Nat, r2 \in Rest :
               /\ lo2 = point(bucket(n))
               /\ lo2 + d2 = point(bucket(n) + 1)
               /\ r2 = remainder(n)
               /\ interp(n) = lo2 + part(d2, r2)
    BY InterpSplit, Zenon
  <1>3. PICK p1 \in Nat : p1 = part(d1, r1) /\ p1 <= d1
    BY PartIsBounded, Zenon
  <1>4. PICK p2 \in Nat : p2 = part(d2, r2) /\ p2 <= d2
    BY PartIsBounded, Zenon
  <1>5. CASE bucket(m) = bucket(n) /\ r1 <= r2
    <2>1. lo1 = lo2 /\ lo1 + d1 = lo2 + d2
      BY <1>1, <1>2, <1>5, Zenon
    <2>2. d1 = d2
      BY <2>1, SMT
    <2>3. part(d1, r1) <= part(d1, r2)
      BY <1>5, PartRises, Zenon
    <2>4. p1 <= p2
      BY <1>3, <1>4, <2>2, <2>3, Zenon
    <2> QED
      BY <1>1, <1>2, <1>3, <1>4, <2>1, <2>4, SMT
  <1>6. CASE bucket(m) < bucket(n)
    <2>1. bucket(m) \in 0..9 /\ bucket(n) \in 0..9
      BY <1>0, BucketRange, Zenon
    <2>2. point(bucket(m) + 1) <= point(bucket(n))
      BY <1>6, <2>1, TableOrdered, Zenon
    <2>3. lo1 + d1 <= lo2
      BY <1>1, <1>2, <2>2, Zenon
    <2> QED
      BY <1>1, <1>2, <1>3, <1>4, <2>3, SMT
  <1> QED
    BY <1>1, <1>2, <1>5, <1>6, BucketOrder, Zenon

-----------------------------------------------------------------------------
(* The theorems.                                                           *)

\* lib.rs:2494: every price lies between BASE_PRICE and MAX_PRICE, so that it
\* is a price GumballMint accepts (its PriceAssumption), and the product of
\* the last line stays far below 2^63.
THEOREM PriceInBounds ==
    ASSUME NEW n \in Nat
    PROVE  /\ get_mint_price(n) \in Nat
           /\ BASE_PRICE <= get_mint_price(n)
           /\ get_mint_price(n) <= MAX_PRICE
           /\ n < MAX_SUPPLY => BASE_PRICE * interp(n) <= SCALE * MAX_PRICE
  <1>1. CASE n >= MAX_SUPPLY
    <2>1. get_mint_price(n) = 40000000
      BY <1>1, SMT DEF get_mint_price, MAX_PRICE
    <2>2. ~ (n < MAX_SUPPLY)
      BY <1>1, SMT DEF MAX_SUPPLY
    <2> QED
      BY <2>1, <2>2, SMT DEF BASE_PRICE, MAX_PRICE, SCALE
  <1>2. CASE n < MAX_SUPPLY
    <2>1. PICK i \in Nat : i = interp(n) /\ 10000 <= i /\ i <= 40000
      <3>1. PICK b \in 0..9 : b = bucket(n)
        BY <1>2, BucketRange, Zenon
      <3>2. interp(n) \in Nat /\ point(b) <= interp(n) /\ interp(n) <= point(b + 1)
        BY <1>2, <3>1, InterpRange, Zenon
      <3>3. 10000 <= point(b) /\ point(b + 1) <= 40000
        BY TableEnds, SMT
      <3>4. point(b) \in Nat /\ point(b + 1) \in Nat
        BY TableRises, Zenon
      <3> QED
        BY <3>2, <3>3, <3>4, SMT
    <2>2. get_mint_price(n) = (10000000 * i) \div 10000
      BY <1>2, <2>1, SMT DEF get_mint_price, BASE_PRICE, MAX_SUPPLY, SCALE
    <2> QED
      BY <2>1, <2>2, SMT DEF BASE_PRICE, MAX_PRICE, SCALE
  <1>3. n >= MAX_SUPPLY \/ n < MAX_SUPPLY
    BY SMT DEF MAX_SUPPLY
  <1> QED
    BY <1>1, <1>2, <1>3, Zenon

\* The price never falls as gumballs are minted (README.md: it "rises" with
\* the supply), over every edge between two points of the table.
THEOREM PriceNeverFalls ==
    ASSUME NEW m \in Nat, NEW n \in Nat, m <= n
    PROVE  get_mint_price(m) <= get_mint_price(n)
  <1>1. CASE n >= MAX_SUPPLY
    <2>1. get_mint_price(n) = MAX_PRICE
      BY <1>1, SMT DEF get_mint_price
    <2>2. get_mint_price(m) <= MAX_PRICE
      BY PriceInBounds, SMT
    <2> QED
      BY <2>1, <2>2, Zenon
  <1>2. CASE n < MAX_SUPPLY
    <2>1. m < MAX_SUPPLY
      BY <1>2, SMT DEF MAX_SUPPLY
    <2>2. PICK i \in Nat : i = interp(m)
      BY <2>1, InterpRange, Zenon
    <2>3. PICK j \in Nat : j = interp(n)
      BY <1>2, InterpRange, Zenon
    <2>4. i <= j
      BY <1>2, <2>2, <2>3, InterpRises, Zenon
    <2>5. /\ get_mint_price(m) = (10000000 * i) \div 10000
          /\ get_mint_price(n) = (10000000 * j) \div 10000
      BY <1>2, <2>1, <2>2, <2>3, SMT DEF get_mint_price, BASE_PRICE, MAX_SUPPLY, SCALE
    <2> QED
      BY <2>4, <2>5, SMT
  <1>3. n >= MAX_SUPPLY \/ n < MAX_SUPPLY
    BY SMT DEF MAX_SUPPLY
  <1> QED
    BY <1>1, <1>2, <1>3, Zenon

-----------------------------------------------------------------------------
(* Totals.  An induction over the subsets of a finite set is an argument   *)
(* about a smallest subset for which the claim fails: strict inclusion is  *)
(* well founded, so there is one.                                          *)

\* Of a set of subsets of a finite set, one has no proper subset among them.
LEMMA SmallestSubset ==
    ASSUME NEW S, IsFiniteSet(S), NEW T \in SUBSET (SUBSET S), T # {}
    PROVE  \E m \in T : \A s \in SUBSET m : s # m => s \notin T
  <1>1. IsWellFoundedOn(StrictSubsetOrdering(S), SUBSET S)
    BY FS_StrictSubsetOrderingWellFounded, FS_FiniteSubsetsOfFinite, Zenon
  <1>2. PICK m \in T : \A s \in T : ~(<<s, m>> \in StrictSubsetOrdering(S))
    BY <1>1, WFMin, Zenon
  <1>3. ASSUME NEW s \in SUBSET m, s # m, s \in T PROVE FALSE
    BY <1>2, <1>3 DEF StrictSubsetOrdering
  <1> QED
    BY <1>3, Zenon

\* The element a fold takes out of a set, and what it leaves.
First(s) == CHOOSE x \in s : TRUE
Others(s) == s \ {First(s)}

\* g is the partial totals of f over the subsets of S.
Solves(g, f, S) ==
    g = [s \in SUBSET S |-> IF s = {} THEN 0 ELSE f[First(s)] + g[Others(s)]]

\* It takes out an element and leaves a smaller set.
LEMMA FirstOfSet ==
    ASSUME NEW s, s # {}
    PROVE  First(s) \in s /\ Others(s) \in SUBSET s /\ Others(s) # s
  BY DEF First, Others

\* The fold is defined by such a function.
LEMMA Unfold ==
    ASSUME NEW f, NEW S
    PROVE  SumOver(S, f) = (CHOOSE g : Solves(g, f, S))[S]
  BY Zenon DEF SumOver, FoldSet, MapThenFoldSet, Solves, First, Others

\* A function on the subsets of a set that obeys the equation does so on the
\* subsets of a smaller one.
LEMMA SolvesSubset ==
    ASSUME NEW f, NEW S, NEW g, Solves(g, f, S), NEW T \in SUBSET S
    PROVE  \E h : Solves(h, f, T) /\ \A s \in SUBSET T : h[s] = g[s]
  <1>1. \A s \in SUBSET S : g[s] = IF s = {} THEN 0 ELSE f[First(s)] + g[Others(s)]
    BY Zenon DEF Solves
  <1> DEFINE h == [s \in SUBSET T |-> g[s]]
  <1>2. \A s \in SUBSET T : h[s] = g[s]
    OBVIOUS
  <1>3. ASSUME NEW s \in SUBSET T
        PROVE  h[s] = IF s = {} THEN 0 ELSE f[First(s)] + h[Others(s)]
    <2>1. CASE s = {}
      BY <1>1, <1>2, <2>1
    <2>2. CASE s # {}
      <3>1. Others(s) \in SUBSET T
        BY DEF Others
      <3>2. h[Others(s)] = g[Others(s)]
        BY <1>2, <3>1, Zenon
      <3>3. s \in SUBSET S
        OBVIOUS
      <3>4. g[s] = f[First(s)] + g[Others(s)]
        BY <1>1, <2>2, <3>3, Zenon
      <3> HIDE DEF h
      <3> QED
        BY <1>2, <2>2, <3>2, <3>4, Zenon
    <2> QED
      BY <2>1, <2>2
  <1>4. [s \in SUBSET T |-> h[s]] = [s \in SUBSET T |-> IF s = {} THEN 0 ELSE f[First(s)] + h[Others(s)]]
    <2> HIDE DEF h
    <2> QED
      BY <1>3, Zenon
  <1>5. h = [s \in SUBSET T |-> h[s]]
    BY <1>2, Zenon
  <1>6. Solves(h, f, T)
    <2> HIDE DEF h
    <2> QED
      BY <1>4, <1>5, Zenon DEF Solves
  <1> HIDE DEF h
  <1> QED
    BY <1>2, <1>6, Zenon

\* There is at most one.
LEMMA SolvesOnce ==
    ASSUME NEW f, NEW S, IsFiniteSet(S), NEW g, Solves(g, f, S), NEW h, Solves(h, f, S)
    PROVE  \A s \in SUBSET S : g[s] = h[s]
  <1> DEFINE T == {s \in SUBSET S : g[s] # h[s]}
  <1>1. SUFFICES ASSUME T # {} PROVE FALSE
    OBVIOUS
  <1>2. PICK m \in T : \A s \in SUBSET m : s # m => s \notin T
    <2>1. T \in SUBSET (SUBSET S)
      OBVIOUS
    <2> HIDE DEF T
    <2> QED
      BY <1>1, <2>1, SmallestSubset, Zenon
  <1>3. \A s \in SUBSET S : /\ g[s] = IF s = {} THEN 0 ELSE f[First(s)] + g[Others(s)]
                            /\ h[s] = IF s = {} THEN 0 ELSE f[First(s)] + h[Others(s)]
    BY Zenon DEF Solves
  <1>4. m # {}
    BY <1>2, <1>3, Zenon
  <1>5. Others(m) \in SUBSET S /\ g[Others(m)] = h[Others(m)]
    BY <1>2, <1>4, FirstOfSet
  <1> QED
    BY <1>2, <1>3, <1>4, <1>5, Zenon

\* There is one.
LEMMA SolvesExists ==
    ASSUME NEW f, NEW S, IsFiniteSet(S)
    PROVE  \E g : Solves(g, f, S)
  <1> DEFINE T == {s \in SUBSET S : ~ \E g : Solves(g, f, s)}
  <1>1. SUFFICES ASSUME T # {} PROVE FALSE
    OBVIOUS
  <1>2. PICK m \in T : \A s \in SUBSET m : s # m => s \notin T
    <2>1. T \in SUBSET (SUBSET S)
      OBVIOUS
    <2> HIDE DEF T
    <2> QED
      BY <1>1, <2>1, SmallestSubset, Zenon
  <1> DEFINE sol(s) == CHOOSE g : Solves(g, f, s)
  <1> HIDE DEF T
  <1>3. \A s \in SUBSET m : s # m => Solves(sol(s), f, s)
    BY <1>2, Zenon DEF T
  <1>4. \A s \in SUBSET m : s # m => IsFiniteSet(s)
    BY <1>2, FS_Subset DEF T
  <1> HIDE DEF sol
  <1>5. ASSUME NEW s \in SUBSET m, s # m
        PROVE  sol(s)[s] = IF s = {} THEN 0 ELSE f[First(s)] + sol(Others(s))[Others(s)]
    <2>1. CASE s = {}
      BY <1>3, <1>5, <2>1, Zenon DEF Solves
    <2>2. CASE s # {}
      <3>1. Others(s) \in SUBSET s /\ Others(s) \in SUBSET m /\ Others(s) # m
        BY <2>2, FirstOfSet
      <3>2. PICK h : Solves(h, f, Others(s)) /\ \A t \in SUBSET Others(s) : h[t] = sol(s)[t]
        <4>1. Solves(sol(s), f, s)
          BY <1>3, <1>5, Zenon
        <4>2. Others(s) \in SUBSET s
          BY <3>1, Zenon
        <4> QED
          BY <4>1, <4>2, SolvesSubset
      <3>3. \A t \in SUBSET Others(s) : h[t] = sol(Others(s))[t]
        BY <1>3, <1>4, <3>1, <3>2, SolvesOnce
      <3>4. sol(s)[Others(s)] = sol(Others(s))[Others(s)]
        BY <3>2, <3>3, Zenon
      <3>5. sol(s)[s] = f[First(s)] + sol(s)[Others(s)]
        BY <1>3, <1>5, <2>2, Zenon DEF Solves
      <3> QED
        BY <2>2, <3>4, <3>5, Zenon
    <2> QED
      BY <2>1, <2>2
  <1> DEFINE g == [s \in SUBSET m |-> IF s = {} THEN 0 ELSE f[First(s)] + sol(Others(s))[Others(s)]]
  <1>6. ASSUME NEW s \in SUBSET m
        PROVE  g[s] = IF s = {} THEN 0 ELSE f[First(s)] + g[Others(s)]
    <2>1. CASE s = {}
      BY <2>1
    <2>2. CASE s # {}
      <3>1. Others(s) \in SUBSET m /\ Others(s) # m
        BY <2>2, FirstOfSet
      <3>2. g[Others(s)] = sol(Others(s))[Others(s)]
        BY <1>5, <3>1, Zenon
      <3>3. g[s] = f[First(s)] + sol(Others(s))[Others(s)]
        BY <2>2, Zenon
      <3> HIDE DEF g
      <3> QED
        BY <2>2, <3>2, <3>3, Zenon
    <2> QED
      BY <2>1, <2>2
  <1>7. g = [s \in SUBSET m |-> g[s]]
    BY Zenon
  <1> HIDE DEF g
  <1>8. Solves(g, f, m)
    BY <1>6, <1>7, Zenon DEF Solves
  <1> QED
    BY <1>2, <1>8, Zenon DEF T

\* The fold obeys its equation.
LEMMA SumUnfold ==
    ASSUME NEW f, NEW S, IsFiniteSet(S)
    PROVE  SumOver(S, f) = IF S = {} THEN 0 ELSE f[First(S)] + SumOver(Others(S), f)
  <1> DEFINE sol(s) == CHOOSE g : Solves(g, f, s)
  <1>1. Solves(sol(S), f, S)
    BY SolvesExists, Zenon
  <1>2. SumOver(S, f) = sol(S)[S]
    BY Unfold, Zenon
  <1>3. CASE S = {}
    BY <1>1, <1>2, <1>3, Zenon DEF Solves
  <1>4. CASE S # {}
    <2>1. Others(S) \in SUBSET S /\ IsFiniteSet(Others(S))
      BY <1>4, FirstOfSet, FS_Subset
    <2>2. Solves(sol(Others(S)), f, Others(S))
      BY <2>1, SolvesExists, Zenon
    <2>3. SumOver(Others(S), f) = sol(Others(S))[Others(S)]
      BY Unfold, Zenon
    <2> HIDE DEF sol
    <2>4. PICK h : Solves(h, f, Others(S)) /\ \A t \in SUBSET Others(S) : h[t] = sol(S)[t]
      BY <1>1, <2>1, SolvesSubset
    <2>5. sol(S)[Others(S)] = sol(Others(S))[Others(S)]
      BY <2>1, <2>2, <2>4, SolvesOnce
    <2>6. sol(S)[S] = f[First(S)] + sol(S)[Others(S)]
      BY <1>1, <1>4, Zenon DEF Solves
    <2> QED
      BY <1>2, <1>4, <2>3, <2>5, <2>6, Zenon
  <1> QED
    BY <1>3, <1>4

\* A total of no accounts is 0.
LEMMA SumOfNone ==
    ASSUME NEW f
    PROVE  SumOver({}, f) = 0
  BY SumUnfold, FS_EmptySet, Zenon

\* A total of natural numbers is one.
LEMMA SumIsNat ==
    ASSUME NEW S, IsFiniteSet(S), NEW f, \A x \in S : f[x] \in Nat
    PROVE  SumOver(S, f) \in Nat
  <1> DEFINE T == {s \in SUBSET S : SumOver(s, f) \notin Nat}
  <1>1. SUFFICES ASSUME T # {} PROVE FALSE
    OBVIOUS
  <1>2. PICK m \in T : \A s \in SUBSET m : s # m => s \notin T
    <2>1. T \in SUBSET (SUBSET S)
      OBVIOUS
    <2> HIDE DEF T
    <2> QED
      BY <1>1, <2>1, SmallestSubset, Zenon
  <1>3. IsFiniteSet(m) /\ m \in SUBSET S
    BY FS_Subset
  <1>4. m # {}
    <2>1. SumOver({}, f) \in Nat
      BY SumOfNone, SMT
    <2> QED
      BY <1>2, <2>1
  <1>5. First(m) \in S /\ SumOver(Others(m), f) \in Nat
    BY <1>2, <1>3, <1>4, FirstOfSet
  <1>6. SumOver(m, f) = f[First(m)] + SumOver(Others(m), f)
    BY <1>3, <1>4, SumUnfold, Zenon
  <1>7. SumOver(m, f) \in Nat
    BY <1>5, <1>6
  <1> QED
    BY <1>7

\* Any element can be taken out first.
LEMMA SumRemove ==
    ASSUME NEW S, IsFiniteSet(S), NEW f, \A x \in S : f[x] \in Nat, NEW x \in S
    PROVE  SumOver(S, f) = f[x] + SumOver(S \ {x}, f)
  <1> DEFINE T == {s \in SUBSET S : \E y \in s : SumOver(s, f) # f[y] + SumOver(s \ {y}, f)}
  <1>1. SUFFICES ASSUME T # {} PROVE FALSE
    OBVIOUS
  <1>2. PICK m \in T : \A s \in SUBSET m : s # m => s \notin T
    <2>1. T \in SUBSET (SUBSET S)
      OBVIOUS
    <2> HIDE DEF T
    <2> QED
      BY <1>1, <2>1, SmallestSubset, Zenon
  <1>3. IsFiniteSet(m) /\ m \in SUBSET S
    BY FS_Subset
  <1>4. PICK y \in m : SumOver(m, f) # f[y] + SumOver(m \ {y}, f)
    OBVIOUS
  <1>5. ASSUME NEW s \in SUBSET m, s # m, NEW z \in s
        PROVE  SumOver(s, f) = f[z] + SumOver(s \ {z}, f)
    BY <1>2, <1>3, <1>5
  <1> HIDE DEF T
  <1>6. PICK z \in m : z = First(m) /\ Others(m) = m \ {z}
    BY <1>4, FirstOfSet DEF Others
  <1>7. SumOver(m, f) = f[z] + SumOver(m \ {z}, f)
    BY <1>3, <1>4, <1>6, SumUnfold, Zenon
  <1>8. y # z
    BY <1>4, <1>7, Zenon
  <1>9. SumOver(m \ {z}, f) = f[y] + SumOver((m \ {z}) \ {y}, f)
    <2>1. m \ {z} \in SUBSET m /\ m \ {z} # m /\ y \in m \ {z}
      BY <1>8
    <2> QED
      BY <1>5, <2>1, Zenon
  <1>10. SumOver(m \ {y}, f) = f[z] + SumOver((m \ {y}) \ {z}, f)
    <2>1. m \ {y} \in SUBSET m /\ m \ {y} # m /\ z \in m \ {y}
      BY <1>8
    <2> QED
      BY <1>5, <2>1, Zenon
  <1>11. PICK r : r = m \ {y, z} /\ r = (m \ {y}) \ {z} /\ r = (m \ {z}) \ {y}
    OBVIOUS
  <1>12. SumOver(r, f) \in Nat
    <2>1. IsFiniteSet(r)
      BY <1>3, <1>11, FS_Subset
    <2>2. \A u \in r : f[u] \in Nat
      BY <1>3, <1>11
    <2> QED
      BY <2>1, <2>2, SumIsNat, Zenon
  <1>13. f[y] \in Nat /\ f[z] \in Nat
    BY <1>3
  <1>14. PICK a \in Nat, b \in Nat, c \in Nat : a = f[y] /\ b = f[z] /\ c = SumOver(r, f)
    BY <1>12, <1>13
  <1>15. SumOver(m, f) = b + (a + c) /\ SumOver(m \ {y}, f) = b + c
    BY <1>7, <1>9, <1>10, <1>11, <1>14, Zenon
  <1> QED
    BY <1>4, <1>14, <1>15, SMT

\* Adding an element.
LEMMA SumAdd ==
    ASSUME NEW S, IsFiniteSet(S), NEW x, x \notin S, NEW f, \A y \in S \cup {x} : f[y] \in Nat
    PROVE  SumOver(S \cup {x}, f) = f[x] + SumOver(S, f)
  <1>1. IsFiniteSet(S \cup {x})
    BY FS_AddElement
  <1>2. SumOver(S \cup {x}, f) = f[x] + SumOver((S \cup {x}) \ {x}, f)
    BY <1>1, SumRemove
  <1>3. (S \cup {x}) \ {x} = S
    OBVIOUS
  <1> QED
    BY <1>2, <1>3

\* The total grows with the summands.
LEMMA SumMonotone ==
    ASSUME NEW S, IsFiniteSet(S), NEW f, NEW g,
           \A x \in S : f[x] \in Nat /\ g[x] \in Nat /\ f[x] <= g[x]
    PROVE  SumOver(S, f) <= SumOver(S, g)
  <1> DEFINE T == {s \in SUBSET S : ~ (SumOver(s, f) <= SumOver(s, g))}
  <1>1. SUFFICES ASSUME T # {} PROVE FALSE
    OBVIOUS
  <1>2. PICK m \in T : \A s \in SUBSET m : s # m => s \notin T
    <2>1. T \in SUBSET (SUBSET S)
      OBVIOUS
    <2> HIDE DEF T
    <2> QED
      BY <1>1, <2>1, SmallestSubset, Zenon
  <1>3. IsFiniteSet(m) /\ m \in SUBSET S
    BY FS_Subset
  <1>4. m # {}
    <2>1. 0 <= 0
      OBVIOUS
    <2> QED
      BY <1>2, <2>1, SumOfNone
  <1>5. First(m) \in S /\ Others(m) \in SUBSET m /\ Others(m) # m
    BY <1>3, <1>4, FirstOfSet
  <1>6. IsFiniteSet(Others(m)) /\ \A x \in Others(m) : f[x] \in Nat /\ g[x] \in Nat
    BY <1>3, <1>5, FS_Subset
  <1>7. SumOver(Others(m), f) <= SumOver(Others(m), g)
    BY <1>2, <1>3, <1>5
  <1>8. SumOver(Others(m), f) \in Nat /\ SumOver(Others(m), g) \in Nat
    BY <1>6, SumIsNat
  <1>9. /\ SumOver(m, f) = f[First(m)] + SumOver(Others(m), f)
        /\ SumOver(m, g) = g[First(m)] + SumOver(Others(m), g)
    BY <1>3, <1>4, SumUnfold, Zenon
  <1>10. SumOver(m, f) <= SumOver(m, g)
    <2>1. f[First(m)] \in Nat /\ g[First(m)] \in Nat /\ f[First(m)] <= g[First(m)]
      BY <1>5
    <2> QED
      BY <1>7, <1>8, <1>9, <2>1
  <1> QED
    BY <1>10

\* It depends on the summands only.
LEMMA SumSame ==
    ASSUME NEW S, IsFiniteSet(S), NEW f, NEW g,
           \A x \in S : f[x] \in Nat /\ f[x] = g[x]
    PROVE  SumOver(S, f) = SumOver(S, g)
  <1>1. \A x \in S : f[x] \in Nat /\ g[x] \in Nat /\ f[x] <= g[x] /\ g[x] <= f[x]
    OBVIOUS
  <1>2. SumOver(S, f) <= SumOver(S, g) /\ SumOver(S, g) <= SumOver(S, f)
    BY <1>1, SumMonotone
  <1>3. SumOver(S, f) \in Nat /\ SumOver(S, g) \in Nat
    BY <1>1, SumIsNat
  <1> QED
    BY <1>2, <1>3

\* One summand changes.
LEMMA SumChange ==
    ASSUME NEW S, IsFiniteSet(S), NEW x \in S, NEW f, NEW g,
           \A y \in S : f[y] \in Nat /\ g[y] \in Nat,
           \A y \in S \ {x} : f[y] = g[y]
    PROVE  SumOver(S, g) + f[x] = SumOver(S, f) + g[x]
  <1>1. IsFiniteSet(S \ {x})
    BY FS_Subset
  <1>2. \A y \in S \ {x} : f[y] \in Nat /\ g[y] \in Nat /\ f[y] = g[y]
    OBVIOUS
  <1>3. SumOver(S \ {x}, f) = SumOver(S \ {x}, g)
    BY <1>1, <1>2, SumSame
  <1>4. SumOver(S \ {x}, f) \in Nat
    BY <1>1, <1>2, SumIsNat
  <1>5. SumOver(S, f) = f[x] + SumOver(S \ {x}, f) /\ SumOver(S, g) = g[x] + SumOver(S \ {x}, g)
    BY SumRemove
  <1>6. PICK a \in Nat, b \in Nat, c \in Nat : a = f[x] /\ b = g[x] /\ c = SumOver(S \ {x}, f)
    BY <1>4
  <1> QED
    BY <1>3, <1>5, <1>6, SMT

\* An account that is opened or closed adds or takes away what it holds.
LEMMA SumJoins ==
    ASSUME NEW S, IsFiniteSet(S), NEW x, x \notin S, NEW f, NEW g, g[x] \in Nat,
           \A y \in S : f[y] \in Nat /\ g[y] = f[y]
    PROVE  SumOver(S \cup {x}, g) = SumOver(S, f) + g[x]
  <1>1. \A y \in S \cup {x} : g[y] \in Nat
    OBVIOUS
  <1>2. SumOver(S \cup {x}, g) = g[x] + SumOver(S, g)
    BY <1>1, SumAdd
  <1>3. SumOver(S, f) = SumOver(S, g)
    BY SumSame
  <1>4. SumOver(S, f) \in Nat
    BY SumIsNat
  <1> QED
    BY <1>2, <1>3, <1>4

LEMMA SumLeaves ==
    ASSUME NEW S, IsFiniteSet(S), NEW x \in S, NEW f, NEW g,
           \A y \in S : f[y] \in Nat, \A y \in S \ {x} : g[y] = f[y]
    PROVE  SumOver(S \ {x}, g) = SumOver(S, f) - f[x]
  <1>1. IsFiniteSet(S \ {x}) /\ \A y \in S \ {x} : f[y] \in Nat /\ f[y] = g[y]
    BY FS_Subset
  <1>2. SumOver(S, f) = f[x] + SumOver(S \ {x}, f)
    BY SumRemove
  <1>3. SumOver(S \ {x}, f) = SumOver(S \ {x}, g)
    BY <1>1, SumSame
  <1>4. SumOver(S \ {x}, f) \in Nat /\ f[x] \in Nat
    BY <1>1, SumIsNat
  <1> QED
    BY <1>2, <1>3, <1>4

\* Each summand is at most the sum.
LEMMA SumCoversEach ==
    ASSUME NEW S, IsFiniteSet(S), NEW f, \A x \in S : f[x] \in Nat, NEW x \in S
    PROVE  f[x] <= SumOver(S, f)
  <1>1. SumOver(S \ {x}, f) \in Nat
    BY FS_Subset, SumIsNat
  <1>2. f[x] \in Nat /\ SumOver(S, f) = f[x] + SumOver(S \ {x}, f)
    BY SumRemove
  <1> QED
    BY <1>1, <1>2

\* Taking accounts away does not raise a total.
LEMMA SumOfFewer ==
    ASSUME NEW S, IsFiniteSet(S), NEW T \in SUBSET S, NEW f, \A x \in S : f[x] \in Nat
    PROVE  SumOver(T, f) <= SumOver(S, f)
  <1> DEFINE B == {s \in SUBSET S : T \subseteq s /\ ~ (SumOver(T, f) <= SumOver(s, f))}
  <1>1. SUFFICES ASSUME B # {} PROVE FALSE
    OBVIOUS
  <1>2. PICK m \in B : \A s \in SUBSET m : s # m => s \notin B
    <2>1. B \in SUBSET (SUBSET S)
      OBVIOUS
    <2> HIDE DEF B
    <2> QED
      BY <1>1, <2>1, SmallestSubset, Zenon
  <1>3. IsFiniteSet(m) /\ IsFiniteSet(T) /\ T \subseteq m
    BY FS_Subset
  <1>4. SumOver(T, f) \in Nat /\ SumOver(m, f) \in Nat
    BY <1>3, SumIsNat
  <1>5. PICK x \in m : x \notin T
    <2>1. m # T
      BY <1>4
    <2> QED
      BY <1>3, <2>1
  <1>6. SumOver(T, f) <= SumOver(m \ {x}, f)
    BY <1>2, <1>3, <1>5
  <1>7. SumOver(m \ {x}, f) \in Nat
    BY <1>3, FS_Subset, SumIsNat
  <1>8. SumOver(m, f) = f[x] + SumOver(m \ {x}, f) /\ f[x] \in Nat
    BY <1>3, SumRemove
  <1>9. SumOver(T, f) <= SumOver(m, f)
    BY <1>4, <1>6, <1>7, <1>8
  <1> QED
    BY <1>9

\* Accounts that hold the same.
LEMMA SumOfEqual ==
    ASSUME NEW S, IsFiniteSet(S), NEW c \in Nat, NEW f, \A x \in S : f[x] = c
    PROVE  SumOver(S, f) = Cardinality(S) * c
  <1> DEFINE B == {s \in SUBSET S : SumOver(s, f) # Cardinality(s) * c}
  <1>1. SUFFICES ASSUME B # {} PROVE FALSE
    OBVIOUS
  <1>2. PICK m \in B : \A s \in SUBSET m : s # m => s \notin B
    <2>1. B \in SUBSET (SUBSET S)
      OBVIOUS
    <2> HIDE DEF B
    <2> QED
      BY <1>1, <2>1, SmallestSubset, Zenon
  <1>3. IsFiniteSet(m) /\ m \in SUBSET S
    BY FS_Subset
  <1>4. m # {}
    <2>1. 0 * c = 0
      OBVIOUS
    <2> QED
      BY <1>2, <2>1, SumOfNone, FS_EmptySet
  <1>5. PICK x \in m : TRUE
    BY <1>4
  <1>6. SumOver(m \ {x}, f) = Cardinality(m \ {x}) * c
    BY <1>2, <1>3
  <1>7. SumOver(m, f) = c + SumOver(m \ {x}, f)
    BY <1>3, SumRemove
  <1>8. Cardinality(m \ {x}) = Cardinality(m) - 1 /\ Cardinality(m) \in Nat
    BY <1>3, FS_RemoveElement, FS_CardinalityType
  <1>9. PICK k \in Nat : k = Cardinality(m)
    BY <1>8
  <1>10. (k - 1) * c = k * c - c
    OBVIOUS
  <1>11. SumOver(m, f) = k * c
    BY <1>6, <1>7, <1>8, <1>9, <1>10
  <1> QED
    BY <1>9, <1>11

\* Every account is credited in proportion to its weight.
LEMMA SumOfShares ==
    ASSUME NEW S, IsFiniteSet(S), NEW c \in Nat, NEW f, NEW w, NEW g,
           \A x \in S : f[x] \in Nat /\ w[x] \in Nat /\ g[x] = f[x] + w[x] * c
    PROVE  SumOver(S, g) = SumOver(S, f) + SumOver(S, w) * c
  <1> DEFINE B == {s \in SUBSET S : SumOver(s, g) # SumOver(s, f) + SumOver(s, w) * c}
  <1>1. SUFFICES ASSUME B # {} PROVE FALSE
    OBVIOUS
  <1>2. PICK m \in B : \A s \in SUBSET m : s # m => s \notin B
    <2>1. B \in SUBSET (SUBSET S)
      OBVIOUS
    <2> HIDE DEF B
    <2> QED
      BY <1>1, <2>1, SmallestSubset, Zenon
  <1>3. IsFiniteSet(m) /\ m \in SUBSET S
    BY FS_Subset
  <1>4. \A x \in S : f[x] \in Nat /\ w[x] \in Nat /\ g[x] \in Nat
    <2>1. ASSUME NEW x \in S PROVE g[x] \in Nat
      BY <2>1
    <2> QED
      BY <2>1
  <1>5. m # {}
    <2>1. 0 = 0 + 0 * c
      OBVIOUS
    <2> QED
      BY <1>2, <2>1, SumOfNone
  <1>6. PICK x \in m : TRUE
    BY <1>5
  <1>7. PICK r : r = m \ {x} /\ IsFiniteSet(r) /\ r \in SUBSET m /\ r # m
    <2>1. IsFiniteSet(m \ {x})
      BY <1>3, FS_Subset
    <2> QED
      BY <2>1
  <1>8. SumOver(r, g) = SumOver(r, f) + SumOver(r, w) * c
    BY <1>2, <1>3, <1>7
  <1>9. PICK a \in Nat, b \in Nat : a = SumOver(r, f) /\ b = SumOver(r, w)
    BY <1>3, <1>4, <1>7, SumIsNat
  <1>10. PICK i \in Nat, j \in Nat : i = f[x] /\ j = w[x]
    BY <1>3, <1>4
  <1>11. g[x] = i + j * c
    BY <1>3, <1>10
  <1>12. /\ SumOver(m, f) = i + a
         /\ SumOver(m, w) = j + b
         /\ SumOver(m, g) = (i + j * c) + (a + b * c)
    <2>1. SumOver(m, f) = f[x] + SumOver(r, f)
      BY <1>3, <1>4, <1>7, SumRemove
    <2>2. SumOver(m, w) = w[x] + SumOver(r, w)
      BY <1>3, <1>4, <1>7, SumRemove
    <2>3. SumOver(m, g) = g[x] + SumOver(r, g)
      BY <1>3, <1>4, <1>7, SumRemove
    <2> QED
      BY <1>8, <1>9, <1>10, <1>11, <2>1, <2>2, <2>3, Zenon
  <1>13. (j + b) * c = j * c + b * c
    OBVIOUS
  <1>14. j * c \in Nat /\ b * c \in Nat
    OBVIOUS
  <1>15. SumOver(m, g) = SumOver(m, f) + SumOver(m, w) * c
    BY <1>12, <1>13, <1>14
  <1> QED
    BY <1>15

-----------------------------------------------------------------------------
(* The two streams of StakingMath.                                         *)

GumType == [acc : Nat, last_update : Nat]
FeeType == [acc : Nat, last_seen : Nat]
DebtType == [debt : Nat, bump : 0..1]

\* saturating_sub and min stay natural (lib.rs:2414, 2420).
LEMMA SaturatingNat ==
    ASSUME NEW a \in Nat, NEW b \in Nat
    PROVE  /\ saturating_sub(a, b) \in Nat
           /\ saturating_sub(a, b) <= a
           /\ a <= saturating_sub(a, b) + b
           /\ b <= a => saturating_sub(a, b) = a - b
           /\ AtMost(a, b) \in Nat
           /\ AtMost(a, b) <= a
           /\ AtMost(a, b) <= b
  BY DEF saturating_sub, AtMost

\* The whole lamports or units of GUM a weight has earned, and the fraction it
\* is still short of the next one.
LEMMA EntitledBounds ==
    ASSUME NEW w \in Nat, NEW acc \in Nat
    PROVE  /\ Entitled(w, acc) \in Nat
           /\ w * acc \in Nat
           /\ ACC_SCALE * Entitled(w, acc) \in Nat
           /\ ACC_SCALE * Entitled(w, acc) <= w * acc
           /\ w * acc < ACC_SCALE * Entitled(w, acc) + ACC_SCALE
  <1>1. ACC_SCALE \in Nat \ {0}
    BY ScaleAssumption
  <1>2. PICK x \in Nat : x = w * acc
    OBVIOUS
  <1>3. Entitled(w, acc) = x \div ACC_SCALE
    BY <1>2 DEF Entitled
  <1>4. PICK q \in Nat : q = x \div ACC_SCALE
    BY <1>1, DivIsFloor
  <1>5. ACC_SCALE * q <= x /\ x < ACC_SCALE * q + ACC_SCALE
    BY <1>1, <1>4, DivIsFloor
  <1>6. ACC_SCALE * q \in Nat
    BY <1>1
  <1> QED
    BY <1>2, <1>3, <1>4, <1>5, <1>6

\* An entitlement does not fall when the accumulator rises.
LEMMA EntitledRises ==
    ASSUME NEW w \in Nat, NEW a \in Nat, NEW b \in Nat, a <= b
    PROVE  Entitled(w, a) <= Entitled(w, b)
  <1>1. ACC_SCALE \in Nat \ {0}
    BY ScaleAssumption
  <1>2. PICK x \in Nat, y \in Nat : x = w * a /\ y = w * b
    OBVIOUS
  <1>3. x <= y
    BY <1>2, ProductGrows
  <1>4. PICK q \in Nat : q = x \div ACC_SCALE
    BY <1>1, DivIsFloor
  <1>5. ACC_SCALE * q <= y
    BY <1>1, <1>3, <1>4, DivIsFloor
  <1>6. q <= y \div ACC_SCALE
    BY <1>1, <1>5, DivAtLeast
  <1> QED
    BY <1>2, <1>4, <1>6 DEF Entitled

\* A whole amount that the earnings in fractions stay below.
LEMMA EntitledAtMost ==
    ASSUME NEW w \in Nat, NEW acc \in Nat, NEW q \in Nat, w * acc < ACC_SCALE * q + ACC_SCALE
    PROVE  Entitled(w, acc) <= q
  <1>1. ACC_SCALE \in Nat \ {0} /\ w * acc \in Nat
    BY ScaleAssumption
  <1> QED
    BY <1>1, DivAtMost DEF Entitled

\* What the accumulator rises by pays no more than came in, in fractions: for
\* the whole weight (lib.rs:2363) ...
LEMMA SharePays ==
    ASSUME NEW x \in Nat, NEW total \in Nat \ {0}, NEW w \in Nat, w <= total
    PROVE  /\ (x * ACC_SCALE) \div total \in Nat
           /\ w * ((x * ACC_SCALE) \div total) \in Nat
           /\ w * ((x * ACC_SCALE) \div total) <= ACC_SCALE * x
  <1>1. ACC_SCALE \in Nat
    BY ScaleAssumption
  <1>2. PICK y \in Nat : y = x * ACC_SCALE
    BY <1>1
  <1>3. PICK q \in Nat : q = y \div total
    BY DivIsFloor
  <1>4. total * q <= y
    BY <1>3, DivIsFloor
  <1>5. w * q <= total * q /\ w * q \in Nat
    BY ProductGrows
  <1>6. y = ACC_SCALE * x
    BY <1>1, <1>2
  <1> QED
    BY <1>2, <1>3, <1>4, <1>5, <1>6

-----------------------------------------------------------------------------

\* update_xnt_accumulator only ever raises the accumulator, brings last_seen
\* up to the pool, and credits no weight with more than it found.
LEMMA FeeUpdate ==
    ASSUME NEW fee \in FeeType, NEW pool \in Nat, NEW total \in Nat, NEW w \in Nat, w <= total
    PROVE  LET new == update_xnt_accumulator(fee, pool, total)
           IN  /\ new \in FeeType
               /\ fee.acc <= new.acc
               /\ fee.last_seen <= new.last_seen
               /\ pool <= fee.last_seen \/ total = 0 => new = fee
               /\ fee.last_seen <= pool => new.last_seen <= pool
               /\ fee.last_seen <= pool /\ total # 0 => new.last_seen = pool
               /\ w * new.acc + ACC_SCALE * fee.last_seen
                    <= w * fee.acc + ACC_SCALE * new.last_seen
  <1> DEFINE new == update_xnt_accumulator(fee, pool, total)
  <1>0. fee.acc \in Nat /\ fee.last_seen \in Nat /\ ACC_SCALE \in Nat
    BY ScaleAssumption DEF FeeType
  <1>1. CASE pool <= fee.last_seen \/ total = 0
    <2>1. new = fee
      BY <1>1 DEF update_xnt_accumulator
    <2> QED
      BY <1>0, <1>1, <2>1
  <1>2. CASE pool > fee.last_seen /\ total # 0
    <2>1. PICK x \in Nat : x = pool - fee.last_seen
      BY <1>0, <1>2
    <2>2. PICK d \in Nat : d = (x * ACC_SCALE) \div total
      BY <1>2, SharePays
    <2>3. w * d \in Nat /\ w * d <= ACC_SCALE * x
      BY <1>2, <2>2, SharePays
    <2>4. new = [acc |-> fee.acc + d, last_seen |-> pool]
      BY <1>0, <1>2, <2>1, <2>2 DEF update_xnt_accumulator
    <2>5. w * (fee.acc + d) = w * fee.acc + w * d
      BY <1>0
    <2>6. ACC_SCALE * pool = ACC_SCALE * fee.last_seen + ACC_SCALE * x
      <3>1. pool = fee.last_seen + x
        BY <1>0, <2>1
      <3> QED
        BY <1>0, <3>1
    <2>7. w * new.acc + ACC_SCALE * fee.last_seen <= w * fee.acc + ACC_SCALE * new.last_seen
      <3>1. PICK a \in Nat, b \in Nat, c \in Nat, e \in Nat :
               a = w * fee.acc /\ b = w * d /\ c = ACC_SCALE * fee.last_seen /\ e = ACC_SCALE * x
        <4>1. w * fee.acc \in Nat /\ ACC_SCALE * fee.last_seen \in Nat /\ ACC_SCALE * x \in Nat
          BY <1>0
        <4> QED
          BY <2>3, <4>1, Zenon
      <3>2. w * new.acc = a + b /\ ACC_SCALE * new.last_seen = c + e
        BY <2>4, <2>5, <2>6, <3>1
      <3> QED
        BY <2>3, <3>1, <3>2
    <2> QED
      BY <1>0, <1>2, <2>4, <2>7 DEF FeeType
  <1>3. pool <= fee.last_seen \/ total = 0 \/ (pool > fee.last_seen /\ total # 0)
    BY <1>0
  <1> QED
    BY <1>1, <1>2, <1>3


\* UpdateGum does the same with what the vault emits.
LEMMA GumUpdate ==
    ASSUME NEW gum \in GumType, NEW vault \in Nat, NEW total \in Nat, NEW now \in Nat,
           NEW w \in Nat, w <= total
    PROVE  LET new == UpdateGum(gum, vault, total, now)
           IN  /\ new \in GumType
               /\ gum.acc <= new.acc
               /\ gum.last_update <= now => new.last_update = now
               /\ Emission(gum, vault, total, now) \in Nat
               /\ w * new.acc <= w * gum.acc + ACC_SCALE * Emission(gum, vault, total, now)
  <1> DEFINE new == UpdateGum(gum, vault, total, now)
             paid == Emission(gum, vault, total, now)
  <1>0. /\ gum.acc \in Nat /\ gum.last_update \in Nat
        /\ ACC_SCALE \in Nat /\ EMISSION_NUM \in Nat /\ EMISSION_DEN \in Nat \ {0}
    BY ScaleAssumption, EmissionAssumption DEF GumType
  <1>1. paid \in Nat
    <2>1. CASE now > gum.last_update
      <3>1. PICK x \in Nat : x = vault * EMISSION_NUM
        BY <1>0
      <3>2. PICK d \in Nat : d = now - gum.last_update
        BY <1>0, <2>1
      <3>3. PICK y \in Nat : y = x * d
        OBVIOUS
      <3>4. y \div EMISSION_DEN \in Nat
        BY <1>0, DivIsFloor
      <3> QED
        BY <3>1, <3>2, <3>3, <3>4 DEF Emission
    <2>2. CASE ~ (now > gum.last_update)
      BY <2>2 DEF Emission
    <2> QED
      BY <2>1, <2>2
  <1>2. PICK e \in Nat : e = paid
    BY <1>1
  <1>3. w * gum.acc \in Nat /\ ACC_SCALE * e \in Nat
    BY <1>0
  <1>4. CASE now <= gum.last_update
    <2>1. new = gum
      BY <1>4 DEF UpdateGum
    <2>2. gum.last_update <= now => gum.last_update = now
      BY <1>0, <1>4
    <2>3. w * gum.acc <= w * gum.acc + ACC_SCALE * e
      BY <1>3
    <2> QED
      BY <1>0, <1>2, <2>1, <2>2, <2>3
  <1>5. CASE ~ (now <= gum.last_update) /\ total = 0
    <2>1. new = [acc |-> gum.acc, last_update |-> now]
      BY <1>5 DEF UpdateGum
    <2>2. w * gum.acc <= w * gum.acc + ACC_SCALE * e
      BY <1>3
    <2> QED
      BY <1>0, <1>2, <2>1, <2>2 DEF GumType
  <1>6. CASE ~ (now <= gum.last_update) /\ total # 0
    <2>1. PICK d \in Nat : d = (e * ACC_SCALE) \div total
      BY <1>6, SharePays
    <2>2. w * d \in Nat /\ w * d <= ACC_SCALE * e
      BY <1>6, <2>1, SharePays
    <2>3. new = [acc |-> gum.acc + d, last_update |-> now]
      BY <1>2, <1>6, <2>1 DEF UpdateGum
    <2>4. w * (gum.acc + d) = w * gum.acc + w * d
      BY <1>0
    <2>5. w * new.acc <= w * gum.acc + ACC_SCALE * e
      BY <1>3, <2>2, <2>3, <2>4
    <2> QED
      BY <1>0, <1>2, <2>3, <2>5 DEF GumType
  <1> QED
    BY <1>4, <1>5, <1>6

\* A settlement pays what is pending as far as the pool can go, leaves the
\* pool its rent and last_seen where the payment has put it.
LEMMA Settlement ==
    ASSUME NEW fee \in FeeType, NEW pool \in Nat, NEW debt \in DebtType, NEW w \in Nat,
           POOL_RENT <= pool, fee.last_seen <= pool
    PROVE  LET s == settle_xnt_fees(fee, pool, debt, w)
           IN  /\ s.paid \in Nat /\ s.remaining \in Nat
               /\ s.paid + s.remaining = PendingXnt(fee, debt, w)
               /\ PendingXnt(fee, debt, w) \in Nat
               /\ s.fee = [acc |-> fee.acc, last_seen |-> saturating_sub(fee.last_seen, s.paid)]
               /\ s.fee \in FeeType
               /\ s.pool = pool - s.paid /\ s.pool \in Nat
               /\ POOL_RENT <= s.pool /\ s.fee.last_seen <= s.pool
               /\ s.debt = IF debt.bump = 0 THEN Snapshot(w, fee.acc)
                           ELSE [debt |-> debt.debt + s.paid, bump |-> 1]
               /\ s.debt \in DebtType
  <1> DEFINE s == settle_xnt_fees(fee, pool, debt, w)
  <1>0. /\ fee.acc \in Nat /\ fee.last_seen \in Nat /\ debt.debt \in Nat
        /\ debt.bump \in 0..1 /\ POOL_RENT \in Nat
        /\ fee = [acc |-> fee.acc, last_seen |-> fee.last_seen]
        /\ debt = [debt |-> debt.debt, bump |-> debt.bump]
    BY ScaleAssumption DEF FeeType, DebtType
  <1>1. PICK e \in Nat : e = Entitled(w, fee.acc)
    BY <1>0, EntitledBounds
  <1>2. PICK p \in Nat : p = PendingXnt(fee, debt, w)
    BY <1>0, <1>1, SaturatingNat DEF PendingXnt
  <1>3. PICK v \in Nat : v = Withdrawable(pool) /\ v = pool - POOL_RENT
    BY <1>0 DEF Withdrawable, saturating_sub
  <1>4. PICK x \in Nat : x = AtMost(p, v) /\ x <= p /\ x <= v
    BY SaturatingNat
  <1>5. s = [fee |-> SeenAfter(fee, x), pool |-> pool - x, debt |-> DebtAfter(fee, debt, w, x),
             paid |-> x, remaining |-> p - x]
    BY <1>2, <1>3, <1>4 DEF settle_xnt_fees
  <1>6. SeenAfter(fee, x) = [acc |-> fee.acc, last_seen |-> saturating_sub(fee.last_seen, x)]
    BY <1>0 DEF SeenAfter
  <1>7. /\ saturating_sub(fee.last_seen, x) \in Nat
        /\ saturating_sub(fee.last_seen, x) <= pool - x
    BY <1>0, <1>3, <1>4 DEF saturating_sub
  <1>8. DebtAfter(fee, debt, w, x) = IF debt.bump = 0 THEN Snapshot(w, fee.acc)
                                     ELSE [debt |-> debt.debt + x, bump |-> 1]
    BY <1>0 DEF DebtAfter
  <1>9. DebtAfter(fee, debt, w, x) \in DebtType
    BY <1>0, <1>1, <1>8 DEF Snapshot, DebtType
  <1>10. SeenAfter(fee, x) \in FeeType
    BY <1>0, <1>6, <1>7 DEF FeeType
  <1>11. pool - x \in Nat /\ POOL_RENT <= pool - x /\ p - x \in Nat /\ x + (p - x) = p
    BY <1>0, <1>3, <1>4
  <1> HIDE DEF s
  <1>12. /\ s.fee = SeenAfter(fee, x) /\ s.pool = pool - x /\ s.paid = x /\ s.remaining = p - x
         /\ s.debt = DebtAfter(fee, debt, w, x)
    BY <1>5
  <1> QED
    BY <1>2, <1>6, <1>7, <1>8, <1>9, <1>10, <1>11, <1>12 DEF s

\* Before a weight joins, last_seen is brought up to the pool even when there
\* is nobody to credit; with somebody there it is the usual update.
LEMMA FeeAdvance ==
    ASSUME NEW fee \in FeeType, NEW pool \in Nat, NEW total \in Nat, fee.last_seen <= pool
    PROVE  LET new == advance_xnt_for_stake(fee, pool, total)
           IN  /\ new \in FeeType
               /\ new.last_seen = pool
               /\ fee.acc <= new.acc
               /\ total # 0 => new = update_xnt_accumulator(fee, pool, total)
  <1> DEFINE new == advance_xnt_for_stake(fee, pool, total)
  <1>1. CASE total = 0
    <2>1. [fee EXCEPT !.last_seen = pool] = [acc |-> fee.acc, last_seen |-> pool]
      BY DEF FeeType
    <2>2. new = [acc |-> fee.acc, last_seen |-> pool]
      BY <1>1, <2>1 DEF advance_xnt_for_stake, update_xnt_accumulator
    <2>3. fee.acc \in Nat
      BY DEF FeeType
    <2> QED
      BY <1>1, <2>2, <2>3 DEF FeeType
  <1>2. CASE total # 0
    <2>1. new = update_xnt_accumulator(fee, pool, total)
      BY <1>2 DEF advance_xnt_for_stake
    <2> QED
      BY <1>2, <2>1, FeeUpdate
  <1> QED
    BY <1>1, <1>2

\* A fuller pool raises the accumulator at least as far.
LEMMA FeeUpdateRises ==
    ASSUME NEW fee \in FeeType, NEW pool \in Nat, NEW more \in Nat, pool <= more,
           NEW total \in Nat
    PROVE  update_xnt_accumulator(fee, pool, total).acc
             <= update_xnt_accumulator(fee, more, total).acc
  <1>0. fee.acc \in Nat /\ fee.last_seen \in Nat /\ ACC_SCALE \in Nat
    BY ScaleAssumption DEF FeeType
  <1>1. CASE pool <= fee.last_seen \/ total = 0
    <2>1. update_xnt_accumulator(fee, pool, total) = fee
      BY <1>1 DEF update_xnt_accumulator
    <2>2. fee.acc <= update_xnt_accumulator(fee, more, total).acc
      <3>1. 0 \in Nat /\ 0 <= total
        OBVIOUS
      <3> QED
        BY <3>1, FeeUpdate
    <2> QED
      BY <2>1, <2>2
  <1>2. CASE pool > fee.last_seen /\ total # 0
    <2>1. PICK x \in Nat, y \in Nat : x = pool - fee.last_seen /\ y = more - fee.last_seen /\ x <= y
      BY <1>0, <1>2
    <2>2. PICK a \in Nat, b \in Nat : a = x * ACC_SCALE /\ b = y * ACC_SCALE
      BY <1>0
    <2>3. a <= b
      <3>1. ACC_SCALE * x <= ACC_SCALE * y
        BY <1>0, <2>1, ProductGrows
      <3>2. ACC_SCALE * x = a /\ ACC_SCALE * y = b
        BY <1>0, <2>2
      <3> QED
        BY <3>1, <3>2
    <2>4. PICK q \in Nat : q = a \div total /\ total * q <= a
      BY <1>2, DivIsFloor
    <2>5. PICK r \in Nat : r = b \div total
      BY <1>2, DivIsFloor
    <2>6. q <= r
      <3>1. total * q <= b /\ total \in Nat \ {0}
        <4>1. total * q \in Nat
          OBVIOUS
        <4> QED
          BY <1>2, <2>3, <2>4, <4>1
      <3> QED
        BY <2>5, <3>1, DivAtLeast
    <2>7. /\ update_xnt_accumulator(fee, pool, total).acc = fee.acc + q
          /\ update_xnt_accumulator(fee, more, total).acc = fee.acc + r
      BY <1>0, <1>2, <2>1, <2>2, <2>4, <2>5 DEF update_xnt_accumulator
    <2> QED
      BY <1>0, <2>6, <2>7
  <1>3. pool <= fee.last_seen \/ total = 0 \/ (pool > fee.last_seen /\ total # 0)
    BY <1>0
  <1> QED
    BY <1>1, <1>2, <1>3

-----------------------------------------------------------------------------
(* One position of weight w in the GUM stream: what it was paid and may    *)
(* still claim is at most the units e that the stream has moved on since   *)
(* it was opened; those, and what the vault has emitted since the last     *)
(* update, are covered by what was emitted in its time.                    *)

CreditedUpTo(w, gum, got, debt, e) ==
    /\ w * gum.acc + ACC_SCALE * got < ACC_SCALE * (debt + e) + ACC_SCALE
    /\ debt <= Entitled(w, gum.acc)

EmittedSince(gum, vault, now) == vault * EMISSION_NUM * (now - gum.last_update)

PaidAsEmitted(w, gum, vault, now, emitted, got, debt) ==
    /\ gum.last_update <= now
    /\ \E e \in Nat :
         /\ e * EMISSION_DEN + EmittedSince(gum, vault, now) <= emitted
         /\ CreditedUpTo(w, gum, got, debt, e)

\* The vault emits natural amounts, and the stream moves on by no more.
LEMMA EmissionBound ==
    ASSUME NEW gum \in GumType, NEW vault \in Nat, NEW total \in Nat, NEW now \in Nat,
           gum.last_update <= now
    PROVE  /\ EmittedSince(gum, vault, now) \in Nat
           /\ Emission(gum, vault, total, now) \in Nat
           /\ Emission(gum, vault, total, now) * EMISSION_DEN <= EmittedSince(gum, vault, now)
  <1>0. gum.last_update \in Nat /\ EMISSION_NUM \in Nat /\ EMISSION_DEN \in Nat \ {0}
    BY EmissionAssumption DEF GumType
  <1>1. PICK x \in Nat : x = vault * EMISSION_NUM
    BY <1>0
  <1>2. PICK d \in Nat : d = now - gum.last_update
    BY <1>0
  <1>3. PICK y \in Nat : y = x * d
    OBVIOUS
  <1>4. EmittedSince(gum, vault, now) = y
    BY <1>1, <1>2, <1>3 DEF EmittedSince
  <1>5. PICK q \in Nat : q = y \div EMISSION_DEN /\ EMISSION_DEN * q <= y
    BY <1>0, DivIsFloor
  <1>6. Emission(gum, vault, total, now) = q \/ Emission(gum, vault, total, now) = 0
    BY <1>1, <1>2, <1>3, <1>5 DEF Emission
  <1>7. q * EMISSION_DEN = EMISSION_DEN * q /\ 0 * EMISSION_DEN = 0
    BY <1>0
  <1> QED
    BY <1>4, <1>5, <1>6, <1>7

\* It stays so when the stream is brought up to date,
LEMMA GumBroughtUp ==
    ASSUME NEW gum \in GumType, NEW vault \in Nat, NEW total \in Nat, NEW now \in Nat,
           NEW w \in Nat, w <= total,
           NEW emitted \in Nat, NEW got \in Nat, NEW debt \in Nat,
           PaidAsEmitted(w, gum, vault, now, emitted, got, debt)
    PROVE  LET new == UpdateGum(gum, vault, total, now)
           IN  /\ PaidAsEmitted(w, new, vault, now, emitted, got, debt)
               /\ new \in GumType
               /\ new.last_update = now
  <1>0. /\ gum.acc \in Nat /\ gum.last_update \in Nat /\ gum.last_update <= now
        /\ ACC_SCALE \in Nat /\ EMISSION_NUM \in Nat /\ EMISSION_DEN \in Nat
    BY ScaleAssumption, EmissionAssumption DEF GumType, PaidAsEmitted
  <1>1. PICK new : new = UpdateGum(gum, vault, total, now)
    OBVIOUS
  <1>2. PICK m \in Nat : m = Emission(gum, vault, total, now)
    BY <1>0, EmissionBound
  <1>3. /\ new \in GumType /\ gum.acc <= new.acc /\ new.last_update = now
        /\ w * new.acc <= w * gum.acc + ACC_SCALE * m
    BY <1>0, <1>1, <1>2, GumUpdate
  <1>4. new.acc \in Nat
    BY <1>3 DEF GumType
  <1>5. PICK e \in Nat : /\ e * EMISSION_DEN + EmittedSince(gum, vault, now) <= emitted
                         /\ CreditedUpTo(w, gum, got, debt, e)
    BY DEF PaidAsEmitted
  <1>6. EmittedSince(new, vault, now) = 0
    <2>1. PICK x \in Nat : x = vault * EMISSION_NUM
      BY <1>0
    <2>2. now - new.last_update = 0 /\ x * 0 = 0
      BY <1>3
    <2> QED
      BY <2>1, <2>2 DEF EmittedSince
  <1>7. (e + m) * EMISSION_DEN + EmittedSince(new, vault, now) <= emitted
    <2>1. PICK y \in Nat : y = EmittedSince(gum, vault, now) /\ m * EMISSION_DEN <= y
      BY <1>0, <1>2, EmissionBound
    <2>2. PICK a \in Nat, b \in Nat : a = e * EMISSION_DEN /\ b = m * EMISSION_DEN
      BY <1>0
    <2>3. (e + m) * EMISSION_DEN = a + b
      BY <1>0, <2>2
    <2> QED
      BY <1>5, <1>6, <2>1, <2>2, <2>3
  <1>8. CreditedUpTo(w, new, got, debt, e + m)
    <2>1. PICK a \in Nat, b \in Nat, g \in Nat, d \in Nat, c \in Nat :
             /\ a = w * gum.acc /\ b = w * new.acc /\ g = ACC_SCALE * got
             /\ d = ACC_SCALE * (debt + e) /\ c = ACC_SCALE * m
      <3>1. /\ w * gum.acc \in Nat /\ w * new.acc \in Nat /\ ACC_SCALE * got \in Nat
            /\ ACC_SCALE * (debt + e) \in Nat /\ ACC_SCALE * m \in Nat
        BY <1>0, <1>4
      <3> QED
        BY <3>1, Zenon
    <2>2. ACC_SCALE * (debt + (e + m)) = d + c
      BY <1>0, <2>1
    <2>3. a + g < d + ACC_SCALE
      BY <1>5, <2>1 DEF CreditedUpTo
    <2>4. b + g < (d + c) + ACC_SCALE
      BY <1>0, <1>3, <2>1, <2>3
    <2>5. debt <= Entitled(w, new.acc)
      <3>1. Entitled(w, gum.acc) <= Entitled(w, new.acc)
        BY <1>0, <1>3, <1>4, EntitledRises
      <3>2. PICK i \in Nat, j \in Nat : i = Entitled(w, gum.acc) /\ j = Entitled(w, new.acc)
        BY <1>0, <1>4, EntitledBounds
      <3>3. debt <= i
        BY <1>5, <3>2 DEF CreditedUpTo
      <3> QED
        BY <3>1, <3>2, <3>3
    <2> QED
      BY <2>1, <2>2, <2>4, <2>5 DEF CreditedUpTo
  <1>9. e + m \in Nat
    OBVIOUS
  <1> QED
    BY <1>1, <1>3, <1>0, <1>7, <1>8, <1>9 DEF PaidAsEmitted

\* when a second passes,
LEMMA GumTicks ==
    ASSUME NEW gum \in GumType, NEW vault \in Nat, NEW now \in Nat, NEW w \in Nat,
           NEW emitted \in Nat, NEW got \in Nat, NEW debt \in Nat,
           PaidAsEmitted(w, gum, vault, now, emitted, got, debt)
    PROVE  PaidAsEmitted(w, gum, vault, now + 1, emitted + vault * EMISSION_NUM, got, debt)
  <1>0. gum.last_update \in Nat /\ gum.last_update <= now /\ EMISSION_NUM \in Nat
        /\ EMISSION_DEN \in Nat
    BY EmissionAssumption DEF GumType, PaidAsEmitted
  <1>1. PICK x \in Nat : x = vault * EMISSION_NUM
    BY <1>0
  <1>2. PICK d \in Nat : d = now - gum.last_update
    BY <1>0
  <1>3. (now + 1) - gum.last_update = d + 1
    BY <1>0, <1>2
  <1>9. x * (d + 1) = x * d + x /\ x * d \in Nat
    OBVIOUS
  <1>4. EmittedSince(gum, vault, now + 1) = EmittedSince(gum, vault, now) + x
        /\ EmittedSince(gum, vault, now) \in Nat
    BY <1>1, <1>2, <1>3, <1>9 DEF EmittedSince
  <1>5. PICK e \in Nat : /\ e * EMISSION_DEN + EmittedSince(gum, vault, now) <= emitted
                         /\ CreditedUpTo(w, gum, got, debt, e)
    BY DEF PaidAsEmitted
  <1>6. e * EMISSION_DEN \in Nat
    BY <1>0
  <1>7. e * EMISSION_DEN + EmittedSince(gum, vault, now + 1) <= emitted + x
    BY <1>4, <1>5, <1>6
  <1>8. gum.last_update <= now + 1
    BY <1>0
  <1> QED
    BY <1>1, <1>5, <1>7, <1>8 DEF PaidAsEmitted

\* and when, the stream being up to date, part of what is pending is paid,
\* whoever's claim has lowered the vault.
LEMMA GumPaid ==
    ASSUME NEW gum \in GumType, NEW vault \in Nat, NEW left \in Nat, NEW now \in Nat,
           NEW w \in Nat, gum.last_update = now,
           NEW emitted \in Nat, NEW got \in Nat, NEW debt \in Nat,
           PaidAsEmitted(w, gum, vault, now, emitted, got, debt)
    PROVE  LET due == saturating_sub(Entitled(w, gum.acc), debt)
           IN  /\ due \in Nat
               /\ due = 0 => debt = Entitled(w, gum.acc)
               /\ (got + due) * EMISSION_DEN <= emitted
               /\ PaidAsEmitted(w, gum, left, now, emitted, got, debt)
               /\ \A paid \in Nat : paid <= due =>
                    PaidAsEmitted(w, gum, left, now, emitted, got + paid, Entitled(w, gum.acc))
  <1>0. /\ gum.acc \in Nat /\ gum.last_update \in Nat
        /\ ACC_SCALE \in Nat \ {0} /\ EMISSION_NUM \in Nat /\ EMISSION_DEN \in Nat
    BY ScaleAssumption, EmissionAssumption DEF GumType
  <1>1. \A v \in Nat : EmittedSince(gum, v, now) = 0
    <2>1. SUFFICES ASSUME NEW v \in Nat PROVE EmittedSince(gum, v, now) = 0
      OBVIOUS
    <2>2. PICK x \in Nat : x = v * EMISSION_NUM
      BY <1>0
    <2>3. now - gum.last_update = 0 /\ x * 0 = 0
      BY <1>0
    <2> QED
      BY <2>2, <2>3 DEF EmittedSince
  <1>2. PICK e \in Nat : /\ e * EMISSION_DEN + EmittedSince(gum, vault, now) <= emitted
                         /\ CreditedUpTo(w, gum, got, debt, e)
    BY DEF PaidAsEmitted
  <1>3. e * EMISSION_DEN <= emitted /\ e * EMISSION_DEN \in Nat
    BY <1>0, <1>1, <1>2
  <1>4. PICK q \in Nat : /\ q = Entitled(w, gum.acc)
                         /\ ACC_SCALE * q <= w * gum.acc
                         /\ w * gum.acc < ACC_SCALE * q + ACC_SCALE
    BY <1>0, EntitledBounds
  <1>5. debt <= q
    BY <1>2, <1>4 DEF CreditedUpTo
  <1>6. PICK due \in Nat : due = saturating_sub(q, debt) /\ due = q - debt
    BY <1>5, SaturatingNat
  <1>7. PICK a \in Nat, b \in Nat, g \in Nat, d \in Nat, f \in Nat, u \in Nat :
           /\ a = w * gum.acc /\ b = ACC_SCALE * q /\ g = ACC_SCALE * got
           /\ d = ACC_SCALE * debt /\ f = ACC_SCALE * e /\ u = ACC_SCALE * due
    <2>1. /\ w * gum.acc \in Nat /\ ACC_SCALE * q \in Nat /\ ACC_SCALE * got \in Nat
          /\ ACC_SCALE * debt \in Nat /\ ACC_SCALE * e \in Nat /\ ACC_SCALE * due \in Nat
      BY <1>0
    <2> QED
      BY <2>1, Zenon
  <1>8. ACC_SCALE * (debt + e) = d + f
    BY <1>0, <1>7
  <1>9. a + g < (d + f) + ACC_SCALE
    BY <1>2, <1>7, <1>8 DEF CreditedUpTo
  <1>10. b = d + u
    <2>1. q = debt + due
      BY <1>6
    <2> QED
      BY <1>0, <1>7, <2>1
  <1>11. got + due <= e
    <2>1. ACC_SCALE * (got + due) = g + u
      BY <1>0, <1>7
    <2>2. ACC_SCALE * (e + 1) = f + ACC_SCALE
      BY <1>0, <1>7
    <2>3. g + u < f + ACC_SCALE
      <3>1. b <= a
        BY <1>4, <1>7
      <3> QED
        BY <1>0, <1>9, <1>10, <3>1
    <2>4. ~ (e + 1 <= got + due)
      <3>1. e + 1 <= got + due => ACC_SCALE * (e + 1) <= ACC_SCALE * (got + due)
        BY <1>0, ProductGrows
      <3>2. g + u \in Nat /\ f + ACC_SCALE \in Nat
        BY <1>0
      <3> QED
        BY <2>1, <2>2, <2>3, <3>1, <3>2
    <2> QED
      BY <2>4
  <1>12. (got + due) * EMISSION_DEN <= emitted
    <2>1. EMISSION_DEN * (got + due) <= EMISSION_DEN * e
      BY <1>0, <1>11, ProductGrows
    <2>2. EMISSION_DEN * e = e * EMISSION_DEN /\ EMISSION_DEN * (got + due) = (got + due) * EMISSION_DEN
      BY <1>0
    <2>3. EMISSION_DEN * (got + due) \in Nat
      BY <1>0
    <2> QED
      BY <1>3, <2>1, <2>2, <2>3
  <1>13. PaidAsEmitted(w, gum, left, now, emitted, got, debt)
    BY <1>0, <1>1, <1>2 DEF PaidAsEmitted
  <1>14. ASSUME NEW paid \in Nat, paid <= due
         PROVE  PaidAsEmitted(w, gum, left, now, emitted, got + paid, q)
    <2>1. PICK x \in Nat : x = ACC_SCALE * paid /\ x <= u
      BY <1>0, <1>7, <1>14, ProductGrows
    <2>2. ACC_SCALE * (got + paid) = g + x /\ ACC_SCALE * (q + e) = b + f
      BY <1>0, <1>7, <2>1
    <2>3. a + (g + x) < (b + f) + ACC_SCALE
      BY <1>0, <1>9, <1>10, <2>1
    <2>4. w * gum.acc + ACC_SCALE * (got + paid) < ACC_SCALE * (q + e) + ACC_SCALE
      BY <1>7, <2>2, <2>3
    <2>5. CreditedUpTo(w, gum, got + paid, q, e)
      BY <1>4, <2>4 DEF CreditedUpTo
    <2>6. gum.last_update <= now /\ e * EMISSION_DEN + EmittedSince(gum, left, now) <= emitted
      BY <1>0, <1>1, <1>3
    <2> QED
      BY <2>5, <2>6 DEF PaidAsEmitted
  <1>15. due = 0 => debt = q
    BY <1>6
  <1> QED
    BY <1>4, <1>6, <1>12, <1>13, <1>14, <1>15

\* A position that has just been opened, or has taken its debt again, has
\* nothing pending, for whatever it was paid out of what was emitted.
LEMMA GumStarts ==
    ASSUME NEW gum \in GumType, NEW vault \in Nat, NEW now \in Nat, NEW w \in Nat,
           gum.last_update = now, NEW emitted \in Nat, NEW got \in Nat,
           got * EMISSION_DEN <= emitted
    PROVE  PaidAsEmitted(w, gum, vault, now, emitted, got, Entitled(w, gum.acc))
  <1>0. /\ gum.acc \in Nat /\ gum.last_update \in Nat
        /\ ACC_SCALE \in Nat /\ EMISSION_NUM \in Nat /\ EMISSION_DEN \in Nat
    BY ScaleAssumption, EmissionAssumption DEF GumType
  <1>1. EmittedSince(gum, vault, now) = 0
    <2>1. PICK x \in Nat : x = vault * EMISSION_NUM
      BY <1>0
    <2>2. now - gum.last_update = 0 /\ x * 0 = 0
      BY <1>0
    <2> QED
      BY <2>1, <2>2 DEF EmittedSince
  <1>2. PICK q \in Nat : q = Entitled(w, gum.acc) /\ w * gum.acc < ACC_SCALE * q + ACC_SCALE
    BY <1>0, EntitledBounds
  <1>3. PICK a \in Nat, b \in Nat, g \in Nat :
           a = w * gum.acc /\ b = ACC_SCALE * q /\ g = ACC_SCALE * got
    <2>1. w * gum.acc \in Nat /\ ACC_SCALE * q \in Nat /\ ACC_SCALE * got \in Nat
      BY <1>0
    <2> QED
      BY <2>1, Zenon
  <1>4. ACC_SCALE * (q + got) = b + g
    BY <1>0, <1>3
  <1>5. a + g < (b + g) + ACC_SCALE
    BY <1>0, <1>2, <1>3
  <1>6. w * gum.acc + ACC_SCALE * got < ACC_SCALE * (q + got) + ACC_SCALE
    BY <1>3, <1>4, <1>5
  <1>7. CreditedUpTo(w, gum, got, q, got)
    BY <1>2, <1>6 DEF CreditedUpTo
  <1>8. gum.last_update <= now /\ got * EMISSION_DEN + EmittedSince(gum, vault, now) <= emitted
    <2>1. got * EMISSION_DEN \in Nat
      BY <1>0
    <2> QED
      BY <1>0, <1>1, <2>1
  <1> QED
    BY <1>2, <1>7, <1>8 DEF PaidAsEmitted

=============================================================================
