---------------------------- MODULE NumberProofs ----------------------------
(***************************************************************************)
(* Facts about numbers that the proofs of several components rest on: sums *)
(* over finite sets (SumFunctionOnSet, by which PoolPayout totals the      *)
(* payouts of a run and Bounty the bonuses of all wallets), quotients, and *)
(* the smallest member of a set of numbers.  The sum is a recursive        *)
(* function on subsets; whatever is to hold of all of them is proved of a  *)
(* smallest subset that would violate it, which exists because strict      *)
(* inclusion is well founded.                                              *)
(***************************************************************************)
EXTENDS Integers, FiniteSets, Functions, FiniteSetTheorems, TLAPS

\* A non-empty collection of subsets of a finite set has a member none of whose
\* proper subsets belongs to it.
LEMMA Smallest ==
    ASSUME NEW S, IsFiniteSet(S), NEW Bad \in SUBSET SUBSET S, Bad # {}
    PROVE  \E T \in Bad : \A U \in SUBSET T : U # T => U \notin Bad
<1> DEFINE R == StrictSubsetOrdering(S)
<1>1. IsWellFoundedOn(R, SUBSET S)
  BY FS_StrictSubsetOrderingWellFounded, FS_FiniteSubsetsOfFinite, Zenon
<1> HIDE DEF R
<1>2. PICK T \in Bad : \A U \in Bad : ~(<<U, T>> \in R)
  BY <1>1, WFMin
<1>3. \A U \in Bad : U \subseteq T /\ U # T => <<U, T>> \in R
  BY DEF R, StrictSubsetOrdering
<1>4. \A U \in SUBSET T : U # T => U \notin Bad
  BY <1>2, <1>3, Zenon
<1> QED
  BY <1>4

\* The element that a sum over s adds first, one step of the sum, and what it
\* means that g holds the sums of f over all subsets of S.
Pick(s) == CHOOSE x \in s : TRUE
SumStep(g, f, s) == IF s = {} THEN 0 ELSE f[Pick(s)] + g[s \ {Pick(s)}]
IsSum(g, f, S) == g = [s \in SUBSET S |-> SumStep(g, f, s)]

\* The library's fold is the function of these steps.
LEMMA SumIs == ASSUME NEW f, NEW S PROVE SumFunctionOnSet(f, S) = (CHOOSE g : IsSum(g, f, S))[S]
BY DEF SumFunctionOnSet, FoldFunctionOnSet, MapThenFoldSet, IsSum, SumStep, Pick

\* Taking the first element leaves a proper subset.
LEMMA PickIn == ASSUME NEW s, s # {} PROVE Pick(s) \in s /\ s \ {Pick(s)} \in SUBSET s /\ s \ {Pick(s)} # s
BY DEF Pick

\* The steps determine the sums: two functions that follow them agree.
LEMMA SumUnique ==
    ASSUME NEW f, NEW S, IsFiniteSet(S), NEW g, NEW h, IsSum(g, f, S), IsSum(h, f, S), NEW s \in SUBSET S
    PROVE  g[s] = h[s]
<1> DEFINE Bad == {t \in SUBSET S : g[t] # h[t]}
<1>1. \A t \in SUBSET S : g[t] = SumStep(g, f, t) /\ h[t] = SumStep(h, f, t)
  BY DEF IsSum
<1>2. ASSUME Bad # {} PROVE FALSE
  <2>1. PICK T \in Bad : \A U \in SUBSET T : U # T => U \notin Bad
    BY <1>2, Smallest, Zenon
  <2>2. CASE T = {}
    BY <1>1, <2>2 DEF SumStep
  <2>3. CASE T # {}
    <3>1. T \ {Pick(T)} \in SUBSET S /\ T \ {Pick(T)} \notin Bad
      BY <2>1, <2>3, PickIn
    <3>2. g[T \ {Pick(T)}] = h[T \ {Pick(T)}]
      BY <3>1
    <3> QED
      BY <1>1, <2>3, <3>2 DEF SumStep
  <2> QED
    BY <2>2, <2>3
<1> QED
  BY <1>2

\* The sums over the subsets of S include those over the subsets of T.
LEMMA SumRestrict ==
    ASSUME NEW f, NEW S, NEW g, IsSum(g, f, S), NEW T \in SUBSET S
    PROVE  IsSum([s \in SUBSET T |-> g[s]], f, T)
<1> DEFINE h == [s \in SUBSET T |-> g[s]]
<1>1. ASSUME NEW s \in SUBSET T PROVE h[s] = SumStep(h, f, s)
  <2>1. g[s] = SumStep(g, f, s)
    BY DEF IsSum
  <2>2. s # {} => s \ {Pick(s)} \in SUBSET T
    OBVIOUS
  <2> QED
    BY <2>1, <2>2 DEF SumStep
<1> QED
  BY <1>1, Zenon DEF IsSum

\* There is a function that follows the steps.
LEMMA SumExists == ASSUME NEW f, NEW S, IsFiniteSet(S) PROVE \E g : IsSum(g, f, S)
<1> DEFINE Bad == {t \in SUBSET S : ~\E g : IsSum(g, f, t)}
           V(t) == (CHOOSE g : IsSum(g, f, t))[t]
<1>1. ASSUME Bad # {} PROVE FALSE
  <2>0. Bad \in SUBSET SUBSET S
    OBVIOUS
  <2>1. PICK T \in Bad : \A U \in SUBSET T : U # T => U \notin Bad
    <3> HIDE DEF Bad
    <3> QED
      BY <1>1, <2>0, Smallest
  <2>2. \A U \in SUBSET T : U # T => \E g : IsSum(g, f, U)
    BY <2>1
  <2>f. ASSUME NEW U \in SUBSET T PROVE IsFiniteSet(U)
    BY FS_Subset
  <2>3. ASSUME NEW s \in SUBSET T, s # T PROVE V(s) = IF s = {} THEN 0 ELSE f[Pick(s)] + V(s \ {Pick(s)})
    <3> DEFINE g == CHOOSE g : IsSum(g, f, s)
    <3>1. IsSum(g, f, s)
      BY <2>2, <2>3
    <3>2. V(s) = SumStep(g, f, s)
      BY <3>1, Zenon DEF IsSum
    <3>3. CASE s = {}
      BY <3>2, <3>3 DEF SumStep
    <3>4. CASE s # {}
      <4> DEFINE u == s \ {Pick(s)}
                 k == CHOOSE k : IsSum(k, f, u)
      <4>1. u \in SUBSET s /\ u \in SUBSET T /\ u # T
        BY <2>3, <3>4, PickIn
      <4>2. IsSum(k, f, u)
        BY <2>2, <4>1, Zenon
      <4>3. IsSum([t \in SUBSET u |-> g[t]], f, u)
        BY <3>1, <4>1, SumRestrict
      <4>4. IsFiniteSet(u)
        BY <2>f, <4>1
      <4> HIDE DEF u, g, k
      <4>5. k[u] = [t \in SUBSET u |-> g[t]][u]
        BY <4>2, <4>3, <4>4, SumUnique
      <4>6. k[u] = g[u]
        BY <4>5
      <4> QED
        BY <3>2, <3>4, <4>6 DEF SumStep, u, k, g
    <3> QED
      BY <3>3, <3>4
  <2> DEFINE h == [s \in SUBSET T |-> IF s = {} THEN 0 ELSE f[Pick(s)] + V(s \ {Pick(s)})]
  <2> HIDE DEF V
  <2>4. ASSUME NEW s \in SUBSET T PROVE h[s] = SumStep(h, f, s)
    <3>1. CASE s = {}
      BY <3>1 DEF SumStep
    <3>2. CASE s # {}
      <4>1. s \ {Pick(s)} \in SUBSET T /\ s \ {Pick(s)} # T
        BY <3>2, PickIn
      <4>2. h[s \ {Pick(s)}] = V(s \ {Pick(s)})
        BY <2>3, <4>1, Zenon
      <4> QED
        BY <3>2, <4>2 DEF SumStep
    <3> QED
      BY <3>1, <3>2
  <2>5. IsSum(h, f, T)
    BY <2>4, Zenon DEF IsSum
  <2> QED
    BY <2>1, <2>5
<1> QED
  BY <1>1

\* With no miner in the window there is nothing to add up.
LEMMA SumEmpty == ASSUME NEW f PROVE SumFunctionOnSet(f, {}) = 0
<1>1. PICK g : IsSum(g, f, {})
  BY SumExists, FS_EmptySet
<1>2. IsSum(CHOOSE h : IsSum(h, f, {}), f, {})
  BY <1>1
<1> QED
  BY <1>2, SumIs, Zenon DEF IsSum, SumStep

\* A total is the first value plus the total of the others.
LEMMA SumPick ==
    ASSUME NEW f, NEW S, IsFiniteSet(S), S # {}
    PROVE  SumFunctionOnSet(f, S) = f[Pick(S)] + SumFunctionOnSet(f, S \ {Pick(S)})
<1> DEFINE T == S \ {Pick(S)}
           g == CHOOSE g : IsSum(g, f, S)
           h == CHOOSE h : IsSum(h, f, T)
<1>1. IsFiniteSet(T) /\ T \in SUBSET S
  BY FS_Subset
<1>2. IsSum(g, f, S)
  BY SumExists
<1>3. IsSum(h, f, T)
  BY <1>1, SumExists
<1>4. SumFunctionOnSet(f, S) = g[S] /\ SumFunctionOnSet(f, T) = h[T]
  BY SumIs
<1> HIDE DEF T, g, h
<1>5. IsSum([s \in SUBSET T |-> g[s]], f, T)
  BY <1>1, <1>2, SumRestrict, Zenon
<1>6. h[T] = [s \in SUBSET T |-> g[s]][T]
  BY <1>1, <1>3, <1>5, SumUnique
<1>7. h[T] = g[T]
  BY <1>6
<1>8. g[S] = f[Pick(S)] + g[T]
  BY <1>2, Zenon DEF IsSum, SumStep, T
<1> QED
  BY <1>4, <1>7, <1>8 DEF T

\* What holds of a set whenever it holds of its proper subsets holds of every
\* finite set.
LEMMA FiniteInduction ==
    ASSUME NEW S, IsFiniteSet(S), NEW Good \in SUBSET SUBSET S,
           \A T \in SUBSET S : (\A U \in SUBSET T : U # T => U \in Good) => T \in Good
    PROVE  S \in Good
<1> DEFINE Bad == (SUBSET S) \ Good
<1>1. Bad \in SUBSET SUBSET S
  OBVIOUS
<1>2. ASSUME Bad # {} PROVE FALSE
  <2>1. PICK T \in Bad : \A U \in SUBSET T : U # T => U \notin Bad
    <3> HIDE DEF Bad
    <3> QED
      BY <1>1, <1>2, Smallest
  <2>2. \A U \in SUBSET T : U # T => U \in Good
    BY <2>1
  <2> QED
    BY <2>2
<1> QED
  BY <1>2

\* A total of amounts is an amount.
LEMMA SumNat ==
    ASSUME NEW S, IsFiniteSet(S), NEW f, \A x \in S : f[x] \in Nat
    PROVE  SumFunctionOnSet(f, S) \in Nat
<1> DEFINE Good == {T \in SUBSET S : SumFunctionOnSet(f, T) \in Nat}
<1>1. ASSUME NEW T \in SUBSET S, \A U \in SUBSET T : U # T => U \in Good PROVE T \in Good
  <2>1. CASE T = {}
    BY <2>1, SumEmpty
  <2>2. CASE T # {}
    <3>1. SumFunctionOnSet(f, T) = f[Pick(T)] + SumFunctionOnSet(f, T \ {Pick(T)})
      BY <2>2, SumPick, FS_Subset
    <3>2. T \ {Pick(T)} \in Good /\ Pick(T) \in S
      BY <1>1, <2>2, PickIn
    <3> QED
      BY <3>1, <3>2
  <2> QED
    BY <2>1, <2>2
<1>2. Good \in SUBSET SUBSET S
  OBVIOUS
<1> HIDE DEF Good
<1>3. S \in Good
  BY <1>1, <1>2, FiniteInduction
<1> QED
  BY <1>3 DEF Good

\* The total does not depend on the order: any value may be taken out first.
LEMMA SumRemove ==
    ASSUME NEW S, IsFiniteSet(S), NEW f, \A x \in S : f[x] \in Nat, NEW x \in S
    PROVE  SumFunctionOnSet(f, S) = f[x] + SumFunctionOnSet(f, S \ {x})
<1> DEFINE Sum(T) == SumFunctionOnSet(f, T)
           Good == {T \in SUBSET S : \A y \in T : Sum(T) = f[y] + Sum(T \ {y})}
<1>1. ASSUME NEW T \in SUBSET S, \A U \in SUBSET T : U # T => U \in Good PROVE T \in Good
  <2> SUFFICES ASSUME NEW y \in T PROVE Sum(T) = f[y] + Sum(T \ {y})
    OBVIOUS
  <2> DEFINE p == Pick(T)
             U == T \ {p, y}
  <2>1. p \in T /\ IsFiniteSet(T) /\ IsFiniteSet(U)
    BY PickIn, FS_Subset
  <2>2. Sum(T) = f[p] + Sum(T \ {p})
    BY <2>1, SumPick
  <2> HIDE DEF p
  <2>3. CASE y # p
    <3>1. T \ {p} \in Good /\ T \ {y} \in Good
      BY <1>1, <2>1
    <3>2. Sum(T \ {p}) = f[y] + Sum((T \ {p}) \ {y})
      BY <2>3, <3>1
    <3>3. Sum(T \ {y}) = f[p] + Sum((T \ {y}) \ {p})
      BY <2>1, <2>3, <3>1
    <3>4. (T \ {p}) \ {y} = U /\ (T \ {y}) \ {p} = U
      OBVIOUS
    <3>5. Sum(U) \in Nat /\ f[p] \in Nat /\ f[y] \in Nat
      BY <2>1, SumNat
    <3> HIDE DEF Sum, U
    <3> QED
      BY <2>2, <3>2, <3>3, <3>4, <3>5
  <2> QED
    BY <2>2, <2>3
<1>2. Good \in SUBSET SUBSET S
  OBVIOUS
<1> HIDE DEF Good
<1>3. S \in Good
  BY <1>1, <1>2, FiniteInduction
<1> QED
  BY <1>3 DEF Good

\* If every value of f is at most a / c of the one of g, so is its total.
LEMMA SumScaled ==
    ASSUME NEW S, IsFiniteSet(S), NEW f, NEW g, NEW a \in Nat, NEW c \in Nat,
           \A x \in S : f[x] \in Nat /\ g[x] \in Nat /\ f[x] * c <= g[x] * a
    PROVE  SumFunctionOnSet(f, S) * c <= SumFunctionOnSet(g, S) * a
<1> DEFINE Good == {T \in SUBSET S : SumFunctionOnSet(f, T) * c <= SumFunctionOnSet(g, T) * a}
<1>1. ASSUME NEW T \in SUBSET S, \A U \in SUBSET T : U # T => U \in Good PROVE T \in Good
  <2>1. CASE T = {}
    BY <2>1, SumEmpty
  <2>2. CASE T # {}
    <3> DEFINE p == Pick(T)
               U == T \ {Pick(T)}
               F == SumFunctionOnSet(f, U)
               G == SumFunctionOnSet(g, U)
    <3>1. SumFunctionOnSet(f, T) = f[p] + F /\ SumFunctionOnSet(g, T) = g[p] + G
      BY <2>2, SumPick, FS_Subset
    <3>2. U \in Good /\ p \in S
      BY <1>1, <2>2, PickIn
    <3>3. F \in Nat /\ G \in Nat
      BY FS_Subset, SumNat, Zenon
    <3>4. F * c <= G * a /\ f[p] * c <= g[p] * a /\ f[p] \in Nat /\ g[p] \in Nat
      BY <3>2
    <3> HIDE DEF F, G, p
    <3>5. (f[p] + F) * c = f[p] * c + F * c /\ (g[p] + G) * a = g[p] * a + G * a
      BY <3>3, <3>4
    <3>6. (f[p] + F) * c <= (g[p] + G) * a
      BY <3>3, <3>4, <3>5
    <3> QED
      BY <3>1, <3>6
  <2> QED
    BY <2>1, <2>2
<1>2. Good \in SUBSET SUBSET S
  OBVIOUS
<1> HIDE DEF Good
<1>3. S \in Good
  BY <1>1, <1>2, FiniteInduction
<1> QED
  BY <1>3 DEF Good

\* Amounts that are the same for every key have the same total.
LEMMA SumSame ==
    ASSUME NEW S, IsFiniteSet(S), NEW f, NEW g, \A x \in S : f[x] \in Nat /\ g[x] = f[x]
    PROVE  SumFunctionOnSet(g, S) = SumFunctionOnSet(f, S)
<1>1. SumFunctionOnSet(g, S) * 1 <= SumFunctionOnSet(f, S) * 1 /\ SumFunctionOnSet(f, S) * 1 <= SumFunctionOnSet(g, S) * 1
  <2>1. \A x \in S : f[x] \in Nat /\ g[x] \in Nat /\ f[x] * 1 <= g[x] * 1 /\ g[x] * 1 <= f[x] * 1
    OBVIOUS
  <2> QED
    BY <2>1, SumScaled
<1>2. SumFunctionOnSet(f, S) \in Nat /\ SumFunctionOnSet(g, S) \in Nat
  BY SumNat
<1> QED
  BY <1>1, <1>2

\* When one amount changes, the total changes by as much.
LEMMA SumChange ==
    ASSUME NEW S, IsFiniteSet(S), NEW f, NEW g, NEW x \in S, \A y \in S : f[y] \in Nat /\ g[y] \in Nat,
           \A y \in S : y # x => g[y] = f[y]
    PROVE  SumFunctionOnSet(g, S) = SumFunctionOnSet(f, S) - f[x] + g[x]
<1>1. SumFunctionOnSet(f, S) = f[x] + SumFunctionOnSet(f, S \ {x})
  BY SumRemove
<1>2. SumFunctionOnSet(g, S) = g[x] + SumFunctionOnSet(g, S \ {x})
  BY SumRemove
<1>3. IsFiniteSet(S \ {x})
  BY FS_Subset
<1>4. SumFunctionOnSet(g, S \ {x}) = SumFunctionOnSet(f, S \ {x})
  BY <1>3, SumSame
<1>5. SumFunctionOnSet(f, S \ {x}) \in Nat
  BY <1>3, SumNat
<1> QED
  BY <1>1, <1>2, <1>4, <1>5

\* A total of nothing but zeros is zero.
LEMMA SumZero ==
    ASSUME NEW S, IsFiniteSet(S), NEW f, \A x \in S : f[x] = 0
    PROVE  SumFunctionOnSet(f, S) = 0
<1>1. SumFunctionOnSet(f, S) * 1 <= SumFunctionOnSet(f, S) * 0
  BY SumScaled
<1>2. SumFunctionOnSet(f, S) \in Nat
  BY SumNat
<1> QED
  BY <1>1, <1>2

-----------------------------------------------------------------------------
\* Multiplying keeps an inequality.
LEMMA Times ==
    ASSUME NEW a \in Nat, NEW b \in Nat, NEW c \in Nat, a <= b
    PROVE  c * a <= c * b
  OBVIOUS

\* A quotient and a remainder.
LEMMA Divide ==
    ASSUME NEW h \in Nat, NEW i \in Nat \ {0}
    PROVE  h \div i \in Nat /\ h % i \in Nat /\ h % i < i /\ h = i * (h \div i) + (h % i)
  OBVIOUS

\* Quotient and remainder are determined by the number.
LEMMA Unique ==
    ASSUME NEW i \in Nat \ {0}, NEW e \in Nat, NEW f \in Nat, NEW p \in Nat, NEW q \in Nat,
           p < i, q < i, i * e + p = i * f + q
    PROVE  e = f /\ p = q
<1>1. ASSUME NEW x \in Nat, NEW y \in Nat, x < y PROVE i * x + i <= i * y
  <2>1. i * (x + 1) <= i * y
    BY <1>1, Times
  <2> QED
    BY <2>1
<1>2. ~(e < f)
  BY <1>1
<1>3. ~(f < e)
  BY <1>1
<1> QED
  BY <1>2, <1>3

\* A quotient reaches m when the number reaches m divisors.
LEMMA Quotient ==
    ASSUME NEW t \in Nat, NEW s \in Nat \ {0}, NEW m \in Nat
    PROVE  t \div s >= m <=> s * m <= t
<1> DEFINE q == t \div s
<1>1. q \in Nat /\ t % s \in Nat /\ t % s < s /\ t = s * q + (t % s)
  BY Divide
<1> HIDE DEF q
<1>2. ASSUME q >= m PROVE s * m <= t
  <2>1. s * m <= s * q
    BY <1>1, <1>2, Times
  <2>2. s * m \in Nat /\ s * q \in Nat
    BY <1>1
  <2> QED
    BY <1>1, <2>1, <2>2
<1>3. ASSUME q < m PROVE t < s * m
  <2>1. q + 1 \in Nat /\ q + 1 <= m
    BY <1>1, <1>3
  <2>2. s * (q + 1) <= s * m
    BY <2>1, Times
  <2>3. s * (q + 1) = s * q + s /\ s * q \in Nat /\ s * m \in Nat
    BY <1>1
  <2> QED
    BY <1>1, <2>2, <2>3
<1> QED
  BY <1>1, <1>2, <1>3 DEF q

\* A greater number has no smaller quotient.
LEMMA QuotientMono ==
    ASSUME NEW t \in Nat, NEW u \in Nat, NEW s \in Nat \ {0}, t <= u
    PROVE  t \div s <= u \div s
<1>1. t \div s \in Nat /\ u \div s \in Nat
  BY Divide
<1>2. s * (t \div s) <= t
  BY <1>1, Quotient
<1>3. s * (t \div s) <= u
  BY <1>1, <1>2
<1> QED
  BY <1>1, <1>3, Quotient

\* A number below the divisor has quotient 0.
LEMMA QuotientZero == ASSUME NEW t \in Nat, NEW w \in Nat \ {0}, t < w PROVE t \div w = 0
<1>1. t \div w \in Nat
  BY Divide
<1>2. ~ (t \div w >= 1)
  <2>1. t \div w >= 1 <=> w * 1 <= t
    BY Quotient
  <2> QED
    BY <2>1
<1> QED
  BY <1>1, <1>2

\* Dividing twice is dividing by the product.
LEMMA QuotientTwice ==
    ASSUME NEW v \in Nat, NEW a \in Nat \ {0}, NEW b \in Nat \ {0}
    PROVE  (v \div a) \div b = v \div (a * b)
<1> DEFINE q == v \div a
           x == q \div b
           y == v \div (a * b)
           c == a * b
<1>1. c \in Nat \ {0}
  OBVIOUS
<1>2. q \in Nat /\ y \in Nat
  <2> HIDE DEF c
  <2> QED
    BY <1>1, Divide DEF c
<1>3. x \in Nat
  <2> HIDE DEF q
  <2> QED
    BY <1>2, Divide
<1>4. ASSUME NEW m \in Nat PROVE x >= m <=> y >= m
  <2>1. x >= m <=> b * m <= q
    <3> HIDE DEF q
    <3> QED
      BY <1>2, Quotient
  <2>2. q >= b * m <=> a * (b * m) <= v
    <3> DEFINE bm == b * m
    <3>1. bm \in Nat
      OBVIOUS
    <3> HIDE DEF bm
    <3>2. q >= bm <=> a * bm <= v
      BY <3>1, Quotient
    <3> QED
      BY <3>2 DEF bm
  <2>3. v \div c >= m <=> c * m <= v
    <3> HIDE DEF c
    <3> QED
      BY <1>1, Quotient
  <2>4. a * (b * m) = (a * b) * m /\ b * m \in Nat
    OBVIOUS
  <2> HIDE DEF x, y, q
  <2> QED
    BY <1>2, <2>1, <2>2, <2>3, <2>4 DEF c, y
<1> HIDE DEF x, y
<1>5. x >= y /\ y >= x
  BY <1>2, <1>3, <1>4
<1>6. x = y
  BY <1>2, <1>3, <1>5
<1> QED
  BY <1>6 DEF x, y

\* A factor of both cancels.
LEMMA QuotientCancel ==
    ASSUME NEW m \in Nat, NEW a \in Nat \ {0}, NEW b \in Nat \ {0}
    PROVE  (a * m) \div a = m /\ (a * m) \div (a * b) = m \div b
<1> DEFINE v == a * m
<1>1. v \in Nat
  OBVIOUS
<1>2. v \div a \in Nat /\ v % a \in Nat /\ v % a < a /\ v = a * (v \div a) + (v % a)
  <2> HIDE DEF v
  <2> QED
    BY <1>1, Divide
<1>3. v = a * m + 0
  OBVIOUS
<1>4. v \div a = m
  <2> HIDE DEF v
  <2>1. a * (v \div a) + (v % a) = a * m + 0 /\ 0 < a /\ 0 \in Nat
    BY <1>2, <1>3
  <2> QED
    BY <1>2, <2>1, Unique
<1>5. (v \div a) \div b = v \div (a * b)
  <2> HIDE DEF v
  <2> QED
    BY <1>1, QuotientTwice, Zenon
<1> QED
  BY <1>4, <1>5

\* A non-empty set of natural numbers has a smallest member.
LEMMA SmallestNat ==
    ASSUME NEW Bad \in SUBSET Nat, Bad # {}
    PROVE  \E k \in Bad : \A i \in Bad : k <= i
<1> DEFINE R == OpToRel(<, Nat)
<1>1. IsWellFoundedOn(R, Nat)
  BY NatLessThanWellFounded, Zenon
<1>2. \A i, k \in Nat : i < k => <<i, k>> \in R
  BY DEF OpToRel
<1> HIDE DEF R
<1>3. PICK k \in Bad : \A i \in Bad : ~ (<<i, k>> \in R)
  BY <1>1, WFMin, Zenon
<1>4. ASSUME NEW i \in Bad PROVE k <= i
  <2>1. i \in Nat /\ k \in Nat /\ ~ (i < k)
    BY <1>2, <1>3, Zenon
  <2> QED
    BY <2>1
<1> QED
  BY <1>4

\* A table of powers grows from 1.
LEMMA Growing ==
    ASSUME NEW top \in Nat, NEW r \in Nat \ {0}, NEW f \in [0..top -> Nat], f[0] = 1,
           \A k \in 0..top - 1 : f[k + 1] = r * f[k],
           NEW j \in 0..top
    PROVE  \A k \in j..top : f[j] <= f[k] /\ f[k] >= 1
<1>t. \A k \in 0..top : f[k] \in Nat
  OBVIOUS
<1>s. ASSUME NEW k \in 0..top, k # 0 PROVE k - 1 \in 0..top /\ f[k] = r * f[k - 1]
  <2>1. k - 1 \in 0..top - 1 /\ (k - 1) + 1 = k
    BY <1>s
  <2> QED
    BY <2>1
<1> DEFINE Bad == {k \in 0..top : ~ (f[k] >= 1)}
<1>1. Bad = {}
  <2> SUFFICES ASSUME Bad # {} PROVE FALSE
    OBVIOUS
  <2>1. PICK k \in Bad : \A i \in Bad : k <= i
    <3>1. Bad \in SUBSET Nat
      OBVIOUS
    <3> HIDE DEF Bad
    <3> QED
      BY <3>1, SmallestNat, Zenon
  <2>2. k \in 0..top /\ k # 0
    BY <2>1
  <2>3. k - 1 \in 0..top /\ f[k] = r * f[k - 1]
    BY <2>2, <1>s
  <2>4. f[k - 1] \in Nat /\ f[k - 1] >= 1
    BY <2>1, <2>2, <2>3, <1>t
  <2>5. 1 \in Nat /\ r \in Nat /\ r >= 1
    OBVIOUS
  <2>6. r * 1 <= r * f[k - 1]
    BY <2>4, <2>5, Times
  <2> QED
    BY <2>1, <2>3, <2>5, <2>6
<1> DEFINE Low == {k \in j..top : ~ (f[j] <= f[k])}
<1>2. Low = {}
  <2> SUFFICES ASSUME Low # {} PROVE FALSE
    OBVIOUS
  <2>1. PICK k \in Low : \A i \in Low : k <= i
    <3>1. Low \in SUBSET Nat
      OBVIOUS
    <3> HIDE DEF Low
    <3> QED
      BY <3>1, SmallestNat, Zenon
  <2>2. k \in 0..top /\ k # 0 /\ k # j /\ k - 1 \in j..top
    BY <2>1, <1>t
  <2>3. k - 1 \in 0..top /\ f[k] = r * f[k - 1]
    BY <2>2, <1>s
  <2>4. f[k - 1] \in Nat /\ f[j] \in Nat /\ f[k] \in Nat
    BY <2>2, <2>3, <1>t
  <2>5. f[j] <= f[k - 1]
    BY <2>1, <2>2
  <2>6. 1 \in Nat /\ r \in Nat /\ 1 <= r
    OBVIOUS
  <2>7. f[k - 1] * 1 <= f[k - 1] * r
    BY <2>4, <2>6, Times, Zenon
  <2>8. f[j] <= f[k]
    BY <2>3, <2>4, <2>5, <2>6, <2>7
  <2> QED
    BY <2>1, <2>8
<1>3. ASSUME NEW k \in j..top PROVE f[j] <= f[k] /\ f[k] >= 1
  <2>1. k \in 0..top
    OBVIOUS
  <2>2. f[k] >= 1
    BY <1>1, <2>1, Zenon
  <2>3. f[j] <= f[k]
    BY <1>2, Zenon
  <2> QED
    BY <2>2, <2>3
<1> QED
  BY <1>3
=============================================================================
