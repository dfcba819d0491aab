---------------------------- MODULE TuplesProofs ----------------------------
(***************************************************************************)
(* Lemmas on natural numbers and recursive functions, and what they give   *)
(* for tuples: products, sums and slices, sequences flattened, and the     *)
(* layout of the points of a tuple of sizes, which reaches every point     *)
(* once.                                                                   *)
(***************************************************************************)
EXTENDS Tuples, FiniteSetTheorems, WellFoundedInduction, TLAPS

-----------------------------------------------------------------------------
(* Numbers.                                                                *)

(* Any natural numbers have a least one.                                   *)
LEMMA LeastNat ==
  ASSUME NEW S, S \subseteq Nat, S # {}
  PROVE  \E x \in S : \A y \in S : x =< y
<1> DEFINE R == {ss \in Nat \X Nat : ss[1] < ss[2]}
<1>1. OpToRel(<, Nat) = R
  BY Zenon DEF OpToRel
<1>2. IsWellFoundedOn(R, Nat)
  BY <1>1, NatLessThanWellFounded, Zenon
<1>3. PICK x \in S : \A y \in S : <<y, x>> \notin R
  <2> HIDE DEF R
  <2> QED
    BY <1>2, WFMin, Zenon
<1>4. ASSUME NEW y \in S PROVE x =< y
  <2>1. x \in Nat /\ y \in Nat
    OBVIOUS
  <2>2. ~(y < x)
    BY <1>3, <2>1, Zenon
  <2> QED
    BY <2>1, <2>2
<1> QED
  BY <1>4

(* The least of some numbers is one of them.                               *)
LEMMA MinIsMember ==
  ASSUME NEW S, S \subseteq Nat, S # {}
  PROVE  Min(S) \in S
BY LeastNat DEF Min

(* Induction.                                                              *)
LEMMA NatSteps ==
  ASSUME NEW S, 0 \in S, \A n \in Nat : n \in S => n + 1 \in S
  PROVE  \A n \in Nat : n \in S
<1> DEFINE Bad == Nat \ S
<1> SUFFICES ASSUME Bad # {} PROVE FALSE
  OBVIOUS
<1>1. PICK n \in Bad : \A j \in Bad : n =< j
  <2>1. Bad \subseteq Nat
    OBVIOUS
  <2> HIDE DEF Bad
  <2> QED
    BY <2>1, LeastNat
<1>2. n # 0 /\ n \in Nat
  OBVIOUS
<1>3. n - 1 \in Nat /\ n - 1 \in S
  BY <1>1, <1>2
<1>4. (n - 1) + 1 \in S /\ (n - 1) + 1 = n
  BY <1>2, <1>3
<1> QED
  BY <1>4

(* The larger and the smaller of two numbers.                              *)
LEMMA MaxOfTwo ==
  ASSUME NEW a \in Int, NEW b \in Int
  PROVE  Max({a, b}) = IF a >= b THEN a ELSE b
BY DEF Max

LEMMA MinOfTwo ==
  ASSUME NEW a \in Int, NEW b \in Int
  PROVE  Min({a, b}) = IF a <= b THEN a ELSE b
BY DEF Min

LEMMA MaxOfThree ==
  ASSUME NEW a \in Int, NEW b \in Int, NEW e \in Int
  PROVE  /\ Max({a, b, e}) \in {a, b, e}
         /\ Max({a, b, e}) >= a /\ Max({a, b, e}) >= b /\ Max({a, b, e}) >= e
<1>1. \E x \in {a, b, e} : \A y \in {a, b, e} : y <= x
  <2>1. CASE a >= b /\ a >= e
    BY <2>1
  <2>2. CASE b >= a /\ b >= e
    BY <2>2
  <2>3. CASE e >= a /\ e >= b
    BY <2>3
  <2> QED
    BY <2>1, <2>2, <2>3
<1>2. Max({a, b, e}) \in {a, b, e} /\ \A y \in {a, b, e} : y <= Max({a, b, e})
  BY <1>1 DEF Max
<1> HIDE DEF Max
<1> QED
  BY <1>2

(* A finite set of integers has a least member.                            *)
LEMMA FiniteMin ==
  ASSUME NEW S, S \subseteq Int, S # {}, IsFiniteSet(S)
  PROVE  Min(S) \in S /\ \A x \in S : Min(S) <= x
<1> DEFINE HasLeast(T) == T # {} => \E x \in T : \A y \in T : x <= y
           Sizes == {n \in Nat : \A T \in SUBSET S : IsFiniteSet(T) /\ Cardinality(T) = n => HasLeast(T)}
<1>1. 0 \in Sizes
  BY FS_EmptySet
<1>2. ASSUME NEW n \in Nat, n \in Sizes PROVE n + 1 \in Sizes
  <2> SUFFICES ASSUME NEW T \in SUBSET S, IsFiniteSet(T), Cardinality(T) = n + 1
               PROVE  HasLeast(T)
    OBVIOUS
  <2> SUFFICES ASSUME T # {} PROVE \E x \in T : \A y \in T : x <= y
    OBVIOUS
  <2>1. PICK x \in T : TRUE
    OBVIOUS
  <2>2. IsFiniteSet(T \ {x}) /\ Cardinality(T \ {x}) = n
    <3>1. IsFiniteSet(T \ {x}) /\ Cardinality(T \ {x}) = Cardinality(T) - 1
      BY <2>1, FS_RemoveElement, Zenon
    <3>2. Cardinality(T) = n + 1
      OBVIOUS
    <3> QED
      BY <3>1, <3>2
  <2>3. HasLeast(T \ {x})
    BY <1>2, <2>2
  <2>4. CASE T \ {x} = {}
    BY <2>1, <2>4
  <2>5. CASE T \ {x} # {}
    <3>1. PICK z \in T \ {x} : \A y \in T \ {x} : z <= y
      BY <2>3, <2>5
    <3>2. x \in Int /\ z \in Int
      OBVIOUS
    <3>3. CASE z <= x
      BY <3>1, <3>3
    <3>4. CASE x < z
      <4>1. \A y \in T : x <= y
        BY <3>1, <3>2, <3>4
      <4> QED
        BY <4>1
    <3> QED
      BY <3>2, <3>3, <3>4
  <2> QED
    BY <2>4, <2>5
<1> HIDE DEF Sizes
<1>3. \A n \in Nat : n \in Sizes
  BY <1>1, <1>2, NatSteps, Zenon
<1>4. Cardinality(S) \in Nat
  BY FS_CardinalityType
<1>5. HasLeast(S)
  BY <1>3, <1>4 DEF Sizes
<1> QED
  BY <1>5 DEF Min

(* A product grows with either factor.                                     *)
LEMMA TimesMonotone ==
  ASSUME NEW a \in Nat, NEW n \in Nat, NEW m \in Nat, n < m
  PROVE  a * n \in Nat /\ a * m \in Nat /\ a * n + a <= a * m
<1>1. a * (m - n - 1) >= 0
  BY SMT
<1>2. a * (m - n - 1) = a * m - a * n - a
  BY SMT
<1>3. a * n \in Nat /\ a * m \in Nat
  BY SMT
<1> QED
  BY <1>1, <1>2, <1>3

LEMMA TimesUpTo ==
  ASSUME NEW p \in Nat, NEW n \in Nat, NEW m \in Nat, n <= m
  PROVE  p * n \in Nat /\ p * m \in Nat /\ p * n <= p * m
<1>1. CASE n = m
  BY <1>1
<1>2. CASE n < m
  <2>1. p * n \in Nat /\ p * m \in Nat /\ p * n + p <= p * m
    BY <1>2, TimesMonotone
  <2> QED
    BY <2>1
<1> QED
  BY <1>1, <1>2

(* Finite sets.                                                            *)
LEMMA FiniteImage ==
  ASSUME NEW S, IsFiniteSet(S), NEW f, DOMAIN f = S
  PROVE  IsFiniteSet({f[x] : x \in S})
<1> DEFINE T == {f[x] : x \in S}
           g == [x \in S |-> f[x]]
<1>1. g \in Surjection(S, T)
  BY DEF Surjection
<1> QED
  BY <1>1, FS_Surjection

LEMMA FiniteFunctions ==
  ASSUME NEW D, IsFiniteSet(D), NEW R, IsFiniteSet(R)
  PROVE  IsFiniteSet([D -> R])
<1> DEFINE graph == [f \in [D -> R] |-> {dr \in D \X R : dr[2] = f[dr[1]]}]
<1>1. IsFiniteSet(SUBSET (D \X R))
  BY FS_Product, FS_SUBSET
<1>2. graph \in [[D -> R] -> SUBSET (D \X R)]
  OBVIOUS
<1>3. ASSUME NEW f \in [D -> R], NEW g \in [D -> R], graph[f] = graph[g]
      PROVE  f = g
  <2>1. ASSUME NEW x \in D PROVE f[x] = g[x]
    <3>1. <<x, f[x]>> \in graph[f]
      BY <2>1
    <3>2. <<x, f[x]>> \in graph[g]
      BY <1>3, <3>1
    <3> QED
      BY <3>2
  <2> QED
    BY <2>1
<1>4. graph \in Injection([D -> R], SUBSET (D \X R))
  <2> HIDE DEF graph
  <2> QED
    BY <1>2, <1>3 DEF Injection, IsInjective
<1> QED
  BY <1>1, <1>4, FS_Injection

(* A number divided by p when what it has beyond m times p is less than p. *)
LEMMA DivideBy ==
  ASSUME NEW p \in Nat \ {0}, NEW m \in Nat, NEW a \in Nat, a < p
  PROVE  (a + p * m) \div p = m /\ (a + p * m) % p = a
<1> DEFINE n == a + p * m
           q == n \div p
           r == n % p
           d == m - q
<1>1. p * m \in Nat /\ n \in Nat
  BY SMT
<1>2. q \in Nat /\ r \in Nat /\ r < p /\ n = p * q + r
  <2> HIDE DEF n
  <2> QED
    BY <1>1, SMT
<1>3. d \in Int /\ p * d = p * m - p * q
  <2> HIDE DEF q
  <2> QED
    BY <1>2, SMT
<1>4. p * d = r - a
  <2> HIDE DEF q, r, d
  <2>1. p * q \in Nat /\ p * d \in Int
    BY <1>2, <1>3, SMT
  <2> QED
    BY <1>1, <1>2, <1>3, <2>1
<1>5. d = 0
  <2> HIDE DEF q, r, d
  <2>1. ASSUME d >= 1 PROVE FALSE
    <3>1. p * d >= p
      BY <1>3, <2>1, SMT
    <3> QED
      BY <1>2, <1>4, <3>1
  <2>2. ASSUME d <= -1 PROVE FALSE
    <3>1. p * d <= -p
      BY <1>3, <2>2, SMT
    <3> QED
      BY <1>2, <1>4, <3>1
  <2> QED
    BY <1>3, <2>1, <2>2
<1>6. q = m
  <2> HIDE DEF q
  <2> QED
    BY <1>2, <1>5
<1> QED
  BY <1>4, <1>2, <1>5, <1>6 DEF n

(* Two digits and the rest of a number.                                    *)
LEMMA Regroup ==
  ASSUME NEW a \in Int, NEW p \in Nat, NEW q \in Nat, NEW z \in Nat, NEW m \in Nat
  PROVE  (a + q * p) + (p * z) * m = a + p * (q + z * m) /\ q + z * m \in Nat
<1>1. q * p \in Nat /\ p * z \in Nat /\ z * m \in Nat
  BY SMT
<1> DEFINE u == z * m
<1>2. (p * z) * m = p * u
  BY SMT
<1> HIDE DEF u
<1>3. u \in Nat
  BY <1>1 DEF u
<1>4. p * (q + u) = p * q + p * u
  BY <1>3, SMT
<1>5. p * q = q * p /\ p * u \in Nat
  BY <1>3, SMT
<1>6. a + p * (q + u) = a + (q * p + p * u)
  BY <1>4, <1>5
<1>7. (a + q * p) + p * u = a + (q * p + p * u)
  BY <1>1, <1>5
<1>8. (a + q * p) + (p * z) * m = a + p * (q + u)
  BY <1>2, <1>6, <1>7
<1> QED
  BY <1>3, <1>8 DEF u

(* A digit and what is below it.                                           *)
LEMMA Below ==
  ASSUME NEW a \in Nat, NEW p \in Nat, NEW q \in Nat, NEW z \in Nat, a < p, q < z
  PROVE  a + q * p \in Nat /\ a + q * p < p * z
<1>1. (z - (q + 1)) * p >= 0 /\ q * p \in Nat /\ p * z \in Nat
  BY SMT
<1>2. (z - (q + 1)) * p = p * z - q * p - p
  BY SMT
<1> QED
  BY <1>1, <1>2

(* Quotient and remainder.                                                 *)
LEMMA DivMod ==
  ASSUME NEW n \in Nat, NEW p \in Nat \ {0}
  PROVE /\ n \div p \in Nat /\ n % p \in Nat /\ (n % p) < p /\ n = (n % p) + p * (n \div p)
BY SMT

-----------------------------------------------------------------------------
(* A function on the naturals may be defined by its first value and what   *)
(* follows each.                                                           *)
UpTo(n, h, Y, A, G) ==
  h \in [0 .. n -> Y] /\ h[0] = A /\ \A i \in 0 .. n - 1 : h[i + 1] = G[i][h[i]]

(* Two beginnings of such a function agree.                                *)
LEMMA RecursionAgrees ==
  ASSUME NEW Y, NEW A \in Y, NEW G \in [Nat -> [Y -> Y]],
         NEW m \in Nat, NEW n \in Nat, NEW h, NEW k,
         UpTo(m, h, Y, A, G), UpTo(n, k, Y, A, G)
  PROVE  \A i \in Nat : i <= m /\ i <= n => h[i] = k[i]
<1> DEFINE Bad == {i \in Nat : i <= m /\ i <= n /\ h[i] # k[i]}
<1> SUFFICES ASSUME Bad # {} PROVE FALSE
  OBVIOUS
<1>1. PICK i \in Bad : \A j \in Bad : i =< j
  <2>1. Bad \subseteq Nat
    OBVIOUS
  <2> HIDE DEF Bad
  <2> QED
    BY <2>1, LeastNat
<1>2. i # 0
  BY DEF UpTo
<1>3. i - 1 \in Nat /\ i - 1 \notin Bad
  BY <1>1, <1>2
<1>4. h[i - 1] = k[i - 1]
  BY <1>3
<1>5. h[(i - 1) + 1] = G[i - 1][h[i - 1]] /\ k[(i - 1) + 1] = G[i - 1][k[i - 1]]
  BY <1>2, <1>3 DEF UpTo
<1> QED
  BY <1>4, <1>5

(* There is a beginning of any length.                                     *)
LEMMA RecursionUpTo ==
  ASSUME NEW Y, NEW A \in Y, NEW G \in [Nat -> [Y -> Y]]
  PROVE  \A n \in Nat : \E h : UpTo(n, h, Y, A, G)
<1> DEFINE Bad == {n \in Nat : ~ \E h : UpTo(n, h, Y, A, G)}
<1> SUFFICES ASSUME Bad # {} PROVE FALSE
  OBVIOUS
<1>1. PICK n \in Bad : \A j \in Bad : n =< j
  <2>1. Bad \subseteq Nat
    OBVIOUS
  <2> HIDE DEF Bad
  <2> QED
    BY <2>1, LeastNat
<1>2. UpTo(0, [i \in 0 .. 0 |-> A], Y, A, G)
  BY DEF UpTo
<1>3. n \in Nat /\ n - 1 \in Nat /\ n - 1 \notin Bad
  <2>1. n # 0 /\ n \in Nat
    BY <1>2
  <2> HIDE DEF Bad
  <2>2. n - 1 < n /\ n - 1 \in Nat
    BY <2>1
  <2> QED
    BY <1>1, <2>1, <2>2
<1>4. PICK h : UpTo(n - 1, h, Y, A, G)
  BY <1>3
<1> DEFINE k == [i \in 0 .. n |-> IF i = n THEN G[n - 1][h[n - 1]] ELSE h[i]]
<1>5. h \in [0 .. n - 1 -> Y] /\ h[n - 1] \in Y /\ G[n - 1] \in [Y -> Y]
  BY <1>3, <1>4 DEF UpTo
<1>6. G[n - 1][h[n - 1]] \in Y
  BY <1>5
<1>7. k \in [0 .. n -> Y] /\ k[0] = A
  BY <1>3, <1>4, <1>5, <1>6 DEF UpTo
<1>8. ASSUME NEW i \in 0 .. n - 1 PROVE k[i + 1] = G[i][k[i]]
  <2>1. k[i] = h[i] /\ i \in Nat
    BY <1>3
  <2>2. CASE i = n - 1
    BY <1>3, <2>1, <2>2
  <2>3. CASE i # n - 1
    <3>1. i \in 0 .. (n - 1) - 1 /\ k[i + 1] = h[i + 1]
      BY <1>3, <2>3
    <3>2. h[i + 1] = G[i][h[i]]
      BY <1>4, <3>1 DEF UpTo
    <3> QED
      BY <2>1, <3>1, <3>2
  <2> QED
    BY <2>2, <2>3
<1>9. UpTo(n, k, Y, A, G)
  <2> HIDE DEF k
  <2> QED
    BY <1>7, <1>8 DEF UpTo
<1> QED
  BY <1>1, <1>9

IsRecursion(w, Y, A, G) ==
  w \in [Nat -> Y] /\ w[0] = A /\ \A n \in Nat : w[n + 1] = G[n][w[n]]

(* There is the whole function.                                            *)
LEMMA RecursionExists ==
  ASSUME NEW Y, NEW A \in Y, NEW G \in [Nat -> [Y -> Y]]
  PROVE  \E w : IsRecursion(w, Y, A, G)
<1> DEFINE H(n) == CHOOSE h : UpTo(n, h, Y, A, G)
           w == [n \in Nat |-> H(n)[n]]
<1>1. \A n \in Nat : UpTo(n, H(n), Y, A, G)
  BY RecursionUpTo, Zenon
<1> HIDE DEF H
<1>2. w \in [Nat -> Y]
  <2> SUFFICES ASSUME NEW n \in Nat PROVE H(n)[n] \in Y
    OBVIOUS
  <2>1. H(n) \in [0 .. n -> Y] /\ n \in 0 .. n
    BY <1>1 DEF UpTo
  <2> QED
    BY <2>1
<1>3. w[0] = A
  BY <1>1 DEF UpTo
<1>4. ASSUME NEW n \in Nat PROVE w[n + 1] = G[n][w[n]]
  <2>1. UpTo(n, H(n), Y, A, G) /\ UpTo(n + 1, H(n + 1), Y, A, G)
    BY <1>1
  <2>2. H(n + 1)[n] = H(n)[n]
    BY <2>1, RecursionAgrees
  <2>3. H(n + 1)[n + 1] = G[n][H(n + 1)[n]]
    BY <2>1 DEF UpTo
  <2> QED
    BY <2>2, <2>3
<1> QED
  BY <1>2, <1>3, <1>4 DEF IsRecursion

-----------------------------------------------------------------------------
(* Products and sums of tuples.                                            *)

SameUpTo(n, t, u) == n <= Len(t) /\ n <= Len(u) /\ \A i \in 1 .. n : t[i] = u[i]

(* The products of the first elements of a tuple.                           *)
Products(f, t) ==
  /\ f \in [0 .. Len(t) -> Int] /\ f[0] = 1
  /\ \A n \in 1 .. Len(t) : f[n] = f[n - 1] * t[n]

LEMMA ProductsExist ==
  ASSUME NEW t \in Seq(Int)
  PROVE  \E f : Products(f, t)
<1> DEFINE G == [i \in Nat |-> [y \in Int |-> IF i + 1 \in 1 .. Len(t) THEN y * t[i + 1] ELSE y]]
<1>1. G \in [Nat -> [Int -> Int]]
  OBVIOUS
<1>2. PICK f : UpTo(Len(t), f, Int, 1, G)
  <2> HIDE DEF G
  <2>1. \A n \in Nat : \E f : UpTo(n, f, Int, 1, G)
    <3>1. 1 \in Int
      OBVIOUS
    <3> QED
      BY <1>1, <3>1, RecursionUpTo, Zenon
  <2>2. Len(t) \in Nat
    OBVIOUS
  <2> QED
    BY <2>1, <2>2, Zenon
<1>3. ASSUME NEW n \in 1 .. Len(t) PROVE f[n] = f[n - 1] * t[n]
  <2>1. n - 1 \in 0 .. Len(t) - 1 /\ n - 1 \in Nat /\ (n - 1) + 1 = n
    OBVIOUS
  <2>2. f[n] = G[n - 1][f[n - 1]] /\ f[n - 1] \in Int
    <3> HIDE DEF G
    <3> QED
      BY <1>2, <2>1 DEF UpTo
  <2> QED
    BY <2>1, <2>2
<1>4. f \in [0 .. Len(t) -> Int] /\ f[0] = 1
  BY <1>2 DEF UpTo
<1> QED
  BY <1>3, <1>4 DEF Products

(* They are determined by the elements.                                    *)
LEMMA ProductsAgree ==
  ASSUME NEW t \in Seq(Int), NEW u \in Seq(Int), NEW n \in Nat, SameUpTo(n, t, u),
         NEW f, NEW g, Products(f, t), Products(g, u)
  PROVE  f[n] = g[n]
<1>0. n <= Len(t) /\ n <= Len(u) /\ \A i \in 1 .. n : t[i] = u[i]
  BY DEF SameUpTo
<1> DEFINE S == {i \in Nat : i <= n => f[i] = g[i]}
<1>1. 0 \in S
  BY DEF Products
<1>2. ASSUME NEW i \in Nat, i \in S PROVE i + 1 \in S
  <2> SUFFICES ASSUME i + 1 <= n PROVE f[i + 1] = g[i + 1]
    OBVIOUS
  <2>1. i + 1 \in 1 .. Len(t) /\ i + 1 \in 1 .. Len(u) /\ i + 1 \in 1 .. n /\ (i + 1) - 1 = i
    BY <1>0
  <2>2. f[i] = g[i]
    BY <1>2, <2>1
  <2>3. f[i + 1] = f[i] * t[i + 1] /\ g[i + 1] = g[i] * u[i + 1]
    BY <2>1 DEF Products
  <2> QED
    BY <1>0, <2>1, <2>2, <2>3
<1>3. n \in S
  <2> HIDE DEF S
  <2> QED
    BY <1>1, <1>2, NatSteps
<1> QED
  BY <1>3

ProductRule(f, t) == f = [n \in 0 .. Len(t) |-> IF n = 0 THEN 1 ELSE f[n - 1] * t[n]]

LEMMA TupleProductIs ==
  ASSUME NEW t \in Seq(Int), NEW f, Products(f, t)
  PROVE  TupleProduct(t) = f[Len(t)]
<1> DEFINE g == CHOOSE g : ProductRule(g, t)
<1>1. TupleProduct(t) = g[Len(t)]
  BY Zenon DEF TupleProduct, ProductRule
<1>2. ProductRule(f, t)
  <2> DEFINE h == [n \in 0 .. Len(t) |-> IF n = 0 THEN 1 ELSE f[n - 1] * t[n]]
  <2>1. ASSUME NEW n \in 0 .. Len(t) PROVE f[n] = h[n]
    BY DEF Products
  <2>2. f = [n \in 0 .. Len(t) |-> f[n]]
    BY DEF Products
  <2>3. h = [n \in 0 .. Len(t) |-> h[n]]
    OBVIOUS
  <2>4. f = h
    <3> HIDE DEF h
    <3> QED
      BY <2>1, <2>2, <2>3
  <2> QED
    BY <2>4, Zenon DEF ProductRule
<1>3. ProductRule(g, t)
  BY <1>2, Zenon
<1> HIDE DEF g
<1>4. g = [n \in 0 .. Len(t) |-> IF n = 0 THEN 1 ELSE g[n - 1] * t[n]]
  BY <1>3, Zenon DEF ProductRule
<1>5. /\ g[0] = 1
      /\ \A n \in 1 .. Len(t) : g[n] = g[n - 1] * t[n]
  <2>1. \A n \in 0 .. Len(t) : g[n] = IF n = 0 THEN 1 ELSE g[n - 1] * t[n]
    BY <1>4, Zenon
  <2>2. 0 \in 0 .. Len(t) /\ \A n \in 1 .. Len(t) : n \in 0 .. Len(t) /\ n # 0
    OBVIOUS
  <2>3. g[0] = 1
    BY <2>1, <2>2, Zenon
  <2>4. ASSUME NEW n \in 1 .. Len(t) PROVE g[n] = g[n - 1] * t[n]
    BY <2>1, <2>2, Zenon
  <2> QED
    BY <2>3, <2>4
<1> DEFINE S == {i \in Nat : i <= Len(t) => g[i] = f[i]}
<1>6. 0 \in S
  BY <1>5 DEF Products
<1>7. ASSUME NEW i \in Nat, i \in S PROVE i + 1 \in S
  <2> SUFFICES ASSUME i + 1 <= Len(t) PROVE g[i + 1] = f[i + 1]
    OBVIOUS
  <2>1. i + 1 \in 1 .. Len(t) /\ (i + 1) - 1 = i
    OBVIOUS
  <2>2. g[i] = f[i]
    BY <1>7, <2>1
  <2>3. g[i + 1] = g[i] * t[i + 1] /\ f[i + 1] = f[i] * t[i + 1]
    BY <1>5, <2>1 DEF Products
  <2> QED
    BY <2>2, <2>3
<1>8. Len(t) \in S
  <2> HIDE DEF S
  <2>1. \A n \in Nat : n \in S
    BY <1>6, <1>7, NatSteps
  <2>2. Len(t) \in Nat
    OBVIOUS
  <2> QED
    BY <2>1, <2>2
<1> QED
  BY <1>1, <1>8

(* The sums of the first elements of a tuple.                               *)
Sums(f, t) ==
  /\ f \in [0 .. Len(t) -> Int] /\ f[0] = 0
  /\ \A n \in 1 .. Len(t) : f[n] = f[n - 1] + t[n]

LEMMA SumsExist ==
  ASSUME NEW t \in Seq(Int)
  PROVE  \E f : Sums(f, t)
<1> DEFINE G == [i \in Nat |-> [y \in Int |-> IF i + 1 \in 1 .. Len(t) THEN y + t[i + 1] ELSE y]]
<1>1. G \in [Nat -> [Int -> Int]]
  OBVIOUS
<1>2. PICK f : UpTo(Len(t), f, Int, 0, G)
  <2> HIDE DEF G
  <2>1. \A n \in Nat : \E f : UpTo(n, f, Int, 0, G)
    <3>1. 0 \in Int
      OBVIOUS
    <3> QED
      BY <1>1, <3>1, RecursionUpTo, Zenon
  <2>2. Len(t) \in Nat
    OBVIOUS
  <2> QED
    BY <2>1, <2>2, Zenon
<1>3. ASSUME NEW n \in 1 .. Len(t) PROVE f[n] = f[n - 1] + t[n]
  <2>1. n - 1 \in 0 .. Len(t) - 1 /\ n - 1 \in Nat /\ (n - 1) + 1 = n
    OBVIOUS
  <2>2. f[n] = G[n - 1][f[n - 1]] /\ f[n - 1] \in Int
    <3> HIDE DEF G
    <3> QED
      BY <1>2, <2>1 DEF UpTo
  <2> QED
    BY <2>1, <2>2
<1>4. f \in [0 .. Len(t) -> Int] /\ f[0] = 0
  BY <1>2 DEF UpTo
<1> QED
  BY <1>3, <1>4 DEF Sums

(* They are determined by the elements.                                    *)
LEMMA SumsAgree ==
  ASSUME NEW t \in Seq(Int), NEW u \in Seq(Int), NEW n \in Nat, SameUpTo(n, t, u),
         NEW f, NEW g, Sums(f, t), Sums(g, u)
  PROVE  f[n] = g[n]
<1>0. n <= Len(t) /\ n <= Len(u) /\ \A i \in 1 .. n : t[i] = u[i]
  BY DEF SameUpTo
<1> DEFINE S == {i \in Nat : i <= n => f[i] = g[i]}
<1>1. 0 \in S
  BY DEF Sums
<1>2. ASSUME NEW i \in Nat, i \in S PROVE i + 1 \in S
  <2> SUFFICES ASSUME i + 1 <= n PROVE f[i + 1] = g[i + 1]
    OBVIOUS
  <2>1. i + 1 \in 1 .. Len(t) /\ i + 1 \in 1 .. Len(u) /\ i + 1 \in 1 .. n /\ (i + 1) - 1 = i
    BY <1>0
  <2>2. f[i] = g[i]
    BY <1>2, <2>1
  <2>3. f[i + 1] = f[i] + t[i + 1] /\ g[i + 1] = g[i] + u[i + 1]
    BY <2>1 DEF Sums
  <2> QED
    BY <1>0, <2>1, <2>2, <2>3
<1>3. n \in S
  <2> HIDE DEF S
  <2> QED
    BY <1>1, <1>2, NatSteps
<1> QED
  BY <1>3

SumRule(f, t) == f = [n \in 0 .. Len(t) |-> IF n = 0 THEN 0 ELSE f[n - 1] + t[n]]

LEMMA TupleSumIs ==
  ASSUME NEW t \in Seq(Int), NEW f, Sums(f, t)
  PROVE  TupleSum(t) = f[Len(t)]
<1> DEFINE g == CHOOSE g : SumRule(g, t)
<1>1. TupleSum(t) = g[Len(t)]
  BY Zenon DEF TupleSum, SumRule
<1>2. SumRule(f, t)
  <2> DEFINE h == [n \in 0 .. Len(t) |-> IF n = 0 THEN 0 ELSE f[n - 1] + t[n]]
  <2>1. ASSUME NEW n \in 0 .. Len(t) PROVE f[n] = h[n]
    BY DEF Sums
  <2>2. f = [n \in 0 .. Len(t) |-> f[n]]
    BY DEF Sums
  <2>3. h = [n \in 0 .. Len(t) |-> h[n]]
    OBVIOUS
  <2>4. f = h
    <3> HIDE DEF h
    <3> QED
      BY <2>1, <2>2, <2>3
  <2> QED
    BY <2>4, Zenon DEF SumRule
<1>3. SumRule(g, t)
  BY <1>2, Zenon
<1> HIDE DEF g
<1>4. g = [n \in 0 .. Len(t) |-> IF n = 0 THEN 0 ELSE g[n - 1] + t[n]]
  BY <1>3, Zenon DEF SumRule
<1>5. /\ g[0] = 0
      /\ \A n \in 1 .. Len(t) : g[n] = g[n - 1] + t[n]
  <2>1. \A n \in 0 .. Len(t) : g[n] = IF n = 0 THEN 0 ELSE g[n - 1] + t[n]
    BY <1>4, Zenon
  <2>2. 0 \in 0 .. Len(t) /\ \A n \in 1 .. Len(t) : n \in 0 .. Len(t) /\ n # 0
    OBVIOUS
  <2>3. g[0] = 0
    BY <2>1, <2>2, Zenon
  <2>4. ASSUME NEW n \in 1 .. Len(t) PROVE g[n] = g[n - 1] + t[n]
    BY <2>1, <2>2, Zenon
  <2> QED
    BY <2>3, <2>4
<1> DEFINE S == {i \in Nat : i <= Len(t) => g[i] = f[i]}
<1>6. 0 \in S
  BY <1>5 DEF Sums
<1>7. ASSUME NEW i \in Nat, i \in S PROVE i + 1 \in S
  <2> SUFFICES ASSUME i + 1 <= Len(t) PROVE g[i + 1] = f[i + 1]
    OBVIOUS
  <2>1. i + 1 \in 1 .. Len(t) /\ (i + 1) - 1 = i
    OBVIOUS
  <2>2. g[i] = f[i]
    BY <1>7, <2>1
  <2>3. g[i + 1] = g[i] + t[i + 1] /\ f[i + 1] = f[i] + t[i + 1]
    BY <1>5, <2>1 DEF Sums
  <2> QED
    BY <2>2, <2>3
<1>8. Len(t) \in S
  <2> HIDE DEF S
  <2>1. \A n \in Nat : n \in S
    BY <1>6, <1>7, NatSteps
  <2>2. Len(t) \in Nat
    OBVIOUS
  <2> QED
    BY <2>1, <2>2
<1> QED
  BY <1>1, <1>8

(* A sum of numbers of at most p.                                          *)
LEMMA SumBound ==
  ASSUME NEW t \in Seq(Nat), NEW p \in Nat, \A i \in 1 .. Len(t) : t[i] <= p
  PROVE  TupleSum(t) \in Nat /\ TupleSum(t) <= p * Len(t)
<1>1. t \in Seq(Int) /\ Len(t) \in Nat /\ \A i \in 1 .. Len(t) : t[i] \in Nat
  OBVIOUS
<1>2. PICK f : Sums(f, t)
  BY <1>1, SumsExist
<1>3. TupleSum(t) = f[Len(t)]
  BY <1>1, <1>2, TupleSumIs
<1> DEFINE I == {n \in Nat : n <= Len(t) => f[n] \in Nat /\ f[n] <= p * n}
<1>4. 0 \in I
  BY <1>2 DEF Sums
<1>5. ASSUME NEW n \in Nat, n \in I PROVE n + 1 \in I
  <2> SUFFICES ASSUME n + 1 <= Len(t) PROVE f[n + 1] \in Nat /\ f[n + 1] <= p * (n + 1)
    OBVIOUS
  <2>1. n + 1 \in 1 .. Len(t) /\ (n + 1) - 1 = n
    BY <1>1
  <2>2. f[n + 1] = f[n] + t[n + 1]
    BY <1>2, <2>1 DEF Sums
  <2>3. f[n] \in Nat /\ f[n] <= p * n /\ t[n + 1] \in Nat /\ t[n + 1] <= p
    BY <1>1, <1>5, <2>1
  <2>4. p * (n + 1) = p * n + p /\ p * n \in Nat
    BY SMT
  <2> QED
    BY <2>2, <2>3, <2>4
<1> HIDE DEF I
<1>6. \A n \in Nat : n \in I
  BY <1>4, <1>5, NatSteps, Zenon
<1> QED
  BY <1>1, <1>3, <1>6 DEF I

(* A sum of a slice, from the sums of what ends where it starts and ends.   *)
LEMMA SliceSum ==
  ASSUME NEW t \in Seq(Nat), NEW f, Sums(f, t), NEW a \in 0 .. Len(t), NEW b \in a .. Len(t)
  PROVE  TupleSum(SubSeq(t, a + 1, b)) = f[b] - f[a]
<1> DEFINE u == SubSeq(t, a + 1, b)
           h == [k \in 0 .. b - a |-> f[a + k] - f[a]]
<1>1. /\ Len(t) \in Nat /\ a \in Nat /\ b \in Nat /\ a <= b /\ b <= Len(t)
      /\ f \in [0 .. Len(t) -> Int] /\ f[0] = 0
      /\ \A n \in 1 .. Len(t) : f[n] = f[n - 1] + t[n]
  BY DEF Sums
<1>2. u \in Seq(Nat) /\ Len(u) = b - a /\ \A k \in 1 .. b - a : u[k] = t[a + k]
  BY <1>1
<1> HIDE DEF u
<1>3. u \in Seq(Int)
  BY <1>2
<1> DEFINE T == Len(t)
<1>10. /\ T \in Nat /\ a \in 0 .. T /\ f \in [0 .. T -> Int] /\ f[a] \in Int
       /\ \A n \in 1 .. T : t[n] \in Nat
  BY <1>1
<1>4. ASSUME NEW k \in 0 .. b - a PROVE a + k \in 0 .. T /\ f[a + k] \in Int /\ f[a] \in Int
  <2>1. a + k \in 0 .. T
    <3>1. T \in Nat /\ a \in Nat /\ b \in Nat /\ b <= T /\ a <= b
      BY <1>1
    <3> HIDE DEF T
    <3> QED
      BY <3>1
  <2> HIDE DEF T
  <2> QED
    BY <1>10, <2>1
<1>5. ASSUME NEW k \in 1 .. Len(u) PROVE h[k] = h[k - 1] + u[k]
  <2>1. k \in 0 .. b - a /\ k - 1 \in 0 .. b - a /\ a + (k - 1) = (a + k) - 1
        /\ a + k \in 1 .. Len(t)
    BY <1>1, <1>2
  <2>2. f[a + k] = f[(a + k) - 1] + t[a + k] /\ u[k] = t[a + k]
    BY <1>1, <1>2, <2>1
  <2>3. h[k] = f[a + k] - f[a] /\ h[k - 1] = f[(a + k) - 1] - f[a]
    BY <2>1
  <2>4. f[(a + k) - 1] \in Int /\ f[a] \in Int /\ t[a + k] \in Nat
    <3>1. k - 1 \in 0 .. b - a /\ a + k \in 1 .. T
      BY <2>1
    <3>2. f[a + (k - 1)] \in Int
      BY <1>4, <3>1
    <3> HIDE DEF T
    <3> QED
      BY <1>10, <2>1, <3>1, <3>2
  <2> HIDE DEF h
  <2> QED
    BY <2>2, <2>3, <2>4
<1>6. h[0] = 0 /\ h \in [0 .. Len(u) -> Int] /\ h[b - a] = f[b] - f[a]
  <2>1. h[0] = f[a] - f[a]
    <3>1. 0 \in 0 .. b - a /\ a + 0 = a
      BY <1>1
    <3> QED
      BY <3>1
  <2>2. h[b - a] = f[b] - f[a]
    <3>1. b - a \in 0 .. b - a /\ a + (b - a) = b
      BY <1>1
    <3> QED
      BY <3>1
  <2>3. h \in [0 .. Len(u) -> Int]
    <3>1. ASSUME NEW k \in 0 .. b - a PROVE f[a + k] - f[a] \in Int
      <4>1. f[a + k] \in Int /\ f[a] \in Int
        BY <1>4
      <4> QED
        BY <4>1
    <3> QED
      BY <1>2, <3>1
  <2>4. f[a] \in Int
    BY <1>1
  <2> QED
    BY <2>1, <2>2, <2>3, <2>4
<1>7. Sums(h, u)
  BY <1>5, <1>6 DEF Sums
<1> HIDE DEF h
<1>8. TupleSum(u) = h[Len(u)]
  BY <1>3, <1>7, TupleSumIs
<1> QED
  BY <1>2, <1>6, <1>8 DEF u

LEMMA SliceBound ==
  ASSUME NEW t \in Seq(Nat), NEW p \in Nat, \A i \in 1 .. Len(t) : t[i] <= p,
         NEW a \in 0 .. Len(t), NEW b \in a .. Len(t)
  PROVE  TupleSum(SubSeq(t, a + 1, b)) \in Nat /\ TupleSum(SubSeq(t, a + 1, b)) <= p * (b - a)
<1> DEFINE u == SubSeq(t, a + 1, b)
<1>1. Len(t) \in Nat /\ a \in Nat /\ b \in Nat /\ a <= b /\ b <= Len(t)
  OBVIOUS
<1>2. u \in Seq(Nat) /\ Len(u) = b - a /\ \A k \in 1 .. b - a : u[k] = t[a + k]
  BY <1>1
<1> HIDE DEF u
<1>3. ASSUME NEW k \in 1 .. Len(u) PROVE u[k] <= p
  <2>1. k \in 1 .. b - a /\ a + k \in 1 .. Len(t)
    BY <1>1, <1>2
  <2> QED
    BY <1>2, <2>1
<1>4. TupleSum(u) \in Nat /\ TupleSum(u) <= p * Len(u)
  BY <1>2, <1>3, SumBound
<1> QED
  BY <1>2, <1>4 DEF u

-----------------------------------------------------------------------------
(* What is flattened of a sequence of sequences.                           *)
FlattenRule(g, ss) ==
  g = [i \in 1 .. Len(ss) |-> IF i = 1 THEN ss[i] ELSE g[i - 1] \o ss[i]]

Flattened(f, ss, S) ==
  /\ f \in [0 .. Len(ss) -> Seq(S)] /\ f[0] = << >>
  /\ \A i \in 1 .. Len(ss) : f[i] = f[i - 1] \o ss[i]
  /\ FlattenSeq(ss) = f[Len(ss)]

LEMMA FlattenSteps ==
  ASSUME NEW S, NEW ss \in Seq(Seq(S))
  PROVE  \E f : Flattened(f, ss, S)
<1>1. CASE Len(ss) = 0
  <2>1. ss = << >>
    BY <1>1
  <2>2. FlattenSeq(ss) = << >>
    BY <1>1, <2>1 DEF FlattenSeq
  <2> DEFINE f == [i \in 0 .. Len(ss) |-> << >>]
  <2>3. Flattened(f, ss, S)
    BY <1>1, <2>2 DEF Flattened
  <2> QED
    BY <2>3
<1>2. CASE Len(ss) # 0
  <2> DEFINE T == Seq(S)
             G == [i \in Nat |-> [y \in T |-> IF i + 1 \in 1 .. Len(ss) THEN y \o ss[i + 1] ELSE y]]
             g == CHOOSE h : FlattenRule(h, ss)
  <2>1. Len(ss) \in Nat /\ \A i \in 1 .. Len(ss) : ss[i] \in T
    OBVIOUS
  <2>2. \A y \in T, i \in 1 .. Len(ss) : y \o ss[i] \in T
    BY <2>1
  <2>3. << >> \in T /\ \A y \in T : << >> \o y = y
    OBVIOUS
  <2>4. FlattenSeq(ss) = g[Len(ss)]
    BY <1>2, Zenon DEF FlattenSeq, FlattenRule
  <2> HIDE DEF T
  <2>5. G \in [Nat -> [T -> T]]
    BY <2>2
  <2>6. PICK f : UpTo(Len(ss), f, T, << >>, G)
    <3> HIDE DEF G
    <3>1. \A n \in Nat : \E f : UpTo(n, f, T, << >>, G)
      BY <2>3, <2>5, RecursionUpTo, Zenon
    <3> QED
      BY <2>1, <3>1, Zenon
  <2>7. \A i \in 0 .. Len(ss) : f[i] \in T
    BY <2>6 DEF UpTo
  <2>8. ASSUME NEW i \in 1 .. Len(ss) PROVE f[i] = f[i - 1] \o ss[i]
    <3>1. i - 1 \in 0 .. Len(ss) - 1 /\ i - 1 \in Nat /\ (i - 1) + 1 = i
      BY <2>1
    <3>2. f[i] = G[i - 1][f[i - 1]] /\ f[i - 1] \in T
      <4> HIDE DEF G
      <4>1. \A k \in 0 .. Len(ss) - 1 : f[k + 1] = G[k][f[k]]
        BY <2>6, Zenon DEF UpTo
      <4>2. f[(i - 1) + 1] = G[i - 1][f[i - 1]]
        BY <3>1, <4>1, Zenon
      <4>3. i - 1 \in 0 .. Len(ss)
        BY <2>1, <3>1
      <4> QED
        BY <2>7, <3>1, <4>2, <4>3
    <3> QED
      BY <3>1, <3>2
  <2>9. f[0] = << >>
    BY <2>6 DEF UpTo
  <2> DEFINE h == [i \in 1 .. Len(ss) |-> f[i]]
  <2>10. FlattenRule(h, ss)
    <3>1. ASSUME NEW i \in 1 .. Len(ss)
          PROVE  f[i] = IF i = 1 THEN ss[i] ELSE h[i - 1] \o ss[i]
      <4>1. CASE i = 1
        <5>1. f[i] = f[i - 1] \o ss[i] /\ ss[i] \in T
          BY <2>1, <2>8
        <5>2. f[i - 1] = << >>
          BY <2>9, <4>1
        <5>3. f[i] = << >> \o ss[i]
          BY <5>1, <5>2
        <5> QED
          BY <2>3, <4>1, <5>1, <5>3
      <4>2. CASE i # 1
        <5>1. i - 1 \in 1 .. Len(ss)
          BY <2>1, <4>2
        <5> QED
          BY <2>8, <4>2, <5>1
      <4> QED
        BY <4>1, <4>2
    <3> QED
      BY <3>1 DEF FlattenRule
  <2>11. FlattenRule(g, ss)
    BY <2>10, Zenon
  <2> HIDE DEF g, h, G
  <2>12. \A i \in Nat : i \in 1 .. Len(ss) => g[i] \in T
    <3> DEFINE I == {i \in Nat : i \in 1 .. Len(ss) => g[i] \in T}
    <3>1. 0 \in I
      OBVIOUS
    <3>2. ASSUME NEW i \in Nat, i \in I PROVE i + 1 \in I
      <4> SUFFICES ASSUME i + 1 \in 1 .. Len(ss) PROVE g[i + 1] \in T
        OBVIOUS
      <4>1. g[i + 1] = IF i + 1 = 1 THEN ss[i + 1] ELSE g[(i + 1) - 1] \o ss[i + 1]
        BY <2>11 DEF FlattenRule
      <4>2. CASE i = 0
        BY <2>1, <4>1, <4>2
      <4>3. CASE i # 0
        <5>1. i \in 1 .. Len(ss) /\ (i + 1) - 1 = i
          BY <2>1, <4>3
        <5>2. g[i] \in T
          BY <3>2, <5>1
        <5> QED
          BY <2>2, <4>1, <4>3, <5>1, <5>2
      <4> QED
        BY <4>2, <4>3
    <3> HIDE DEF I
    <3>3. \A i \in Nat : i \in I
      BY <3>1, <3>2, NatSteps, Zenon
    <3> QED
      BY <3>3 DEF I
  <2> DEFINE k == [i \in 0 .. Len(ss) |-> IF i = 0 THEN << >> ELSE g[i]]
  <2>13. k \in [0 .. Len(ss) -> T] /\ k[0] = << >> /\ k[Len(ss)] = g[Len(ss)]
    <3>1. ASSUME NEW i \in 0 .. Len(ss) PROVE k[i] \in T
      <4>1. i # 0 => i \in 1 .. Len(ss) /\ i \in Nat
        BY <2>1
      <4> QED
        BY <2>3, <2>12, <4>1
    <3> QED
      BY <1>2, <2>1, <3>1
  <2>14. ASSUME NEW i \in 1 .. Len(ss) PROVE k[i] = k[i - 1] \o ss[i]
    <3>1. g[i] = IF i = 1 THEN ss[i] ELSE g[i - 1] \o ss[i]
      BY <2>11 DEF FlattenRule
    <3>2. k[i] = g[i] /\ i - 1 \in 0 .. Len(ss)
      BY <2>1
    <3>3. CASE i = 1
      <4>1. k[i - 1] = << >> /\ ss[i] \in T /\ g[i] = ss[i]
        BY <2>1, <3>1, <3>3
      <4> QED
        BY <2>3, <3>2, <4>1
    <3>4. CASE i # 1
      <4>1. k[i - 1] = g[i - 1]
        BY <2>1, <3>2, <3>4
      <4> QED
        BY <3>1, <3>2, <3>4, <4>1
    <3> QED
      BY <3>3, <3>4
  <2> HIDE DEF k
  <2>15. Flattened(k, ss, S)
    BY <2>4, <2>13, <2>14, Zenon DEF Flattened, T
  <2> QED
    BY <2>15
<1> QED
  BY <1>1, <1>2

LEMMA FlattenInSeq ==
  ASSUME NEW S, NEW ss \in Seq(Seq(S))
  PROVE  FlattenSeq(ss) \in Seq(S)
<1>1. PICK f : Flattened(f, ss, S)
  BY FlattenSteps
<1>2. Len(ss) \in 0 .. Len(ss)
  OBVIOUS
<1> QED
  BY <1>1, <1>2 DEF Flattened

-----------------------------------------------------------------------------
(* Layout.                                                                 *)

Points(sizes) == {pt \in [DOMAIN sizes -> Nat] : \A d \in DOMAIN sizes : pt[d] < sizes[d]}

LEMMA SizesBefore ==
  ASSUME NEW sizes \in Seq(Nat \ {0})
  PROVE  \E f : /\ Products(f, sizes)
                /\ f \in [0 .. Len(sizes) -> Nat \ {0}]
                /\ TupleProduct(sizes) = f[Len(sizes)]
                /\ \A d \in 1 .. Len(sizes) : SizeBefore(sizes, d) = f[d - 1]
<1>1. sizes \in Seq(Int) /\ Len(sizes) \in Nat /\ \A n \in 1 .. Len(sizes) : sizes[n] \in Nat \ {0}
  OBVIOUS
<1>2. PICK f : Products(f, sizes)
  BY <1>1, ProductsExist
<1>3. TupleProduct(sizes) = f[Len(sizes)]
  BY <1>1, <1>2, TupleProductIs
<1>4. ASSUME NEW d \in 1 .. Len(sizes) PROVE SizeBefore(sizes, d) = f[d - 1]
  <2> DEFINE u == SubSeq(sizes, 1, d - 1)
  <2>1. /\ u \in Seq(Int) /\ Len(u) = d - 1 /\ d - 1 \in Nat
        /\ \A i \in 1 .. d - 1 : u[i] = sizes[i]
    BY <1>1
  <2> HIDE DEF u
  <2>2. PICK g : Products(g, u)
    BY <2>1, ProductsExist
  <2>3. TupleProduct(u) = g[d - 1]
    BY <2>1, <2>2, TupleProductIs
  <2>4. g[d - 1] = f[d - 1]
    <3> DEFINE n == d - 1
    <3>1. n \in Nat /\ SameUpTo(n, u, sizes)
      BY <1>1, <2>1 DEF SameUpTo
    <3> HIDE DEF n
    <3>2. g[n] = f[n]
      BY <1>1, <1>2, <2>1, <2>2, <3>1, ProductsAgree
    <3> QED
      BY <3>2 DEF n
  <2>5. SizeBefore(sizes, d) = TupleProduct(u)
    BY DEF SizeBefore, u
  <2> QED
    BY <2>3, <2>4, <2>5
<1>5. f \in [0 .. Len(sizes) -> Nat \ {0}]
  <2> DEFINE S == {n \in Nat : n <= Len(sizes) => f[n] \in Nat \ {0}}
  <2>1. 0 \in S
    BY <1>2 DEF Products
  <2>2. ASSUME NEW n \in Nat, n \in S PROVE n + 1 \in S
    <3> SUFFICES ASSUME n + 1 <= Len(sizes) PROVE f[n + 1] \in Nat \ {0}
      OBVIOUS
    <3>1. n + 1 \in 1 .. Len(sizes) /\ (n + 1) - 1 = n
      BY <1>1
    <3>2. f[n] \in Nat \ {0} /\ sizes[n + 1] \in Nat \ {0}
      BY <1>1, <2>2, <3>1
    <3>3. f[n + 1] = f[n] * sizes[n + 1]
      BY <1>2, <3>1 DEF Products
    <3>4. \A x, y \in Nat \ {0} : x * y \in Nat \ {0}
      BY SMT
    <3> QED
      BY <3>2, <3>3, <3>4
  <2>3. \A n \in 0 .. Len(sizes) : f[n] \in Nat \ {0}
    <3>1. \A n \in Nat : n \in S
      <4> HIDE DEF S
      <4> QED
        BY <2>1, <2>2, NatSteps
    <3> QED
      BY <1>1, <3>1
  <2>4. f \in [0 .. Len(sizes) -> Int]
    BY <1>2 DEF Products
  <2> QED
    BY <2>3, <2>4
<1> QED
  BY <1>2, <1>3, <1>4, <1>5

(* The index of the first n elements of a point, for every n.              *)
Indices(s, f, sizes, pt) ==
  /\ s \in [0 .. Len(sizes) -> Int] /\ s[0] = 0
  /\ \A n \in 1 .. Len(sizes) : s[n] = s[n - 1] + pt[n] * f[n - 1]

LEMMA IndicesExist ==
  ASSUME NEW sizes \in Seq(Nat \ {0}), NEW f \in [0 .. Len(sizes) -> Nat \ {0}],
         \A d \in 1 .. Len(sizes) : SizeBefore(sizes, d) = f[d - 1],
         NEW pt \in [1 .. Len(sizes) -> Nat]
  PROVE  \E s : Indices(s, f, sizes, pt) /\ LayoutIndex(sizes, pt) = s[Len(sizes)]
<1> DEFINE t == [d \in 1 .. Len(sizes) |-> pt[d] * f[d - 1]]
<1>1. Len(sizes) \in Nat /\ DOMAIN sizes = 1 .. Len(sizes)
  OBVIOUS
<1>2. \A d \in 1 .. Len(sizes) : pt[d] * f[d - 1] \in Int
  <2> TAKE d \in 1 .. Len(sizes)
  <2>1. d \in 1 .. Len(sizes) /\ d - 1 \in 0 .. Len(sizes)
    BY <1>1
  <2>2. pt[d] \in Nat
    BY <2>1
  <2>3. f[d - 1] \in Nat
    BY <2>1
  <2> QED
    BY <2>2, <2>3
<1>3. t \in Seq(Int) /\ Len(t) = Len(sizes) /\ \A d \in 1 .. Len(sizes) : t[d] = pt[d] * f[d - 1]
  BY <1>1, <1>2
<1>4. LayoutIndex(sizes, pt) = TupleSum(t)
  <2> DEFINE u == [d \in DOMAIN sizes |-> pt[d] * SizeBefore(sizes, d)]
  <2>1. \A d \in DOMAIN sizes : pt[d] * SizeBefore(sizes, d) = pt[d] * f[d - 1]
    BY <1>1
  <2>2. u = t
    BY <1>1, <2>1, Zenon
  <2> QED
    BY <2>2, Zenon DEF LayoutIndex
<1> HIDE DEF t
<1>5. PICK s : Sums(s, t)
  BY <1>3, SumsExist
<1>6. TupleSum(t) = s[Len(sizes)]
  BY <1>3, <1>5, TupleSumIs
<1>7. Indices(s, f, sizes, pt)
  BY <1>3, <1>5 DEF Sums, Indices
<1> QED
  BY <1>4, <1>6, <1>7

(* Each is below the number of points that the first n sizes have.         *)
LEMMA IndicesBelow ==
  ASSUME NEW sizes \in Seq(Nat \ {0}), NEW f \in [0 .. Len(sizes) -> Nat \ {0}],
         Products(f, sizes), NEW pt \in Points(sizes), NEW s, Indices(s, f, sizes, pt)
  PROVE  \A n \in 0 .. Len(sizes) : s[n] \in Nat /\ s[n] < f[n]
<1> DEFINE S == {n \in Nat : n <= Len(sizes) => s[n] \in Nat /\ s[n] < f[n]}
<1>1. 0 \in S
  BY DEF Indices, Products
<1>2. ASSUME NEW n \in Nat, n \in S PROVE n + 1 \in S
  <2> SUFFICES ASSUME n + 1 <= Len(sizes) PROVE s[n + 1] \in Nat /\ s[n + 1] < f[n + 1]
    OBVIOUS
  <2>1. n + 1 \in 1 .. Len(sizes) /\ n \in 0 .. Len(sizes) /\ (n + 1) - 1 = n
    OBVIOUS
  <2>2. s[n] \in Nat /\ s[n] < f[n] /\ f[n] \in Nat \ {0}
    BY <1>2, <2>1
  <2>3. pt[n + 1] \in Nat /\ sizes[n + 1] \in Nat \ {0} /\ pt[n + 1] < sizes[n + 1]
    BY <2>1 DEF Points
  <2>4. s[n + 1] = s[n] + pt[n + 1] * f[n]
    BY <2>1 DEF Indices
  <2>5. f[n + 1] = f[n] * sizes[n + 1]
    BY <2>1 DEF Products
  <2>7. f[n] \in Nat /\ sizes[n + 1] \in Nat
    BY <2>2, <2>3
  <2>8. s[n] + pt[n + 1] * f[n] \in Nat /\ s[n] + pt[n + 1] * f[n] < f[n] * sizes[n + 1]
    BY <2>2, <2>3, <2>7, Below, Zenon
  <2> QED
    BY <2>4, <2>5, <2>8
<1>3. \A n \in Nat : n \in S
  <2> HIDE DEF S
  <2> QED
    BY <1>1, <1>2, NatSteps
<1> QED
  BY <1>3

(* A point is found again from its index: what the elements from n on add  *)
(* to it is a multiple of the number of points before them.                *)
LEMMA IndexSplits ==
  ASSUME NEW sizes \in Seq(Nat \ {0}), NEW f \in [0 .. Len(sizes) -> Nat \ {0}],
         Products(f, sizes), NEW pt \in Points(sizes), NEW s, Indices(s, f, sizes, pt)
  PROVE  \A n \in 0 .. Len(sizes) : \E m \in Nat : s[Len(sizes)] = s[n] + f[n] * m
<1> DEFINE N == Len(sizes)
           S == {k \in Nat : k <= N => \E m \in Nat : s[N] = s[N - k] + f[N - k] * m}
<1>1. 0 \in S
  <2>1. s[N] \in Int /\ f[N] \in Nat /\ N \in Nat
    BY DEF Indices
  <2>2. s[N] = s[N - 0] + f[N - 0] * 0
    BY <2>1
  <2> QED
    BY <2>2
<1>2. ASSUME NEW k \in Nat, k \in S PROVE k + 1 \in S
  <2> SUFFICES ASSUME k + 1 <= N
               PROVE  \E m \in Nat : s[N] = s[N - (k + 1)] + f[N - (k + 1)] * m
    OBVIOUS
  <2> DEFINE n == N - k
  <2>1. n \in 1 .. N /\ n - 1 \in 0 .. N /\ n - 1 = N - (k + 1)
    OBVIOUS
  <2>2. PICK m \in Nat : s[N] = s[n] + f[n] * m
    BY <1>2
  <2> HIDE DEF n
  <2>3. s[n] = s[n - 1] + pt[n] * f[n - 1] /\ f[n] = f[n - 1] * sizes[n]
    BY <2>1 DEF Indices, Products
  <2>4. pt[n] \in Nat /\ sizes[n] \in Nat
    <3>1. DOMAIN sizes = 1 .. N /\ sizes \in [1 .. N -> Nat \ {0}]
      OBVIOUS
    <3>2. pt \in [1 .. N -> Nat]
      BY <3>1 DEF Points
    <3> QED
      BY <2>1, <3>1, <3>2
  <2>5. f[n - 1] \in Nat /\ s[n - 1] \in Int
    BY <2>1 DEF Indices
  <2>6. /\ (s[n - 1] + pt[n] * f[n - 1]) + (f[n - 1] * sizes[n]) * m
             = s[n - 1] + f[n - 1] * (pt[n] + sizes[n] * m)
        /\ pt[n] + sizes[n] * m \in Nat
    <3> DEFINE a == s[n - 1]
               p == f[n - 1]
               q == pt[n]
               z == sizes[n]
    <3>1. a \in Int /\ p \in Nat /\ q \in Nat /\ z \in Nat
      BY <2>4, <2>5
    <3> HIDE DEF a, p, q, z
    <3>2. (a + q * p) + (p * z) * m = a + p * (q + z * m) /\ q + z * m \in Nat
      BY <3>1, Regroup
    <3> QED
      BY <3>2 DEF a, p, q, z
  <2>7. s[N] = s[n - 1] + f[n - 1] * (pt[n] + sizes[n] * m)
    BY <2>2, <2>3, <2>6
  <2> QED
    BY <2>1, <2>6, <2>7
<1>3. \A k \in Nat : k \in S
  <2> HIDE DEF S
  <2> QED
    BY <1>1, <1>2, NatSteps
<1>4. ASSUME NEW n \in 0 .. N PROVE \E m \in Nat : s[N] = s[n] + f[n] * m
  <2>1. N - n \in Nat /\ N - n <= N /\ N - (N - n) = n
    OBVIOUS
  <2>2. N - n \in S
    BY <1>3, <2>1
  <2>3. \E m \in Nat : s[N] = s[N - (N - n)] + f[N - (N - n)] * m
    BY <2>1, <2>2
  <2> QED
    BY <2>1, <2>3
<1> QED
  BY <1>4

LEMMA UnlayoutOfIndex ==
  ASSUME NEW sizes \in Seq(Nat \ {0}), NEW pt \in Points(sizes)
  PROVE  /\ LayoutIndex(sizes, pt) \in 0 .. TupleProduct(sizes) - 1
         /\ Unlayout(sizes, LayoutIndex(sizes, pt)) = pt
<1> DEFINE N == Len(sizes)
<1>1. PICK f : /\ Products(f, sizes)
               /\ f \in [0 .. N -> Nat \ {0}]
               /\ TupleProduct(sizes) = f[N]
               /\ \A d \in 1 .. N : SizeBefore(sizes, d) = f[d - 1]
  BY SizesBefore
<1>2. pt \in [1 .. N -> Nat] /\ DOMAIN sizes = 1 .. N /\ N \in Nat
  BY DEF Points
<1>3. PICK s : Indices(s, f, sizes, pt) /\ LayoutIndex(sizes, pt) = s[N]
  BY <1>1, <1>2, IndicesExist
<1>4. \A n \in 0 .. N : s[n] \in Nat /\ s[n] < f[n]
  BY <1>1, <1>3, IndicesBelow
<1>5. LayoutIndex(sizes, pt) \in 0 .. TupleProduct(sizes) - 1
  <2>1. s[N] \in Nat /\ s[N] < f[N] /\ f[N] \in Nat
    BY <1>1, <1>2, <1>4
  <2> QED
    BY <1>1, <1>3, <2>1
<1>6. ASSUME NEW d \in 1 .. N PROVE (s[N] \div f[d - 1]) % sizes[d] = pt[d]
  <2>1. d - 1 \in 0 .. N /\ d \in 0 .. N
    BY <1>2
  <2>2. PICK m \in Nat : s[N] = s[d] + f[d] * m
    <3>1. \A n \in 0 .. N : \E m \in Nat : s[N] = s[n] + f[n] * m
      BY <1>1, <1>3, IndexSplits, SMTT(60)
    <3> QED
      BY <2>1, <3>1
  <2>3. s[d] = s[d - 1] + pt[d] * f[d - 1] /\ f[d] = f[d - 1] * sizes[d]
    BY <1>1, <1>3 DEF Indices, Products
  <2>4. /\ pt[d] \in Nat /\ pt[d] < sizes[d] /\ sizes[d] \in Nat \ {0}
        /\ f[d - 1] \in Nat \ {0} /\ s[d - 1] \in Nat /\ s[d - 1] < f[d - 1]
    <3>1. sizes \in [1 .. N -> Nat \ {0}]
      OBVIOUS
    <3>2. pt[d] \in Nat /\ pt[d] < sizes[d] /\ sizes[d] \in Nat \ {0}
      BY <1>2, <3>1 DEF Points
    <3>3. f[d - 1] \in Nat \ {0}
      BY <1>1, <2>1
    <3>4. s[d - 1] \in Nat /\ s[d - 1] < f[d - 1]
      BY <1>4, <2>1
    <3> QED
      BY <3>2, <3>3, <3>4
  <2>6. /\ (s[d - 1] + pt[d] * f[d - 1]) + (f[d - 1] * sizes[d]) * m
             = s[d - 1] + f[d - 1] * (pt[d] + sizes[d] * m)
        /\ pt[d] + sizes[d] * m \in Nat
    <3> DEFINE a == s[d - 1]
               p == f[d - 1]
               q == pt[d]
               z == sizes[d]
    <3>1. a \in Int /\ p \in Nat /\ q \in Nat /\ z \in Nat
      BY <2>4
    <3> HIDE DEF a, p, q, z
    <3>2. (a + q * p) + (p * z) * m = a + p * (q + z * m) /\ q + z * m \in Nat
      BY <3>1, Regroup
    <3> QED
      BY <3>2 DEF a, p, q, z
  <2>7. s[N] = s[d - 1] + f[d - 1] * (pt[d] + sizes[d] * m)
    BY <2>2, <2>3, <2>6
  <2>8. s[N] \div f[d - 1] = pt[d] + sizes[d] * m
    <3> DEFINE a == s[d - 1]
               p == f[d - 1]
               j == pt[d] + sizes[d] * m
    <3>1. a \in Nat /\ p \in Nat \ {0} /\ j \in Nat /\ a < p /\ s[N] = a + p * j
      BY <2>4, <2>6, <2>7
    <3> HIDE DEF a, p, j
    <3>2. s[N] \div p = j
      BY <3>1, DivideBy
    <3> QED
      BY <3>2 DEF p, j
  <2>9. (pt[d] + sizes[d] * m) % sizes[d] = pt[d]
    BY <2>4, DivideBy
  <2> QED
    BY <2>8, <2>9
<1>7. Unlayout(sizes, s[N]) = pt
  <2> DEFINE u == [d \in 1 .. N |-> (s[N] \div f[d - 1]) % sizes[d]]
  <2>1. \A d \in 1 .. N : (s[N] \div SizeBefore(sizes, d)) % sizes[d] = (s[N] \div f[d - 1]) % sizes[d]
    BY <1>1
  <2>2. Unlayout(sizes, s[N]) = [d \in 1 .. N |-> (s[N] \div SizeBefore(sizes, d)) % sizes[d]]
    BY <1>2, Zenon DEF Unlayout
  <2>3. Unlayout(sizes, s[N]) = u
    BY <2>1, <2>2, Zenon
  <2>4. \A d \in 1 .. N : u[d] = pt[d]
    BY <1>6
  <2>5. pt = [d \in 1 .. N |-> pt[d]]
    BY <1>2
  <2>6. u = [d \in 1 .. N |-> u[d]]
    OBVIOUS
  <2> HIDE DEF u
  <2> QED
    BY <2>3, <2>4, <2>5, <2>6, Zenon
<1> QED
  BY <1>3, <1>5, <1>7

(* An index is found again from its point.                                 *)
LEMMA IndexOfUnlayout ==
  ASSUME NEW sizes \in Seq(Nat \ {0}), NEW n \in 0 .. TupleProduct(sizes) - 1
  PROVE  Unlayout(sizes, n) \in Points(sizes) /\ LayoutIndex(sizes, Unlayout(sizes, n)) = n
<1> DEFINE N == Len(sizes)
           pt == Unlayout(sizes, n)
<1>1. PICK f : /\ Products(f, sizes)
               /\ f \in [0 .. N -> Nat \ {0}]
               /\ TupleProduct(sizes) = f[N]
               /\ \A d \in 1 .. N : SizeBefore(sizes, d) = f[d - 1]
  BY SizesBefore
<1>2. DOMAIN sizes = 1 .. N /\ N \in Nat /\ f[N] \in Nat \ {0} /\ n \in Nat /\ n < f[N]
  <2>1. DOMAIN sizes = 1 .. N /\ N \in Nat
    OBVIOUS
  <2>2. f[N] \in Nat \ {0}
    BY <1>1, <2>1
  <2> QED
    BY <1>1, <2>1, <2>2
<1>3. pt = [d \in 1 .. N |-> (n \div f[d - 1]) % sizes[d]]
  <2>1. pt = [d \in 1 .. N |-> (n \div SizeBefore(sizes, d)) % sizes[d]]
    BY <1>2, Zenon DEF Unlayout
  <2>2. \A d \in 1 .. N : (n \div SizeBefore(sizes, d)) % sizes[d] = (n \div f[d - 1]) % sizes[d]
    BY <1>1
  <2> HIDE DEF pt
  <2> QED
    BY <2>1, <2>2, Zenon
<1> HIDE DEF pt
<1>4. ASSUME NEW d \in 1 .. N
      PROVE  /\ f[d - 1] \in Nat \ {0} /\ sizes[d] \in Nat \ {0}
             /\ pt[d] = (n \div f[d - 1]) % sizes[d]
             /\ pt[d] \in Nat /\ pt[d] < sizes[d]
  <2>1. f[d - 1] \in Nat \ {0} /\ sizes[d] \in Nat \ {0}
    <3>1. d - 1 \in 0 .. N
      BY <1>2
    <3>2. f[d - 1] \in Nat \ {0}
      BY <1>1, <3>1
    <3>3. sizes \in [1 .. N -> Nat \ {0}]
      OBVIOUS
    <3> QED
      BY <3>2, <3>3
  <2>2. pt[d] = (n \div f[d - 1]) % sizes[d]
    BY <1>3, Zenon
  <2>4. /\ (n \div f[d - 1]) % sizes[d] \in Nat
        /\ ((n \div f[d - 1]) % sizes[d]) < sizes[d]
    BY <1>2, <2>1, DivMod, Zenon
  <2> QED
    BY <2>1, <2>2, <2>4
<1>5. pt \in Points(sizes)
  BY <1>2, <1>3, <1>4 DEF Points
<1>6. PICK s : Indices(s, f, sizes, pt) /\ LayoutIndex(sizes, pt) = s[N]
  <2>1. pt \in [1 .. N -> Nat]
    BY <1>2, <1>5 DEF Points
  <2> QED
    BY <1>1, <2>1, IndicesExist
<1> DEFINE S == {k \in Nat : k <= N => s[k] = n % f[k]}
<1>7. 0 \in S
  <2>1. f[0] = 1 /\ s[0] = 0
    BY <1>1, <1>6 DEF Products, Indices
  <2>2. n % 1 = 0
    BY <1>2
  <2> QED
    BY <2>1, <2>2
<1>8. ASSUME NEW k \in Nat, k \in S PROVE k + 1 \in S
  <2> SUFFICES ASSUME k + 1 <= N PROVE s[k + 1] = n % f[k + 1]
    OBVIOUS
  <2> DEFINE d == k + 1
             p == f[k]
             z == sizes[d]
             q == n \div p
  <2>1. d \in 1 .. N /\ d - 1 = k
    OBVIOUS
  <2> HIDE DEF d
  <2>2. s[d] = s[k] + pt[d] * f[k] /\ f[d] = f[k] * sizes[d]
    BY <1>1, <1>6, <2>1 DEF Indices, Products
  <2>3. s[k] = n % p /\ p \in Nat \ {0} /\ z \in Nat \ {0} /\ pt[d] = q % z
    BY <1>4, <1>8, <2>1
  <2> HIDE DEF p, z
  <2>4. q \in Nat /\ n % p \in Nat /\ (n % p) < p /\ n = (n % p) + p * q
    BY <1>2, <2>3, DivMod, Zenon
  <2> HIDE DEF q
  <2>5. q \div z \in Nat /\ q % z \in Nat /\ (q % z) < z /\ q = (q % z) + z * (q \div z)
    BY <2>3, <2>4, DivMod, Zenon
  <2> DEFINE a == n % p
             b == q % z
             m == q \div z
  <2>6. n = (a + b * p) + (p * z) * m
    <3>1. a \in Nat /\ b \in Nat /\ m \in Nat /\ n = a + p * q /\ q = b + z * m
      BY <2>4, <2>5
    <3> HIDE DEF a, b, m
    <3>2. (a + b * p) + (p * z) * m = a + p * (b + z * m)
      BY <2>3, <3>1, Regroup
    <3> QED
      BY <3>1, <3>2
  <2>7. a + b * p \in Nat /\ a + b * p < p * z /\ p * z \in Nat \ {0}
    <3>1. a \in Nat /\ b \in Nat /\ a < p /\ b < z
      BY <2>4, <2>5
    <3> HIDE DEF a, b
    <3>2. a + b * p \in Nat /\ a + b * p < p * z
      BY <2>3, <3>1, Below
    <3>3. p * z \in Nat \ {0}
      BY <2>3, SMT
    <3> QED
      BY <3>2, <3>3
  <2>8. n % (p * z) = a + b * p
    <3>1. m \in Nat
      BY <2>5
    <3> HIDE DEF a, b, m
    <3> QED
      BY <2>6, <2>7, <3>1, DivideBy
  <2>9. s[d] = a + b * p /\ f[d] = p * z
    BY <2>2, <2>3 DEF p, z
  <2> QED
    BY <2>8, <2>9 DEF d
<1>9. s[N] = n % f[N]
  <2>1. \A k \in Nat : k \in S
    <3> HIDE DEF S
    <3> QED
      BY <1>7, <1>8, NatSteps
  <2> QED
    BY <1>2, <2>1
<1>10. n % f[N] = n
  <2>1. n + f[N] * 0 = n
    BY <1>2
  <2>2. (n + f[N] * 0) % f[N] = n
    BY <1>2, DivideBy
  <2> QED
    BY <2>1, <2>2
<1> QED
  BY <1>5, <1>6, <1>9, <1>10 DEF pt

(* The kernel's layouts and its visits are sound for any sizes: a visit of *)
(* all points meets every point, and each only once, at its own place in   *)
(* the layout (visitAllPoints(), tuple.hpp; layout(), unlayout(),          *)
(* tuple.cpp).                                                             *)
THEOREM VisitsEveryPointOnce ==
  ASSUME NEW sizes \in Seq(Nat \ {0})
  PROVE  /\ {PointsOf(sizes)[n] : n \in DOMAIN PointsOf(sizes)} = Points(sizes)
         /\ \A n \in DOMAIN PointsOf(sizes) : LayoutIndex(sizes, PointsOf(sizes)[n]) = n - 1
<1> DEFINE P == TupleProduct(sizes)
           visits == PointsOf(sizes)
<1>1. P \in Nat
  <2>1. PICK f : /\ f \in [0 .. Len(sizes) -> Nat \ {0}]
                 /\ P = f[Len(sizes)]
    BY SizesBefore
  <2>2. Len(sizes) \in 0 .. Len(sizes)
    OBVIOUS
  <2> QED
    BY <2>1, <2>2
<1>2. visits = [n \in 1 .. P |-> Unlayout(sizes, n - 1)]
  BY DEF PointsOf
<1>3. ASSUME NEW n \in 1 .. P
      PROVE  visits[n] \in Points(sizes) /\ LayoutIndex(sizes, visits[n]) = n - 1
  <2>1. n - 1 \in 0 .. P - 1 /\ visits[n] = Unlayout(sizes, n - 1)
    BY <1>1, <1>2
  <2> QED
    BY <2>1, IndexOfUnlayout
<1>4. ASSUME NEW pt \in Points(sizes)
      PROVE  \E n \in 1 .. P : visits[n] = pt
  <2> DEFINE k == LayoutIndex(sizes, pt)
  <2>1. k \in 0 .. P - 1 /\ Unlayout(sizes, k) = pt
    BY UnlayoutOfIndex
  <2> HIDE DEF k
  <2>2. k + 1 \in 1 .. P /\ (k + 1) - 1 = k
    BY <1>1, <2>1
  <2>3. visits[k + 1] = pt
    BY <1>2, <2>1, <2>2
  <2> QED
    BY <2>2, <2>3
<1>5. DOMAIN visits = 1 .. P
  BY <1>2
<1> HIDE DEF visits
<1> QED
  BY <1>3, <1>4, <1>5 DEF visits

=============================================================================
