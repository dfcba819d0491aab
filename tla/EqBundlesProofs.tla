--------------------------- MODULE EqBundlesProofs ---------------------------
(***************************************************************************)
(* What the compiler's walks over dependencies find: a walk follows paths  *)
(* without repetition and stops after as many steps as there are objects   *)
(* to go on from, and yet, without cycles, it finds the whole closure of   *)
(* whatever it goes through.                                               *)
(* The compiler's walks, sort and lots, for every number of equations,     *)
(* every set of programs and every order of the walks.  IInv is about what *)
(* the walks have found, in programs with cycles too; GInv says that       *)
(* without cycles they find all dependencies, and what becomes of these as *)
(* equations become bundles and bundles become packs.                      *)
(***************************************************************************)
EXTENDS EqBundles, TuplesProofs

(* A swap exchanges two entries and no other.                              *)
LEMMA SwapEntries ==
  ASSUME NEW s \in Seq(Nat), NEW i \in 1 .. Len(s), NEW j \in 1 .. Len(s), i # j
  PROVE  /\ Swap(s, i, j) \in Seq(Nat)
         /\ DOMAIN Swap(s, i, j) = 1 .. Len(s)
         /\ Swap(s, i, j)[i] = s[j]
         /\ Swap(s, i, j)[j] = s[i]
         /\ \A k \in 1 .. Len(s) : k \notin {i, j} => Swap(s, i, j)[k] = s[k]
<1> DEFINE u == [s EXCEPT ![i] = s[j]]
           t == [u EXCEPT ![j] = s[i]]
<1>1. s \in [1 .. Len(s) -> Nat] /\ Len(s) \in Nat
  OBVIOUS
<1>2. u \in [1 .. Len(s) -> Nat] /\ t \in [1 .. Len(s) -> Nat]
  BY <1>1
<1>3. t[i] = s[j] /\ t[j] = s[i] /\ \A k \in 1 .. Len(s) : k \notin {i, j} => t[k] = s[k]
  BY <1>1, <1>2
<1>4. t \in Seq(Nat) /\ DOMAIN t = 1 .. Len(s)
  BY <1>1, <1>2
<1>5. Swap(s, i, j) = t
  BY Zenon DEF Swap
<1> QED
  BY <1>3, <1>4, <1>5

-----------------------------------------------------------------------------
(* Graphs.  R relates the objects of O.                                    *)

(* Dependencies are pairs.                                                 *)
LEMMA DepsOnIff ==
  ASSUME NEW O, NEW R, R \subseteq O \X O, NEW a, NEW b
  PROVE  b \in DepsOn(R, a) <=> <<a, b>> \in R
<1>1. ASSUME b \in DepsOn(R, a) PROVE <<a, b>> \in R
  <2>1. PICK d \in R : d[1] = a /\ d[2] = b
    BY <1>1 DEF DepsOn
  <2>2. d = <<d[1], d[2]>>
    BY <2>1
  <2> QED
    BY <2>1, <2>2
<1>2. ASSUME <<a, b>> \in R PROVE b \in DepsOn(R, a)
  BY <1>2 DEF DepsOn
<1> QED
  BY <1>1, <1>2

(* A closed set that has all that "a" depends on has all it depends on     *)
(* indirectly.                                                             *)
LEMMA ClosureInduction ==
  ASSUME NEW R, NEW a, NEW b, <<a, b>> \in Closure(R), NEW S, ClosedFrom(R, a, S)
  PROVE  b \in S
<1> DEFINE targets == {d[2] : d \in R}
           T == S \cap targets
<1>1. \A x : DepsOn(R, x) \subseteq targets
  BY DEF DepsOn
<1>2. ClosedFrom(R, a, T)
  BY <1>1 DEF ClosedFrom
<1>3. T \in SUBSET targets
  OBVIOUS
<1> HIDE DEF T
<1>4. b \in T
  BY <1>2, <1>3 DEF Closure
<1> QED
  BY <1>4 DEF T

(* A set is closed if it follows every dependency.                         *)
LEMMA ClosedFromIff ==
  ASSUME NEW O, NEW R, R \subseteq O \X O, NEW a, NEW S,
         \A y \in O : <<a, y>> \in R => y \in S,
         \A x \in S, y \in O : <<x, y>> \in R => y \in S
  PROVE  ClosedFrom(R, a, S)
<1>1. ASSUME NEW x, NEW y, y \in DepsOn(R, x)
      PROVE  <<x, y>> \in R /\ y \in O
  <2>1. <<x, y>> \in R
    BY <1>1, DepsOnIff
  <2> QED
    BY <2>1
<1>2. DepsOn(R, a) \subseteq S
  BY <1>1
<1>3. \A x \in S : DepsOn(R, x) \subseteq S
  BY <1>1
<1> QED
  BY <1>2, <1>3 DEF ClosedFrom

(* The closure relates objects, has all dependencies, and follows them.    *)
LEMMA ClosureFacts ==
  ASSUME NEW O, NEW R, R \subseteq O \X O
  PROVE  /\ Closure(R) \subseteq O \X O
         /\ \A d \in Closure(R) : \E y \in O : <<d[1], y>> \in R
         /\ R \subseteq Closure(R)
         /\ \A x, y, z : <<x, y>> \in Closure(R) /\ <<y, z>> \in R => <<x, z>> \in Closure(R)
<1> DEFINE sources == {d[1] : d \in R}
           targets == {d[2] : d \in R}
<1>1. /\ sources \subseteq O /\ targets \subseteq O
      /\ \A x \in sources : \E y \in O : <<x, y>> \in R
      /\ \A x, y : <<x, y>> \in R => x \in sources /\ y \in targets
      /\ \A d \in R : d = <<d[1], d[2]>>
  <2>1. \A d \in R : d = <<d[1], d[2]>> /\ d[1] \in O /\ d[2] \in O
    OBVIOUS
  <2> QED
    BY <2>1
<1>2. \A x, y : <<x, y>> \in Closure(R) <=>
        /\ x \in sources /\ y \in targets
        /\ \A S \in SUBSET targets : ClosedFrom(R, x, S) => y \in S
  <2> HIDE DEF sources, targets
  <2>1. Closure(R) = {c \in sources \X targets :
                        \A S \in SUBSET targets : ClosedFrom(R, c[1], S) => c[2] \in S}
    BY Zenon DEF Closure, sources, targets
  <2> QED
    BY <2>1
<1>3. Closure(R) \subseteq sources \X targets
  BY Zenon DEF Closure
<1> HIDE DEF sources, targets
<1>4. Closure(R) \subseteq O \X O /\ \A d \in Closure(R) : \E y \in O : <<d[1], y>> \in R
  BY <1>1, <1>3
<1>5. \A x, y : <<x, y>> \in R => <<x, y>> \in Closure(R)
  BY <1>1, <1>2, DepsOnIff DEF ClosedFrom
<1>6. R \subseteq Closure(R)
  BY <1>1, <1>5
<1>7. ASSUME NEW x, NEW y, NEW z, <<x, y>> \in Closure(R), <<y, z>> \in R
      PROVE  <<x, z>> \in Closure(R)
  <2>1. x \in sources /\ z \in targets
    BY <1>1, <1>2, <1>7
  <2>2. ASSUME NEW S \in SUBSET targets, ClosedFrom(R, x, S) PROVE z \in S
    <3>1. y \in S
      BY <1>2, <1>7, <2>2
    <3> QED
      BY <1>7, <2>2, <3>1, DepsOnIff DEF ClosedFrom
  <2> QED
    BY <1>2, <2>1, <2>2
<1> QED
  BY <1>4, <1>6, <1>7

(* What is depended on indirectly by what is depended on indirectly.       *)
LEMMA ClosureTransitive ==
  ASSUME NEW O, NEW R, R \subseteq O \X O, NEW a, NEW b, NEW c,
         <<a, b>> \in Closure(R), <<b, c>> \in Closure(R)
  PROVE  <<a, c>> \in Closure(R)
<1> DEFINE S == {y \in O : <<a, y>> \in Closure(R)}
<1>1. \A y \in O : <<b, y>> \in R => y \in S
  BY ClosureFacts
<1>2. \A x \in S, y \in O : <<x, y>> \in R => y \in S
  BY ClosureFacts
<1>3. ClosedFrom(R, b, S)
  <2> HIDE DEF S
  <2> QED
    BY <1>1, <1>2, ClosedFromIff
<1>4. c \in S
  BY <1>3, ClosureInduction
<1> QED
  BY <1>4

-----------------------------------------------------------------------------
(* The walks.  After n steps a walk has the paths of up to n dependencies. *)

Longer(R, paths) ==
  UNION {{Append(p, b) : b \in DepsOn(R, Last(p)) \ ToSet(p)} : p \in paths}
NextWalk(R, n, paths) == paths \cup Longer(R, {p \in paths : Len(p) = n})
IsWalk(R, a, w) ==
  w = [n \in Nat |-> IF n = 0 THEN {<<a>>} ELSE NextWalk(R, n, w[n - 1])]

(* A path from "a" along dependencies, with no object twice.               *)
IsPath(O, R, a, p) ==
  /\ p \in Seq(O) /\ p # <<>>
  /\ p[1] = a
  /\ \A i \in 1 .. Len(p) - 1 : <<p[i], p[i + 1]>> \in R
  /\ \A i, j \in 1 .. Len(p) : p[i] = p[j] => i = j

(* A longer path is a path and an object that is not on it.                *)
LEMMA LongerIff ==
  ASSUME NEW R, NEW paths, NEW q
  PROVE  q \in Longer(R, paths) <=>
           \E p \in paths : \E b \in DepsOn(R, Last(p)) \ ToSet(p) : q = Append(p, b)
BY DEF Longer

(* There is such a walk.                                                   *)
LEMMA WalkExists ==
  ASSUME NEW O, NEW R, R \subseteq O \X O, NEW a \in O
  PROVE  \E w : IsWalk(R, a, w)
<1> DEFINE Y == SUBSET Seq(O)
           G == [n \in Nat |-> [paths \in Y |-> NextWalk(R, n + 1, paths)]]
           A == {<<a>>}
<1>1. A \in Y
  OBVIOUS
<1>2. ASSUME NEW n \in Nat, NEW paths \in Y PROVE NextWalk(R, n + 1, paths) \in Y
  <2> SUFFICES ASSUME NEW q \in Longer(R, {p \in paths : Len(p) = n + 1})
               PROVE  q \in Seq(O)
    BY DEF NextWalk
  <2>1. PICK p \in paths : \E b \in DepsOn(R, Last(p)) \ ToSet(p) : q = Append(p, b)
    BY LongerIff
  <2>2. PICK b \in DepsOn(R, Last(p)) : q = Append(p, b)
    BY <2>1
  <2>3. <<Last(p), b>> \in R
    BY <2>2, DepsOnIff
  <2>4. b \in O /\ p \in Seq(O)
    BY <2>3
  <2> QED
    BY <2>2, <2>4
<1>3. G \in [Nat -> [Y -> Y]]
  <2> HIDE DEF Y
  <2> QED
    BY <1>2
<1>4. PICK w : w \in [Nat -> Y] /\ w[0] = A /\ \A n \in Nat : w[n + 1] = G[n][w[n]]
  <2> HIDE DEF Y, G, A
  <2>1. \E w : IsRecursion(w, Y, A, G)
    BY <1>1, <1>3, RecursionExists
  <2> QED
    BY <2>1 DEF IsRecursion
<1>5. \A n \in Nat : w[n + 1] = NextWalk(R, n + 1, w[n])
  <2> HIDE DEF Y
  <2> QED
    BY <1>4
<1>6. w = [n \in Nat |-> IF n = 0 THEN {<<a>>} ELSE NextWalk(R, n, w[n - 1])]
  <2>1. w = [n \in Nat |-> w[n]]
    BY <1>4
  <2>2. ASSUME NEW n \in Nat
        PROVE  w[n] = IF n = 0 THEN {<<a>>} ELSE NextWalk(R, n, w[n - 1])
    <3>1. CASE n = 0
      BY <1>4, <3>1
    <3>2. CASE n # 0
      <4>1. n - 1 \in Nat /\ (n - 1) + 1 = n
        BY <3>2
      <4> QED
        BY <1>5, <3>2, <4>1
    <3> QED
      BY <3>1, <3>2
  <2> QED
    BY <2>1, <2>2
<1> QED
  BY <1>6 DEF IsWalk

(* It starts at "a" and takes one step at a time.                          *)
LEMMA WalkSteps ==
  ASSUME NEW R, NEW a, NEW w, IsWalk(R, a, w)
  PROVE  /\ w[0] = {<<a>>}
         /\ \A n \in Nat : w[n + 1] = NextWalk(R, n + 1, w[n])
<1>1. \A n \in Nat : w[n] = IF n = 0 THEN {<<a>>} ELSE NextWalk(R, n, w[n - 1])
  BY DEF IsWalk
<1>2. ASSUME NEW n \in Nat PROVE w[n + 1] = NextWalk(R, n + 1, w[n])
  <2>1. n + 1 \in Nat /\ n + 1 # 0 /\ (n + 1) - 1 = n
    OBVIOUS
  <2> QED
    BY <1>1, <2>1
<1> QED
  BY <1>1, <1>2

(* A visitor sees it after as many steps as there are objects to go on     *)
(* from.                                                                   *)
LEMMA VisitDepsWalk ==
  ASSUME NEW R, NEW a, \E w : IsWalk(R, a, w)
  PROVE  \E w : IsWalk(R, a, w) /\ VisitDeps(R, a) = w[Cardinality({d[1] : d \in R})]
<1> DEFINE w == CHOOSE w : IsWalk(R, a, w)
<1>1. IsWalk(R, a, w)
  BY Zenon
<1>2. VisitDeps(R, a) = w[Cardinality({d[1] : d \in R})]
  BY Zenon DEF VisitDeps, IsWalk, NextWalk, Longer
<1> QED
  BY <1>1, <1>2

(* A path goes on with a dependency of its last object that is new to it.  *)
LEMMA PathExtends ==
  ASSUME NEW O, NEW R, R \subseteq O \X O, NEW a, NEW p, IsPath(O, R, a, p),
         NEW b, <<Last(p), b>> \in R, b \notin ToSet(p)
  PROVE  IsPath(O, R, a, Append(p, b))
<1> DEFINE q == Append(p, b)
<1>1. p \in Seq(O) /\ Len(p) \in Nat /\ Len(p) >= 1 /\ b \in O
  BY DEF IsPath
<1>2. /\ q \in Seq(O) /\ Len(q) = Len(p) + 1 /\ q # <<>>
      /\ \A i \in 1 .. Len(p) : q[i] = p[i]
      /\ q[Len(p) + 1] = b
  BY <1>1
<1>3. Last(p) = p[Len(p)]
  BY DEF Last
<1>4. \A i \in 1 .. Len(p) : p[i] # b
  BY <1>1 DEF ToSet
<1> HIDE DEF q
<1>5. q[1] = a
  BY <1>1, <1>2 DEF IsPath
<1>6. ASSUME NEW i \in 1 .. Len(q) - 1 PROVE <<q[i], q[i + 1]>> \in R
  <2>1. CASE i = Len(p)
    BY <1>1, <1>2, <1>3, <2>1
  <2>2. CASE i # Len(p)
    <3>1. i \in 1 .. Len(p) - 1 /\ i \in 1 .. Len(p) /\ i + 1 \in 1 .. Len(p)
      BY <1>1, <1>2, <2>2
    <3>2. <<p[i], p[i + 1]>> \in R
      BY <3>1 DEF IsPath
    <3> QED
      BY <1>2, <3>1, <3>2
  <2> QED
    BY <2>1, <2>2
<1>7. ASSUME NEW i \in 1 .. Len(q), NEW j \in 1 .. Len(q), q[i] = q[j] PROVE i = j
  <2>1. \A n \in 1 .. Len(q) : n \in 1 .. Len(p) \/ n = Len(p) + 1
    BY <1>1, <1>2
  <2>2. CASE i \in 1 .. Len(p) /\ j \in 1 .. Len(p)
    BY <1>2, <1>7, <2>2 DEF IsPath
  <2>3. CASE i = Len(p) + 1 /\ j \in 1 .. Len(p)
    BY <1>2, <1>4, <1>7, <2>3
  <2>4. CASE j = Len(p) + 1 /\ i \in 1 .. Len(p)
    BY <1>2, <1>4, <1>7, <2>4
  <2> QED
    BY <2>1, <2>2, <2>3, <2>4
<1>8. IsPath(O, R, a, q)
  BY <1>2, <1>5, <1>6, <1>7 DEF IsPath
<1> QED
  BY <1>8 DEF q

(* A walk has paths only, and each as soon as its length allows.           *)
LEMMA WalkPaths ==
  ASSUME NEW O, NEW R, R \subseteq O \X O, NEW a \in O, NEW w, IsWalk(R, a, w)
  PROVE  \A n \in Nat : \A p \in w[n] :
           /\ IsPath(O, R, a, p)
           /\ Len(p) <= n + 1
           /\ p \in w[Len(p) - 1]
<1> DEFINE Fine(n, p) == IsPath(O, R, a, p) /\ Len(p) <= n + 1 /\ p \in w[Len(p) - 1]
           Bad == {n \in Nat : \E p \in w[n] : ~Fine(n, p)}
<1> SUFFICES ASSUME Bad # {} PROVE FALSE
  OBVIOUS
<1>1. PICK n \in Bad : \A j \in Bad : n =< j
  <2>1. Bad \subseteq Nat
    OBVIOUS
  <2> HIDE DEF Bad
  <2> QED
    BY <2>1, LeastNat
<1>2. PICK p \in w[n] : ~Fine(n, p)
  OBVIOUS
<1>3. n # 0
  <2> SUFFICES ASSUME n = 0 PROVE FALSE
    OBVIOUS
  <2> HIDE DEF Bad, Fine
  <2>1. p \in w[0] /\ w[0] = {<<a>>}
    BY WalkSteps
  <2>2. Len(p) = 1 /\ IsPath(O, R, a, p)
    <3>1. p = <<a>>
      BY <2>1
    <3>2. p \in Seq(O) /\ p # <<>> /\ Len(p) = 1 /\ p[1] = a
      BY <3>1
    <3> QED
      BY <3>2 DEF IsPath
  <2>3. Len(p) - 1 = 0 /\ 0 + 1 = 1
    BY <2>2
  <2> QED
    BY <1>2, <2>1, <2>2, <2>3 DEF Fine
<1>4. n \in Nat /\ n - 1 \in Nat /\ n - 1 \notin Bad
  <2>1. n \in Nat
    OBVIOUS
  <2> HIDE DEF Bad
  <2>2. n - 1 < n /\ n - 1 \in Nat
    BY <1>3, <2>1
  <2> QED
    BY <1>1, <2>1, <2>2
<1>5. \A q \in w[n - 1] : Fine(n - 1, q)
  BY <1>4
<1> HIDE DEF Bad
<1>6. w[n] = NextWalk(R, n, w[n - 1])
  <2>1. w[(n - 1) + 1] = NextWalk(R, (n - 1) + 1, w[n - 1]) /\ (n - 1) + 1 = n
    BY <1>4, WalkSteps
  <2> QED
    BY <2>1
<1>7. CASE p \in w[n - 1]
  BY <1>2, <1>4, <1>5, <1>7 DEF IsPath
<1>8. CASE p \notin w[n - 1]
  <2>1. p \in Longer(R, {q \in w[n - 1] : Len(q) = n})
    BY <1>2, <1>6, <1>8 DEF NextWalk
  <2>2. PICK q \in w[n - 1] : /\ Len(q) = n
                              /\ \E b \in DepsOn(R, Last(q)) \ ToSet(q) : p = Append(q, b)
    BY <2>1, LongerIff
  <2>3. PICK b : b \in DepsOn(R, Last(q)) /\ b \notin ToSet(q) /\ p = Append(q, b)
    BY <2>2
  <2>4. IsPath(O, R, a, q)
    BY <1>5
  <2>5. IsPath(O, R, a, p)
    BY <2>3, <2>4, DepsOnIff, PathExtends
  <2>6. Len(p) = n + 1
    BY <2>2, <2>3, <2>4 DEF IsPath
  <2> QED
    BY <1>2, <1>4, <2>5, <2>6
<1> QED
  BY <1>7, <1>8

(* A walk loses no path.                                                   *)
LEMMA WalkMonotone ==
  ASSUME NEW R, NEW a, NEW w, IsWalk(R, a, w), NEW m \in Nat
  PROVE  \A n \in Nat : m <= n => w[m] \subseteq w[n]
<1> DEFINE Bad == {n \in Nat : m <= n /\ ~(w[m] \subseteq w[n])}
<1> SUFFICES ASSUME Bad # {} PROVE FALSE
  OBVIOUS
<1>1. PICK n \in Bad : \A j \in Bad : n =< j
  <2>1. Bad \subseteq Nat
    OBVIOUS
  <2> HIDE DEF Bad
  <2> QED
    BY <2>1, LeastNat
<1>2. n \in Nat /\ m < n
  OBVIOUS
<1>3. n - 1 \in Nat /\ m <= n - 1 /\ n - 1 < n /\ (n - 1) + 1 = n
  BY <1>2
<1>4. n - 1 \notin Bad
  <2> HIDE DEF Bad
  <2> QED
    BY <1>1, <1>2, <1>3
<1>5. w[m] \subseteq w[n - 1]
  BY <1>3, <1>4
<1>6. w[n - 1] \subseteq w[n]
  <2> HIDE DEF Bad
  <2>1. w[(n - 1) + 1] = NextWalk(R, (n - 1) + 1, w[n - 1])
    BY <1>3, WalkSteps
  <2> QED
    BY <1>3, <2>1 DEF NextWalk
<1> QED
  BY <1>5, <1>6

(* A path that can go on is no longer than there are objects to go on from.*)
LEMMA PathFits ==
  ASSUME NEW O, IsFiniteSet(O), NEW R, R \subseteq O \X O, NEW a, NEW p, IsPath(O, R, a, p),
         NEW b, <<Last(p), b>> \in R
  PROVE  /\ Cardinality({d[1] : d \in R}) \in Nat
         /\ Len(p) <= Cardinality({d[1] : d \in R})
<1> DEFINE T == {d[1] : d \in R}
           S == 1 .. Len(p)
           f == [i \in S |-> p[i]]
<1>1. \A x, y : <<x, y>> \in R => x \in T
  OBVIOUS
<1>2. IsFiniteSet(T) /\ Cardinality(T) \in Nat
  <2>1. T \in SUBSET O
    OBVIOUS
  <2> HIDE DEF T
  <2> QED
    BY <2>1, FS_Subset, FS_CardinalityType
<1>3. Len(p) \in Nat /\ Len(p) >= 1
  BY DEF IsPath
<1>4. IsFiniteSet(S) /\ Cardinality(S) = Len(p)
  BY <1>3, FS_Interval
<1>5. f \in [S -> T]
  <2> SUFFICES ASSUME NEW i \in S PROVE p[i] \in T
    OBVIOUS
  <2> HIDE DEF T
  <2>1. CASE i = Len(p)
    BY <1>1, <2>1 DEF Last
  <2>2. CASE i # Len(p)
    <3>1. i \in 1 .. Len(p) - 1
      BY <1>3, <2>2
    <3> QED
      BY <1>1, <3>1 DEF IsPath
  <2> QED
    BY <2>1, <2>2
<1>6. \A i, j \in S : f[i] = f[j] => i = j
  BY DEF IsPath
<1>7. ~(Cardinality(T) < Cardinality(S))
  <2> HIDE DEF T, S, f
  <2> QED
    BY <1>2, <1>4, <1>5, <1>6, FS_PigeonHole
<1> QED
  BY <1>2, <1>3, <1>4, <1>7

(* What a visitor sees: paths, the shortest and, with a path, all longer   *)
(* ones.                                                                   *)
LEMMA VisitDepsPaths ==
  ASSUME NEW O, IsFiniteSet(O), NEW R, R \subseteq O \X O, NEW a \in O
  PROVE  /\ <<a>> \in VisitDeps(R, a)
         /\ \A p \in VisitDeps(R, a) : IsPath(O, R, a, p)
         /\ \A p \in VisitDeps(R, a) : \A b :
              <<Last(p), b>> \in R /\ b \notin ToSet(p) => Append(p, b) \in VisitDeps(R, a)
<1> DEFINE N == Cardinality({d[1] : d \in R})
<1>1. PICK w : IsWalk(R, a, w) /\ VisitDeps(R, a) = w[N]
  BY WalkExists, VisitDepsWalk
<1>2. N \in Nat
  <2>1. {d[1] : d \in R} \in SUBSET O
    OBVIOUS
  <2> QED
    BY <2>1, FS_Subset, FS_CardinalityType
<1> HIDE DEF N
<1>3. \A n \in Nat : \A p \in w[n] : /\ IsPath(O, R, a, p)
                                    /\ Len(p) <= n + 1
                                    /\ p \in w[Len(p) - 1]
  BY <1>1, WalkPaths
<1>4. \A m, n \in Nat : m <= n => w[m] \subseteq w[n]
  BY <1>1, WalkMonotone, Zenon
<1>5. w[0] = {<<a>>} /\ \A n \in Nat : w[n + 1] = NextWalk(R, n + 1, w[n])
  BY <1>1, WalkSteps
<1>6. ASSUME NEW p \in w[N], NEW b, <<Last(p), b>> \in R, b \notin ToSet(p)
      PROVE  Append(p, b) \in w[N]
  <2> DEFINE m == Len(p) - 1
  <2>1. IsPath(O, R, a, p) /\ p \in w[m]
    BY <1>2, <1>3
  <2>2. Len(p) <= N
    BY <1>6, <2>1, PathFits DEF N
  <2>3. m \in Nat /\ m + 1 = Len(p) /\ m + 1 \in Nat
    BY <2>1 DEF IsPath
  <2> HIDE DEF m
  <2>4. Append(p, b) \in Longer(R, {q \in w[m] : Len(q) = m + 1})
    <3>1. p \in {q \in w[m] : Len(q) = m + 1}
      BY <2>1, <2>3
    <3>2. b \in DepsOn(R, Last(p)) \ ToSet(p)
      BY <1>6, DepsOnIff
    <3> QED
      BY <3>1, <3>2, LongerIff
  <2>5. Append(p, b) \in w[m + 1]
    <3>1. w[m + 1] = NextWalk(R, m + 1, w[m])
      BY <1>5, <2>3
    <3> QED
      BY <2>4, <3>1 DEF NextWalk
  <2>6. w[m + 1] \subseteq w[N]
    BY <1>2, <1>4, <2>2, <2>3
  <2> QED
    BY <2>5, <2>6
<1>7. <<a>> \in w[N]
  BY <1>2, <1>4, <1>5
<1> QED
  BY <1>1, <1>2, <1>3, <1>6, <1>7

-----------------------------------------------------------------------------
(* What a walk finds.                                                      *)
(* On every path seen, each object depends on the last.                    *)
LEMMA DepsFromIff ==
  ASSUME NEW R, NEW a, NEW d
  PROVE  d \in DepsFrom(R, a) <=>
           \E p \in VisitDeps(R, a) : \E i \in 1 .. Len(p) - 1 : d = <<p[i], Last(p)>>
BY DEF DepsFrom

(* On a path, each object depends on all later ones.                       *)
LEMMA PathInClosure ==
  ASSUME NEW O, NEW R, R \subseteq O \X O, NEW a, NEW p, IsPath(O, R, a, p),
         NEW i \in 1 .. Len(p)
  PROVE  \A j \in 1 .. Len(p) : i < j => <<p[i], p[j]>> \in Closure(R)
<1> DEFINE Bad == {j \in 1 .. Len(p) : i < j /\ <<p[i], p[j]>> \notin Closure(R)}
<1> SUFFICES ASSUME Bad # {} PROVE FALSE
  OBVIOUS
<1>1. Len(p) \in Nat
  BY DEF IsPath
<1>2. PICK j \in Bad : \A k \in Bad : j =< k
  <2>1. Bad \subseteq Nat
    BY <1>1
  <2> HIDE DEF Bad
  <2> QED
    BY <2>1, LeastNat
<1>3. /\ j \in 1 .. Len(p) /\ i < j /\ <<p[i], p[j]>> \notin Closure(R)
      /\ j - 1 \in 1 .. Len(p) - 1 /\ j - 1 \in 1 .. Len(p) /\ (j - 1) + 1 = j /\ j - 1 < j
  BY <1>1
<1>4. <<p[j - 1], p[j]>> \in R
  BY <1>3 DEF IsPath
<1>5. CASE j - 1 = i
  BY <1>3, <1>4, <1>5, ClosureFacts
<1>6. CASE j - 1 # i
  <2>1. i < j - 1
    BY <1>1, <1>3, <1>6
  <2>2. j - 1 \notin Bad
    <3> HIDE DEF Bad
    <3> QED
      BY <1>1, <1>2, <1>3
  <2>3. <<p[i], p[j - 1]>> \in Closure(R)
    BY <1>3, <2>1, <2>2
  <2> QED
    BY <1>3, <1>4, <2>3, ClosureFacts
<1> QED
  BY <1>5, <1>6

(* A walk finds only what is in the closure, for "a" and what it depends   *)
(* on.                                                                     *)
LEMMA DepsFromSound ==
  ASSUME NEW O, IsFiniteSet(O), NEW R, R \subseteq O \X O, NEW a \in O
  PROVE  /\ DepsFrom(R, a) \subseteq Closure(R)
         /\ \A d \in DepsFrom(R, a) : d[1] = a \/ <<a, d[1]>> \in Closure(R)
<1> SUFFICES ASSUME NEW d \in DepsFrom(R, a)
             PROVE  d \in Closure(R) /\ (d[1] = a \/ <<a, d[1]>> \in Closure(R))
  OBVIOUS
<1>1. PICK p \in VisitDeps(R, a) : \E i \in 1 .. Len(p) - 1 : d = <<p[i], Last(p)>>
  BY DepsFromIff
<1>2. PICK i \in 1 .. Len(p) - 1 : d = <<p[i], Last(p)>>
  BY <1>1
<1>3. IsPath(O, R, a, p)
  BY VisitDepsPaths
<1>4. /\ Len(p) \in Nat /\ p[1] = a /\ Last(p) = p[Len(p)]
      /\ i \in 1 .. Len(p) /\ Len(p) \in 1 .. Len(p) /\ i < Len(p) /\ 1 \in 1 .. Len(p)
  BY <1>2, <1>3 DEF IsPath, Last
<1>5. d \in Closure(R)
  BY <1>2, <1>3, <1>4, PathInClosure
<1>6. i = 1 \/ <<p[1], p[i]>> \in Closure(R)
  BY <1>3, <1>4, PathInClosure
<1> QED
  BY <1>2, <1>4, <1>5, <1>6

(* Without cycles a path can follow every dependency.                      *)
LEMMA AcyclicExtends ==
  ASSUME NEW O, IsFiniteSet(O), NEW R, R \subseteq O \X O, NEW a \in O, Acyclic(R),
         NEW p \in VisitDeps(R, a), NEW b, <<Last(p), b>> \in R
  PROVE  Append(p, b) \in VisitDeps(R, a)
<1>1. IsPath(O, R, a, p)
  BY VisitDepsPaths
<1>2. b \notin ToSet(p)
  <2> SUFFICES ASSUME b \in ToSet(p) PROVE FALSE
    OBVIOUS
  <2>1. Len(p) \in Nat /\ p # <<>> /\ Len(p) \in 1 .. Len(p) /\ Last(p) = p[Len(p)]
    BY <1>1 DEF IsPath, Last
  <2>2. PICK i \in 1 .. Len(p) : b = p[i]
    BY <1>1 DEF ToSet, IsPath
  <2>3. <<b, b>> \in Closure(R)
    <3>1. CASE i = Len(p)
      BY <2>1, <2>2, <3>1, ClosureFacts
    <3>2. CASE i # Len(p)
      <4>1. <<p[i], p[Len(p)]>> \in Closure(R)
        BY <1>1, <2>1, <3>2, PathInClosure
      <4> QED
        BY <2>1, <2>2, <4>1, ClosureFacts
    <3> QED
      BY <3>1, <3>2
  <2> QED
    BY <2>3 DEF Acyclic
<1> QED
  BY <1>2, VisitDepsPaths

(* The end of a path, and of a path that goes on.                          *)
LEMMA PathsEnd ==
  ASSUME NEW O, NEW R, R \subseteq O \X O, NEW a, NEW p, IsPath(O, R, a, p)
  PROVE  /\ Last(p) \in O /\ Len(p) \in Nat /\ Len(p) >= 1 /\ Last(p) = p[Len(p)]
         /\ \A b \in O : /\ Len(Append(p, b)) = Len(p) + 1
                         /\ Last(Append(p, b)) = b
                         /\ \A i \in 1 .. Len(p) : Append(p, b)[i] = p[i]
BY DEF IsPath, Last

(* Without cycles a walk finds the whole closure of "a" and of everything  *)
(* it depends on.                                                          *)
LEMMA DepsFromWhole ==
  ASSUME NEW O, IsFiniteSet(O), NEW R, R \subseteq O \X O, NEW a \in O, Acyclic(R),
         NEW x, x = a \/ <<a, x>> \in Closure(R), NEW y, <<x, y>> \in Closure(R)
  PROVE  <<x, y>> \in DepsFrom(R, a)
<1> DEFINE P == VisitDeps(R, a)
           Ends == {z \in O : \E p \in P : Last(p) = z}
<1>1. /\ <<a>> \in P
      /\ \A p \in P : IsPath(O, R, a, p)
      /\ \A p \in P : \A b : <<Last(p), b>> \in R => Append(p, b) \in P
  BY VisitDepsPaths, AcyclicExtends
<1> HIDE DEF P
<1>2. /\ Last(<<a>>) = a
      /\ \A b : <<a, b>> \in R => <<Last(<<a>>), b>> \in R
  BY DEF Last
<1>3. PICK p \in P : Last(p) = x
  <2>1. CASE x = a
    BY <1>1, <1>2, <2>1
  <2>2. CASE <<a, x>> \in Closure(R)
    <3>1. ASSUME NEW q \in P, NEW z \in O, <<Last(q), z>> \in R PROVE z \in Ends
      BY <1>1, <3>1, PathsEnd
    <3>2. ClosedFrom(R, a, Ends)
      <4>1. \A z \in O : <<a, z>> \in R => z \in Ends
        <5> HIDE DEF Ends
        <5> QED
          BY <1>1, <1>2, <3>1
      <4>2. \A v \in Ends, z \in O : <<v, z>> \in R => z \in Ends
        <5>1. \A v \in Ends : \E q \in P : Last(q) = v
          OBVIOUS
        <5> HIDE DEF Ends
        <5> QED
          BY <3>1, <5>1
      <4> HIDE DEF Ends
      <4> QED
        BY <4>1, <4>2, ClosedFromIff
    <3>3. x \in Ends
      <4> HIDE DEF Ends
      <4> QED
        BY <2>2, <3>2, ClosureInduction
    <3> QED
      BY <3>3
  <2> QED
    BY <2>1, <2>2
<1> DEFINE m == Len(p)
           Through == {z \in O : \E q \in P : m < Len(q) /\ q[m] = x /\ Last(q) = z}
<1>4. IsPath(O, R, a, p) /\ m \in Nat /\ m >= 1 /\ p[m] = x
  <2>1. IsPath(O, R, a, p)
    BY <1>1
  <2>2. Len(p) \in Nat /\ Len(p) >= 1 /\ Last(p) = p[Len(p)]
    BY <2>1 DEF IsPath, Last
  <2> QED
    BY <1>3, <2>1, <2>2
<1> HIDE DEF m
<1>5. ASSUME NEW q \in P, m <= Len(q), q[m] = x, NEW z \in O, <<Last(q), z>> \in R
      PROVE  z \in Through
  <2>1. Append(q, z) \in P /\ IsPath(O, R, a, q)
    BY <1>1, <1>5
  <2>2. Len(q) \in Nat /\ Len(Append(q, z)) = Len(q) + 1 /\ Last(Append(q, z)) = z
    BY <2>1, PathsEnd
  <2>3. Append(q, z)[m] = x
    <3>1. m \in 1 .. Len(q)
      BY <1>4, <1>5, <2>2
    <3> QED
      BY <1>5, <2>1, <3>1, PathsEnd
  <2>4. m < Len(Append(q, z))
    BY <1>4, <1>5, <2>2
  <2> QED
    BY <2>1, <2>2, <2>3, <2>4
<1>6. ClosedFrom(R, x, Through)
  <2>1. \A z \in O : <<x, z>> \in R => z \in Through
    <3>1. m <= Len(p)
      BY <1>4 DEF m
    <3> HIDE DEF Through
    <3> QED
      BY <1>3, <1>4, <1>5, <3>1
  <2>2. \A v \in Through, z \in O : <<v, z>> \in R => z \in Through
    <3>1. \A v \in Through : \E q \in P : m < Len(q) /\ q[m] = x /\ Last(q) = v
      OBVIOUS
    <3>2. \A q \in P : m < Len(q) => m <= Len(q)
      BY <1>1, <1>4, PathsEnd
    <3> HIDE DEF Through
    <3> QED
      BY <1>5, <3>1, <3>2
  <2> HIDE DEF Through
  <2> QED
    BY <2>1, <2>2, ClosedFromIff
<1>7. y \in Through
  <2> HIDE DEF Through
  <2> QED
    BY <1>6, ClosureInduction
<1>8. PICK q \in P : m < Len(q) /\ q[m] = x /\ Last(q) = y
  BY <1>7
<1>9. m \in 1 .. Len(q) - 1
  BY <1>1, <1>4, <1>8, PathsEnd
<1> QED
  BY <1>8, <1>9, DepsFromIff DEF P

(* If no lot holds two objects one of which depends on the other, lots     *)
(* that gather objects inherit even their indirect dependencies.           *)
LEMMA ClosureInherited ==
  ASSUME NEW O, NEW R, R \subseteq O \X O, NEW lots, NEW h,
         \A x \in O : h[x] \in DOMAIN lots /\ x \in lots[h[x]],
         \A k \in DOMAIN lots : \A x, y \in lots[k] : <<x, y>> \notin Closure(R),
         NEW a \in O, NEW b \in O, <<a, b>> \in Closure(R)
  PROVE  <<h[a], h[b]>> \in Closure(InheritDeps(lots, R))
<1> DEFINE up == InheritDeps(lots, R)
           D  == DOMAIN lots
           S  == {y \in O : <<h[a], h[y]>> \in Closure(up)}
<1>1. up \subseteq D \X D
  BY DEF InheritDeps
<1>2. ASSUME NEW x \in O, NEW y \in O, <<x, y>> \in R PROVE <<h[x], h[y]>> \in up
  <2>1. <<x, y>> \in Closure(R)
    BY <1>2, ClosureFacts
  <2>2. h[x] # h[y] /\ h[x] \in D /\ h[y] \in D
    BY <2>1
  <2>3. x \in lots[h[x]] /\ y \in lots[h[y]]
    OBVIOUS
  <2>4. <<h[x], h[y]>> \in D \X D
    BY <2>2
  <2> QED
    BY <1>2, <2>2, <2>3, <2>4 DEF InheritDeps
<1> HIDE DEF up, D
<1>3. \A y \in O : <<a, y>> \in R => y \in S
  BY <1>1, <1>2, ClosureFacts
<1>4. \A x \in S, y \in O : <<x, y>> \in R => y \in S
  <2> SUFFICES ASSUME NEW x \in S, NEW y \in O, <<x, y>> \in R
               PROVE  <<h[a], h[y]>> \in Closure(up)
    OBVIOUS
  <2>1. <<h[a], h[x]>> \in Closure(up) /\ <<h[x], h[y]>> \in up
    BY <1>2
  <2> QED
    BY <1>1, <2>1, ClosureFacts
<1>5. ClosedFrom(R, a, S)
  <2> HIDE DEF S
  <2> QED
    BY <1>3, <1>4, ClosedFromIff
<1>6. b \in S
  <2> HIDE DEF S
  <2> QED
    BY <1>5, ClosureInduction
<1> QED
  BY <1>6 DEF up

(* Without cycles, one walk of find_all_deps() finds exactly what "a", and *)
(* everything "a" depends on, depend on directly or indirectly: an object  *)
(* it has been through need not be walked from again.                      *)
THEOREM WalkFindsClosure ==
  ASSUME NEW O, IsFiniteSet(O), NEW R, R \subseteq O \X O, NEW a \in O, Acyclic(R)
  PROVE  DepsFrom(R, a) = {d \in Closure(R) : d[1] = a \/ <<a, d[1]>> \in Closure(R)}
<1>1. \A d \in DepsFrom(R, a) : d \in Closure(R) /\ (d[1] = a \/ <<a, d[1]>> \in Closure(R))
  BY DepsFromSound
<1>2. ASSUME NEW d \in Closure(R), d[1] = a \/ <<a, d[1]>> \in Closure(R)
      PROVE  d \in DepsFrom(R, a)
  <2>1. Closure(R) \subseteq O \X O
    BY ClosureFacts
  <2>2. d = <<d[1], d[2]>>
    BY <2>1
  <2>3. <<d[1], d[2]>> \in DepsFrom(R, a)
    BY <1>2, <2>2, DepsFromWhole
  <2> QED
    BY <2>2, <2>3
<1> QED
  BY <1>1, <1>2

-----------------------------------------------------------------------------
(* The state of the compiler.                                              *)
Lots == {"eqs", "bundles"}

TypeOK ==
  /\ prog \in Programs
  /\ level \in Levels /\ phase \in Phases
  /\ order \in [Levels -> Seq(Nat)]
  /\ items \in [Levels -> Seq(SUBSET Nat)]
  /\ full = [l \in Levels |-> full[l]]
  /\ posn \in Nat \ {0}
  /\ phase = "group" => todo \subseteq DOMAIN order[level]

(* Which phases a group goes through.                                      *)
Control ==
  /\ phase = "analyze" => level = "eqs"
  /\ phase = "group" => level \in Lots
  /\ phase = "done" => level = "packs"

(* While a group is sorted, the part before posn is in order.              *)
SortedSoFar == phase = "sort" => InOrderUpTo(level, posn)

(* A group is not put into lots before it is sorted.                       *)
NotGroupedYet ==
  \A l \in Lots :
    \/ GroupNum[l] > GroupNum[level]
    \/ l = level /\ phase \in {"analyze", "close", "sort"}
    => items[Coarser[l]] = <<>>

(* No equation of a bundle, and no bundle of a pack, has been found to     *)
(* depend on another one in it.                                            *)
NoneFound(l, lots) ==
  \A k \in DOMAIN lots : \A x, y \in lots[k] : x # y => <<x, y>> \notin full[l]
LotsIndependentAsFound == \A l \in Lots : NoneFound(l, items[Coarser[l]])

IInv == /\ TypeOK
        /\ Control
        /\ SortedSoFar
        /\ SortedAsFound
        /\ NotGroupedYet
        /\ LotsIndependentAsFound

-----------------------------------------------------------------------------
(* Nothing is in order yet, and there is no lot.                           *)
LEMMA InitIInv == Init => IInv
<1> SUFFICES ASSUME Init PROVE IInv
  OBVIOUS
<1> USE DEF Init
<1>1. TypeOK
  BY DEF TypeOK, Levels, Phases
<1>2. Control /\ SortedSoFar
  BY DEF Control, SortedSoFar
<1>3. SortedAsFound
  BY DEF SortedAsFound, OrderSettled, GroupNum, Levels
<1>4. NotGroupedYet /\ LotsIndependentAsFound
  BY DEF NotGroupedYet, LotsIndependentAsFound, NoneFound, Coarser, Lots, Levels
<1> QED
  BY <1>1, <1>2, <1>3, <1>4 DEF IInv

(* The analysis puts the equations in the order they were written in.      *)
LEMMA AnalyzeEqsIInv == IInv /\ AnalyzeEqs => IInv'
<1> SUFFICES ASSUME IInv, AnalyzeEqs PROVE IInv'
  OBVIOUS
<1> USE DEF IInv, AnalyzeEqs
<1>1. level = "eqs"
  BY DEF Control
<1>2. [e \in Eqs |-> e] \in Seq(Nat)
  <2>1. prog.lhs \in Seq(Vars)
    BY ProgramsOK DEF TypeOK
  <2>2. Eqs = 1 .. Len(prog.lhs) /\ Len(prog.lhs) \in Nat
    BY <2>1 DEF Eqs
  <2> QED
    BY <2>2
<1>3. TypeOK'
  BY <1>2 DEF TypeOK, Levels, Phases
<1>4. Control' /\ SortedSoFar'
  BY DEF Control, SortedSoFar
<1>5. SortedAsFound'
  BY <1>1 DEF SortedAsFound, OrderSettled, GroupNum, Levels
<1>6. NotGroupedYet' /\ LotsIndependentAsFound'
  BY DEF NotGroupedYet, LotsIndependentAsFound, NoneFound, Lots
<1> QED
  BY <1>3, <1>4, <1>5, <1>6

(* A walk only adds dependencies of a group that has no order or lots yet. *)
LEMMA FindDepsFromIInv ==
  ASSUME NEW a, IInv, FindDepsFrom(a) PROVE IInv'
<1> USE DEF IInv, FindDepsFrom
<1>1. \A l \in Levels : l # level => full'[l] = full[l]
  BY DEF TypeOK
<1>2. TypeOK'
  BY DEF TypeOK
<1>3. Control' /\ SortedSoFar' /\ NotGroupedYet'
  BY DEF Control, SortedSoFar, NotGroupedYet
<1>4. SortedAsFound'
  <2> SUFFICES ASSUME NEW l \in Levels, OrderSettled(l)'
               PROVE  InOrderUpTo(l, Len(order[l]))'
    BY DEF SortedAsFound
  <2>1. l # level /\ OrderSettled(l)
    BY DEF OrderSettled, GroupNum, TypeOK, Levels
  <2> QED
    BY <1>1, <2>1 DEF SortedAsFound, InOrderUpTo
<1>5. LotsIndependentAsFound'
  <2> SUFFICES ASSUME NEW l \in Lots PROVE NoneFound(l, items[Coarser[l]])'
    BY DEF LotsIndependentAsFound
  <2>1. CASE l = level
    BY <2>1 DEF NotGroupedYet, NoneFound
  <2>2. CASE l # level
    BY <1>1, <2>2 DEF LotsIndependentAsFound, NoneFound, Lots, Levels
  <2> QED
    BY <2>1, <2>2
<1> QED
  BY <1>2, <1>3, <1>4, <1>5

(* Nothing of what stands before position 1 is out of order.               *)
LEMMA EndFindDepsIInv == IInv /\ EndFindDeps => IInv'
<1> SUFFICES ASSUME IInv, EndFindDeps PROVE IInv'
  OBVIOUS
<1> USE DEF IInv, EndFindDeps
<1>1. TypeOK'
  BY DEF TypeOK, Phases
<1>2. SortedSoFar'
  BY DEF SortedSoFar, InOrderUpTo, TypeOK
<1>3. Control' /\ NotGroupedYet' /\ LotsIndependentAsFound'
  BY DEF Control, NotGroupedYet, LotsIndependentAsFound, NoneFound
<1>4. SortedAsFound'
  BY DEF SortedAsFound, OrderSettled, InOrderUpTo
<1> QED
  BY <1>1, <1>2, <1>3, <1>4

(* A swap brings something forward, to a position no later than posn, from *)
(* among what is in order with everything before posn.                     *)
LEMMA SwapLaterIInv == IInv /\ SwapLater => IInv'
<1> SUFFICES ASSUME IInv, SwapLater PROVE IInv'
  OBVIOUS
<1> DEFINE s == order[level]
           j == Min(LaterDeps)
           t == Swap(s, posn, j)
<1>1. level \in Levels /\ s \in Seq(Nat) /\ posn \in 1 .. Len(s) /\ phase = "sort"
  BY DEF IInv, TypeOK, SwapLater, Sorting
<1>2. j \in posn + 1 .. Len(s)
  <2>1. LaterDeps \subseteq Nat /\ LaterDeps # {}
    BY <1>1 DEF LaterDeps, SwapLater
  <2> QED
    BY <2>1, MinIsMember DEF LaterDeps
<1>3. order' = [order EXCEPT ![level] = t]
  BY DEF SwapLater
<1>4. /\ t \in Seq(Nat) /\ DOMAIN t = 1 .. Len(s)
      /\ t[posn] = s[j] /\ t[j] = s[posn]
      /\ \A k \in 1 .. Len(s) : k \notin {posn, j} => t[k] = s[k]
  <2> HIDE DEF j, s
  <2>1. j \in 1 .. Len(s) /\ posn # j
    BY <1>1, <1>2
  <2> QED
    BY <1>1, <2>1, SwapEntries
<1>5. /\ order' \in [Levels -> Seq(Nat)]
      /\ order'[level] = t
      /\ \A l \in Levels : l # level => order'[l] = order[l]
  <2> HIDE DEF t
  <2> QED
    BY <1>1, <1>3, <1>4 DEF IInv, TypeOK
<1>6. UNCHANGED <<prog, phase, level, items, full, posn>>
  BY DEF SwapLater
<1>7. TypeOK'
  BY <1>1, <1>5, <1>6 DEF IInv, TypeOK
<1>8. Control' /\ NotGroupedYet' /\ LotsIndependentAsFound'
  BY <1>6 DEF IInv, Control, NotGroupedYet, LotsIndependentAsFound, NoneFound
<1>9. SortedSoFar'
  <2>1. InOrderUpTo(level, posn)
    BY <1>1 DEF IInv, SortedSoFar
  <2>2. ASSUME NEW i \in 1 .. Len(s), NEW k \in 1 .. Len(s), i < k, i < posn
        PROVE  <<t[i], t[k]>> \notin full[level]
    <3> DEFINE m == IF k = posn THEN j ELSE IF k = j THEN posn ELSE k
    <3> HIDE DEF j, t, s
    <3>1. /\ Len(s) \in Nat /\ i \in Nat /\ k \in Nat /\ posn \in Nat /\ j \in Nat
          /\ posn < j
      BY <1>1, <1>2
    <3>2. t[i] = s[i]
      BY <1>4, <2>2, <3>1
    <3>3. t[k] = s[m]
      BY <1>4
    <3>4. m \in 1 .. Len(s) /\ i < m
      BY <1>1, <1>2, <2>2, <3>1
    <3>5. \A n \in 1 .. Len(s) : i < n => <<s[i], s[n]>> \notin full[level]
      <4>1. DOMAIN order[level] = 1 .. Len(s)
        BY <1>1 DEF s
      <4> QED
        BY <2>1, <2>2, <4>1, Zenon DEF InOrderUpTo, s
    <3> HIDE DEF m
    <3> QED
      BY <3>2, <3>3, <3>4, <3>5
  <2> QED
    BY <1>4, <1>5, <1>6, <2>2 DEF SortedSoFar, InOrderUpTo
<1>10. SortedAsFound'
  <2> SUFFICES ASSUME NEW l \in Levels, OrderSettled(l)'
               PROVE  InOrderUpTo(l, Len(order[l]))'
    BY DEF SortedAsFound
  <2>1. l # level /\ OrderSettled(l)
    BY <1>1, <1>6 DEF OrderSettled, GroupNum, Levels
  <2> QED
    BY <1>5, <1>6, <2>1 DEF IInv, SortedAsFound, InOrderUpTo
<1> QED
  BY <1>7, <1>8, <1>9, <1>10 DEF IInv

(* The sort goes on only when nothing later is needed at posn.             *)
LEMMA NextPosnIInv == IInv /\ NextPosn => IInv'
<1> SUFFICES ASSUME IInv, NextPosn PROVE IInv'
  OBVIOUS
<1> USE DEF IInv, NextPosn
<1>1. TypeOK'
  BY DEF TypeOK
<1>2. SortedSoFar'
  <2>1. order[level] \in Seq(Nat) /\ posn \in Nat /\ phase = "sort"
    BY DEF TypeOK, Sorting
  <2>2. ASSUME NEW i \in DOMAIN order[level], NEW k \in DOMAIN order[level],
               i < k, i < posn + 1
        PROVE  <<order[level][i], order[level][k]>> \notin full[level]
    <3>1. i \in Nat /\ k \in 1 .. Len(order[level])
      BY <2>1
    <3>2. CASE i = posn
      BY <2>1, <2>2, <3>1, <3>2 DEF LaterDeps
    <3>3. CASE i < posn
      BY <2>1, <2>2, <3>3 DEF SortedSoFar, InOrderUpTo
    <3> QED
      BY <2>1, <2>2, <3>1, <3>2, <3>3
  <2> QED
    BY <2>2 DEF SortedSoFar, InOrderUpTo
<1>3. Control' /\ NotGroupedYet' /\ LotsIndependentAsFound'
  BY DEF Control, NotGroupedYet, LotsIndependentAsFound, NoneFound
<1>4. SortedAsFound'
  BY DEF SortedAsFound, OrderSettled, InOrderUpTo
<1> QED
  BY <1>1, <1>2, <1>3, <1>4

(* When posn reaches the last object the whole group is in order.          *)
LEMMA WholeGroupInOrder ==
  ASSUME IInv, Sorted PROVE InOrderUpTo(level, Len(order[level]))
<1>1. /\ order[level] \in Seq(Nat) /\ posn \in Nat /\ posn >= Len(order[level])
      /\ InOrderUpTo(level, posn)
  BY DEF IInv, TypeOK, Sorted, SortedSoFar
<1> QED
  BY <1>1 DEF InOrderUpTo

(* The end of a sort settles the order of its group.                       *)
LEMMA SortEndsIInv ==
  ASSUME IInv, StartBundles \/ StartPacks \/ Finish PROVE IInv'
<1>1. /\ Sorted /\ phase' \in {"group", "done"}
      /\ UNCHANGED <<prog, level, order, items, full, posn>>
  BY DEF StartBundles, StartPacks, Finish
<1>2. TypeOK' /\ Control'
  BY <1>1 DEF IInv, TypeOK, Control, StartBundles, StartPacks, Finish, Lots, Phases
<1>3. SortedSoFar' /\ NotGroupedYet' /\ LotsIndependentAsFound'
  BY <1>1 DEF IInv, SortedSoFar, NotGroupedYet, LotsIndependentAsFound, NoneFound, Sorted
<1>4. SortedAsFound'
  <2> SUFFICES ASSUME NEW l \in Levels, OrderSettled(l)'
               PROVE  InOrderUpTo(l, Len(order[l]))'
    BY DEF SortedAsFound
  <2>1. CASE l = level
    BY <1>1, <2>1, WholeGroupInOrder DEF InOrderUpTo
  <2>2. CASE l # level
    BY <1>1, <2>2 DEF IInv, SortedAsFound, OrderSettled, InOrderUpTo
  <2> QED
    BY <2>1, <2>2
<1> QED
  BY <1>2, <1>3, <1>4 DEF IInv

(* Compilation stops with an error before anything else is done.           *)
LEMMA ErrorIInv == IInv /\ (RejectEqs \/ CircularError) => IInv'
<1> SUFFICES ASSUME IInv, RejectEqs \/ CircularError PROVE IInv'
  OBVIOUS
<1>1. /\ phase \in {"analyze", "sort"} /\ phase' = "error"
      /\ UNCHANGED <<prog, level, order, items, full, posn>>
  BY DEF RejectEqs, CircularError, Sorting
<1>2. TypeOK' /\ Control' /\ SortedSoFar'
  BY <1>1 DEF IInv, TypeOK, Control, SortedSoFar, Phases
<1>3. NotGroupedYet' /\ LotsIndependentAsFound'
  BY <1>1 DEF IInv, NotGroupedYet, LotsIndependentAsFound, NoneFound
<1>4. SortedAsFound'
  BY <1>1 DEF IInv, SortedAsFound, OrderSettled, InOrderUpTo
<1> QED
  BY <1>2, <1>3, <1>4 DEF IInv

(* One lot, new or among the takers, gets x; the others stay as they are.  *)
OneGets(new, lots, takers, x) ==
  \E k \in DOMAIN new :
    /\ \/ new[k] = {x} /\ k \notin DOMAIN lots
       \/ k \in takers /\ new[k] = lots[k] \cup {x}
    /\ \A i \in DOMAIN new : i # k => i \in DOMAIN lots /\ new[i] = lots[i]

LEMMA AddToShape ==
  ASSUME NEW lots \in Seq(SUBSET Nat), NEW takers, takers \subseteq DOMAIN lots,
         NEW x \in Nat
  PROVE  /\ AddTo(lots, takers, x) \in Seq(SUBSET Nat)
         /\ DOMAIN lots \subseteq DOMAIN AddTo(lots, takers, x)
         /\ OneGets(AddTo(lots, takers, x), lots, takers, x)
<1> DEFINE new == AddTo(lots, takers, x)
<1>1. CASE takers = {}
  <2>1. new = Append(lots, {x})
    BY <1>1 DEF AddTo
  <2> DEFINE k == Len(lots) + 1
  <2>2. /\ new \in Seq(SUBSET Nat) /\ DOMAIN lots \subseteq DOMAIN new
        /\ k \in DOMAIN new /\ k \notin DOMAIN lots /\ new[k] = {x}
        /\ \A i \in DOMAIN new : i # k => i \in DOMAIN lots /\ new[i] = lots[i]
    BY <2>1
  <2> HIDE DEF k, new
  <2>3. OneGets(new, lots, takers, x)
    BY <2>2 DEF OneGets
  <2> QED
    BY <2>2, <2>3 DEF new
<1>2. CASE takers # {}
  <2> DEFINE k == Min(takers)
  <2>1. k \in takers
    BY <1>2, MinIsMember
  <2>2. new = [lots EXCEPT ![k] = lots[k] \cup {x}]
    BY <1>2 DEF AddTo
  <2> HIDE DEF k
  <2>3. lots \in [1 .. Len(lots) -> SUBSET Nat] /\ Len(lots) \in Nat
    OBVIOUS
  <2> HIDE DEF new
  <2>4. new \in [1 .. Len(lots) -> SUBSET Nat]
    BY <2>1, <2>2, <2>3
  <2>5. /\ new \in Seq(SUBSET Nat) /\ DOMAIN new = DOMAIN lots
        /\ new[k] = lots[k] \cup {x}
        /\ \A i \in DOMAIN lots : i # k => new[i] = lots[i]
    BY <2>1, <2>2, <2>3, <2>4
  <2>6. OneGets(new, lots, takers, x)
    BY <2>1, <2>5 DEF OneGets
  <2> QED
    BY <2>5, <2>6 DEF new
<1> QED
  BY <1>1, <1>2

(* A lot stays free of dependencies when it takes something independent.   *)
LEMMA AddToKeepsIndependence ==
  ASSUME NEW l, NEW lots \in Seq(SUBSET Nat), NEW takers, takers \subseteq DOMAIN lots,
         NEW x \in Nat, NoneFound(l, lots),
         \A k \in takers : Independent(l, x, lots[k])
  PROVE  AddTo(lots, takers, x) \in Seq(SUBSET Nat) /\ NoneFound(l, AddTo(lots, takers, x))
<1> DEFINE new == AddTo(lots, takers, x)
<1>1. new \in Seq(SUBSET Nat) /\ OneGets(new, lots, takers, x)
  BY AddToShape
<1> HIDE DEF new
<1>2. PICK k \in DOMAIN new :
        /\ \/ new[k] = {x} /\ k \notin DOMAIN lots
           \/ k \in takers /\ new[k] = lots[k] \cup {x}
        /\ \A i \in DOMAIN new : i # k => i \in DOMAIN lots /\ new[i] = lots[i]
  BY <1>1 DEF OneGets
<1>3. ASSUME NEW a \in new[k], NEW b \in new[k], a # b PROVE <<a, b>> \notin full[l]
  <2>1. CASE new[k] = {x}
    BY <1>3, <2>1
  <2>2. CASE k \in takers /\ new[k] = lots[k] \cup {x}
    BY <1>3, <2>2 DEF NoneFound, Independent
  <2> QED
    BY <1>2, <2>1, <2>2
<1>4. NoneFound(l, new)
  BY <1>2, <1>3 DEF NoneFound
<1> QED
  BY <1>1, <1>4 DEF new

(* The object that goes to a lot next stands at a place still to do.       *)
LEMMA NextPlaceToDo ==
  ASSUME IInv, phase = "group", todo # {}
  PROVE  NextPlace \in todo
<1> DEFINE scratch == {i \in todo : level = "eqs" /\ IsScratchEq(order["eqs"][i])}
<1>1. todo \subseteq Nat
  BY DEF IInv, TypeOK
<1>2. CASE scratch = {}
  BY <1>1, <1>2, MinIsMember DEF NextPlace
<1>3. CASE scratch # {}
  <2>1. scratch \subseteq Nat
    BY <1>1
  <2>2. Min(scratch) \in scratch
    <3> HIDE DEF scratch
    <3> QED
      BY <1>3, <2>1, MinIsMember
  <2> QED
    BY <1>3, <2>2 DEF NextPlace
<1> QED
  BY <1>2, <1>3

(* What is put into a lot next is an object of the group.                  *)
LEMMA NextIsObject ==
  ASSUME IInv, phase = "group", todo # {}
  PROVE  order[level][NextPlace] \in Nat
<1>1. order[level] \in Seq(Nat) /\ todo \subseteq DOMAIN order[level]
  BY DEF IInv, TypeOK
<1> QED
  BY <1>1, NextPlaceToDo

(* An equation goes to a bundle that it is independent of.                 *)
LEMMA AddEqToBundleIInv == IInv /\ AddEqToBundle => IInv'
<1> SUFFICES ASSUME IInv, AddEqToBundle PROVE IInv'
  OBVIOUS
<1> DEFINE lots == items["bundles"]
           new == AddTo(lots, BundlesFor(NextEq), NextEq)
<1>1. /\ phase = "group" /\ level = "eqs" /\ todo' \subseteq todo
      /\ UNCHANGED <<prog, phase, level, order, full, posn>>
      /\ items' = [items EXCEPT !["bundles"] = new]
  BY DEF AddEqToBundle
<1>2. NextEq \in Nat
  BY <1>1, NextIsObject DEF NextEq, AddEqToBundle
<1>3. lots \in Seq(SUBSET Nat) /\ NoneFound("eqs", lots)
  BY DEF IInv, TypeOK, LotsIndependentAsFound, Lots, Levels, Coarser
<1>4. /\ BundlesFor(NextEq) \subseteq DOMAIN lots
      /\ \A k \in BundlesFor(NextEq) : Independent("eqs", NextEq, lots[k])
  BY DEF BundlesFor, BundleTakes
<1>5. new \in Seq(SUBSET Nat) /\ NoneFound("eqs", new)
  <2> HIDE DEF lots
  <2> QED
    BY <1>2, <1>3, <1>4, AddToKeepsIndependence
<1>6. /\ items' \in [Levels -> Seq(SUBSET Nat)]
      /\ items'["bundles"] = new /\ items'["packs"] = items["packs"]
  <2> HIDE DEF new
  <2> QED
    BY <1>1, <1>5 DEF IInv, TypeOK, Levels
<1>7. TypeOK' /\ Control' /\ SortedSoFar'
  BY <1>1, <1>6 DEF IInv, TypeOK, Control, SortedSoFar
<1>8. SortedAsFound'
  BY <1>1 DEF IInv, SortedAsFound, OrderSettled, InOrderUpTo
<1>9. NotGroupedYet'
  BY <1>1, <1>6 DEF IInv, NotGroupedYet, GroupNum, Lots, Coarser
<1>10. LotsIndependentAsFound'
  BY <1>1, <1>5, <1>6 DEF IInv, LotsIndependentAsFound, NoneFound, Lots, Coarser
<1> QED
  BY <1>7, <1>8, <1>9, <1>10 DEF IInv

(* A bundle goes to a pack that it is independent of.                      *)
LEMMA AddBundleToPackIInv == IInv /\ AddBundleToPack => IInv'
<1> SUFFICES ASSUME IInv, AddBundleToPack PROVE IInv'
  OBVIOUS
<1> DEFINE lots == items["packs"]
           new == AddTo(lots, PacksFor(NextBundle), NextBundle)
<1>1. /\ phase = "group" /\ level = "bundles" /\ todo' \subseteq todo
      /\ UNCHANGED <<prog, phase, level, order, full, posn>>
      /\ items' = [items EXCEPT !["packs"] = new]
  BY DEF AddBundleToPack
<1>2. NextBundle \in Nat
  BY <1>1, NextIsObject DEF NextBundle, AddBundleToPack
<1>3. lots \in Seq(SUBSET Nat) /\ NoneFound("bundles", lots)
  BY DEF IInv, TypeOK, LotsIndependentAsFound, Lots, Levels, Coarser
<1>4. /\ PacksFor(NextBundle) \subseteq DOMAIN lots
      /\ \A k \in PacksFor(NextBundle) : Independent("bundles", NextBundle, lots[k])
  BY DEF PacksFor, PackTakes
<1>5. new \in Seq(SUBSET Nat) /\ NoneFound("bundles", new)
  <2> HIDE DEF lots
  <2> QED
    BY <1>2, <1>3, <1>4, AddToKeepsIndependence
<1>6. /\ items' \in [Levels -> Seq(SUBSET Nat)]
      /\ items'["packs"] = new /\ items'["bundles"] = items["bundles"]
  <2> HIDE DEF new
  <2> QED
    BY <1>1, <1>5 DEF IInv, TypeOK, Levels
<1>7. TypeOK' /\ Control' /\ SortedSoFar'
  BY <1>1, <1>6 DEF IInv, TypeOK, Control, SortedSoFar
<1>8. SortedAsFound'
  BY <1>1 DEF IInv, SortedAsFound, OrderSettled, InOrderUpTo
<1>9. NotGroupedYet'
  BY <1>1 DEF NotGroupedYet, GroupNum, Lots
<1>10. LotsIndependentAsFound'
  BY <1>1, <1>5, <1>6 DEF IInv, LotsIndependentAsFound, NoneFound, Lots, Coarser
<1> QED
  BY <1>7, <1>8, <1>9, <1>10 DEF IInv

(* The lots made become the objects of the next group.                     *)
LEMMA InheritDepsFromIInv == IInv /\ InheritDepsFrom => IInv'
<1> SUFFICES ASSUME IInv, InheritDepsFrom PROVE IInv'
  OBVIOUS
<1> DEFINE up == Coarser[level]
           ids == [k \in DOMAIN items[up] |-> k]
<1>1. /\ phase = "group" /\ phase' = "close" /\ level' = up
      /\ order' = [order EXCEPT ![up] = ids]
      /\ UNCHANGED <<prog, items, full, posn>>
  BY DEF InheritDepsFrom
<1>2. level \in Lots /\ up \in Levels /\ GroupNum[up] = GroupNum[level] + 1
  BY <1>1 DEF IInv, Control, Lots, Levels, Coarser, GroupNum
<1>3. ids \in Seq(Nat)
  <2> HIDE DEF up
  <2>1. items[up] \in Seq(SUBSET Nat)
    BY <1>2 DEF IInv, TypeOK
  <2> QED
    BY <2>1
<1>4. /\ order' \in [Levels -> Seq(Nat)]
      /\ \A l \in Levels : l # up => order'[l] = order[l]
  <2> HIDE DEF up, ids
  <2> QED
    BY <1>1, <1>2, <1>3 DEF IInv, TypeOK
<1>5. TypeOK' /\ Control' /\ SortedSoFar'
  BY <1>1, <1>2, <1>4 DEF IInv, TypeOK, Control, SortedSoFar, Phases
<1>6. SortedAsFound'
  <2> SUFFICES ASSUME NEW l \in Levels, OrderSettled(l)'
               PROVE  InOrderUpTo(l, Len(order[l]))'
    BY DEF SortedAsFound
  <2>1. l # up /\ OrderSettled(l)
    BY <1>1, <1>2 DEF OrderSettled, GroupNum, Levels, Lots, Coarser
  <2> QED
    BY <1>1, <1>4, <2>1 DEF IInv, SortedAsFound, InOrderUpTo
<1>7. NotGroupedYet'
  BY <1>1, <1>2 DEF IInv, NotGroupedYet, GroupNum, Lots, Coarser
<1>8. LotsIndependentAsFound'
  BY <1>1 DEF IInv, LotsIndependentAsFound, NoneFound
<1> QED
  BY <1>5, <1>6, <1>7, <1>8 DEF IInv

(* Nothing changes.                                                        *)
LEMMA StutterIInv == IInv /\ UNCHANGED vars => IInv'
<1> SUFFICES ASSUME IInv, UNCHANGED vars PROVE IInv'
  OBVIOUS
<1>1. UNCHANGED <<prog, phase, level, order, items, imm, scr, full, posn, todo, halo>>
  BY DEF vars
<1>2. TypeOK'
  BY <1>1 DEF IInv, TypeOK
<1>3. Control' /\ SortedSoFar'
  BY <1>1 DEF IInv, Control, SortedSoFar, InOrderUpTo
<1>4. SortedAsFound'
  BY <1>1 DEF IInv, SortedAsFound, OrderSettled, InOrderUpTo
<1>5. NotGroupedYet'
  BY <1>1 DEF IInv, NotGroupedYet
<1>6. LotsIndependentAsFound'
  BY <1>1 DEF IInv, LotsIndependentAsFound, NoneFound
<1> QED
  BY <1>2, <1>3, <1>4, <1>5, <1>6 DEF IInv

(* Every step keeps it.                                                    *)
LEMMA NextIInv == IInv /\ [Next]_vars => IInv'
<1> SUFFICES ASSUME IInv, [Next]_vars PROVE IInv'
  OBVIOUS
<1>1. CASE Compile
  <2>1. CASE AnalyzeEqs
    BY <2>1, AnalyzeEqsIInv
  <2>2. CASE RejectEqs \/ CircularError
    BY <2>2, ErrorIInv
  <2>3. CASE \E a \in Eqs : FindDepsFrom(a)
    BY <2>3, FindDepsFromIInv
  <2>4. CASE EndFindDeps
    BY <2>4, EndFindDepsIInv
  <2>5. CASE SwapLater
    BY <2>5, SwapLaterIInv
  <2>6. CASE NextPosn
    BY <2>6, NextPosnIInv
  <2>7. CASE StartBundles \/ StartPacks \/ Finish
    BY <2>7, SortEndsIInv
  <2>8. CASE AddEqToBundle
    BY <2>8, AddEqToBundleIInv
  <2>9. CASE AddBundleToPack
    BY <2>9, AddBundleToPackIInv
  <2>10. CASE InheritDepsFrom
    BY <2>10, InheritDepsFromIInv
  <2> QED
    BY <1>1, <2>1, <2>2, <2>3, <2>4, <2>5, <2>6, <2>7, <2>8, <2>9, <2>10 DEF Compile
<1>2. CASE UNCHANGED vars
  BY <1>2, StutterIInv
<1> QED
  BY <1>1, <1>2 DEF Next

(* It always holds.                                                        *)
LEMMA InductiveInvariant == Spec => []IInv
  BY InitIInv, NextIInv, PTL DEF Spec

-----------------------------------------------------------------------------
(* The dependencies, the order and the lots of each group.                 *)

Objects(l) == IF l = "eqs" THEN Eqs ELSE DOMAIN items[l]

(* How far a group is: not begun, with an order, walked through.           *)
Ahead(l) == GroupNum[l] > GroupNum[level] \/ phase = "analyze"
Ordered(l) ==
  \/ GroupNum[l] < GroupNum[level]
  \/ l = level /\ phase \notin {"analyze", "error"}
Walked(l) ==
  \/ GroupNum[l] < GroupNum[level]
  \/ l = level /\ phase \notin {"analyze", "close"}

(* Dependencies are between the objects of a group; there are none yet of  *)
(* the groups to come.                                                     *)
DepsOK ==
  /\ imm = [l \in Levels |-> imm[l]] /\ scr = [l \in Levels |-> scr[l]]
  /\ \A l \in Levels : imm[l] \subseteq Objects(l) \X Objects(l)
  /\ \A l \in Levels : Ahead(l) => imm[l] = {} /\ full[l] = {}

(* Bundles and packs inherit the dependencies of what they gather.         *)
ScratchDepsIn(p, deps) ==
  LET plain == {e \in DOMAIN p.lhs : p.lhs[e] \notin ScratchVars}
      paths == {q \in UNION {VisitDeps(deps, e) : e \in plain} :
                  \A i \in 2 .. Len(q) : p.lhs[q[i]] \in ScratchVars}
  IN {<<Head(q), Last(q)>> : q \in {q \in paths : Len(q) > 1}}
Inherited ==
  /\ Ordered("eqs") => scr["eqs"] = ScratchDepsIn(prog, imm["eqs"])
  /\ Ordered("bundles") => /\ imm["bundles"] = InheritDeps(items["bundles"], imm["eqs"])
                           /\ scr["bundles"] = InheritDeps(items["bundles"], scr["eqs"])
  /\ Ordered("packs") => imm["packs"] = InheritDeps(items["packs"], imm["bundles"])

(* Walks find dependencies only and, of what they go through, all of them, *)
(* so that in the end they have found them all.                            *)
FoundFrom(l) ==
  Acyclic(imm[l]) => \A d \in full[l] : \A y \in Objects(l) :
    <<d[1], y>> \in Closure(imm[l]) => <<d[1], y>> \in full[l]
FoundAll(l) == Acyclic(imm[l]) => full[l] = Closure(imm[l])
Found ==
  \A l \in Levels : /\ full[l] \subseteq Closure(imm[l])
                    /\ FoundFrom(l)
                    /\ Walked(l) => FoundAll(l)

(* Every object has a place in the order of its group ...                  *)
HasPlace(l, x) == \E i \in DOMAIN order[l] : order[l][i] = x
AllHavePlaces == \A l \in Levels : Ordered(l) => \A x \in Objects(l) : HasPlace(l, x)

(* ... and ends up in a lot, unless it is still to be put into one.        *)
InLot(l, x) == \E k \in DOMAIN items[Coarser[l]] : x \in items[Coarser[l]][k]
AllInLots ==
  \A l \in Lots : \A i \in DOMAIN order[l] :
    \/ ~Ordered(l)
    \/ l = level /\ (phase \in {"close", "sort", "done"} \/ (phase = "group" /\ i \in todo))
    \/ InLot(l, order[l][i])

(* The equations of a bundle are scratch ones or not, all of them.         *)
SameKind ==
  \A k \in DOMAIN items["bundles"] : \A e, f \in items["bundles"][k] :
    IsScratchEq(e) <=> IsScratchEq(f)

GInv == /\ DepsOK
        /\ Inherited
        /\ Found
        /\ AllHavePlaces
        /\ AllInLots
        /\ SameKind

-----------------------------------------------------------------------------
(* A group has finitely many objects.                                      *)
LEMMA ObjectsFinite ==
  ASSUME TypeOK, NEW l \in Levels
  PROVE  IsFiniteSet(Objects(l))
<1>1. prog.lhs \in Seq(Vars)
  BY ProgramsOK DEF TypeOK
<1>2. \E n \in Nat : Objects(l) = 1 .. n
  <2>1. CASE l = "eqs"
    BY <1>1, <2>1 DEF Objects, Eqs
  <2>2. CASE l # "eqs"
    <3>1. items[l] \in Seq(SUBSET Nat)
      BY DEF TypeOK
    <3> HIDE DEF TypeOK
    <3>2. DOMAIN items[l] = 1 .. Len(items[l]) /\ Len(items[l]) \in Nat
      BY <3>1
    <3> QED
      BY <2>2, <3>2 DEF Objects
  <2> QED
    BY <2>1, <2>2
<1> QED
  BY <1>2, FS_Interval

(* The dependencies of equations are between equations.                    *)
LEMMA ImmDepsOK ==
  ASSUME TypeOK PROVE ImmDeps(prog) \subseteq Eqs \X Eqs
<1>1. prog.user \subseteq Eqs \X Eqs
  BY ProgramsOK DEF TypeOK, Eqs
<1>2. ReadsOfOthers(prog) \subseteq Eqs \X Eqs
  BY DEF ReadsOfOthers
<1> QED
  BY <1>1, <1>2 DEF ImmDeps

(* What scratch equations are needed depends on the program only.          *)
LEMMA ScratchDepsSame ==
  ASSUME NEW deps PROVE ScratchDeps(deps) = ScratchDepsIn(prog, deps)
BY Zenon DEF ScratchDeps, ScratchDepsIn, ScratchPaths, IsScratchEq, Eqs

(* Nothing is known yet.                                                   *)
LEMMA InitGInv == Init => GInv
<1> SUFFICES ASSUME Init PROVE GInv
  OBVIOUS
<1> USE DEF Init
<1>1. DepsOK
  BY DEF DepsOK, Levels
<1>2. Inherited
  BY DEF Inherited, Ordered, GroupNum
<1>3. Found
  BY DEF Found, FoundFrom, Walked, GroupNum, Levels
<1>4. AllHavePlaces /\ AllInLots /\ SameKind
  BY DEF AllHavePlaces, AllInLots, SameKind, Ordered, GroupNum, Levels, Lots
<1> QED
  BY <1>1, <1>2, <1>3, <1>4 DEF GInv

(* The analysis gives the equations an order and their dependencies.       *)
LEMMA AnalyzeEqsGInv == IInv /\ GInv /\ AnalyzeEqs => GInv'
<1> SUFFICES ASSUME IInv, GInv, AnalyzeEqs PROVE GInv'
  OBVIOUS
<1>1. /\ phase = "analyze" /\ phase' = "close" /\ level = "eqs"
      /\ order' = [order EXCEPT !["eqs"] = [e \in Eqs |-> e]]
      /\ imm' = [imm EXCEPT !["eqs"] = ImmDeps(prog)]
      /\ scr' = [scr EXCEPT !["eqs"] = ScratchDeps(ImmDeps(prog))]
      /\ UNCHANGED <<prog, level, items, full>>
  BY DEF AnalyzeEqs, IInv, Control
<1>2. /\ imm = [l \in Levels |-> imm[l]] /\ scr = [l \in Levels |-> scr[l]]
      /\ \A l \in Levels : imm[l] = {} /\ full[l] = {}
  BY <1>1 DEF GInv, DepsOK, Ahead
<1>3. /\ imm'["eqs"] = ImmDeps(prog) /\ imm' = [l \in Levels |-> imm'[l]]
      /\ \A l \in Levels : l # "eqs" => imm'[l] = {}
  <2> DEFINE D == ImmDeps(prog)
  <2>1. imm' = [imm EXCEPT !["eqs"] = D]
    BY <1>1
  <2> HIDE DEF D
  <2>2. imm'["eqs"] = D /\ imm' = [l \in Levels |-> imm'[l]]
        /\ \A l \in Levels : l # "eqs" => imm'[l] = {}
    BY <1>2, <2>1 DEF Levels
  <2> QED
    BY <2>2 DEF D
<1>4. scr'["eqs"] = ScratchDeps(ImmDeps(prog)) /\ scr' = [l \in Levels |-> scr'[l]]
  <2> DEFINE D == ScratchDeps(ImmDeps(prog))
  <2>1. scr' = [scr EXCEPT !["eqs"] = D]
    BY <1>1
  <2> HIDE DEF D
  <2>2. scr'["eqs"] = D /\ scr' = [l \in Levels |-> scr'[l]]
    BY <1>2, <2>1 DEF Levels
  <2> QED
    BY <2>2 DEF D
<1>5. DepsOK'
  <2>1. Objects("eqs")' = Eqs
    BY <1>1 DEF Objects, Eqs
  <2>2. imm'["eqs"] \subseteq Objects("eqs")' \X Objects("eqs")'
    BY <1>3, <2>1, ImmDepsOK DEF IInv
  <2>3. \A l \in Levels : imm'[l] \subseteq Objects(l)' \X Objects(l)'
    BY <1>3, <2>2
  <2>4. \A l \in Levels : Ahead(l)' => imm'[l] = {} /\ full'[l] = {}
    BY <1>1, <1>2, <1>3 DEF Ahead, GroupNum, Levels
  <2> QED
    BY <1>3, <1>4, <2>3, <2>4 DEF DepsOK
<1>6. Inherited'
  <2>1. scr'["eqs"] = ScratchDepsIn(prog, ImmDeps(prog))
    BY <1>4, ScratchDepsSame
  <2> QED
    BY <1>1, <1>3, <2>1 DEF Inherited, Ordered, GroupNum
<1>7. Found'
  BY <1>1, <1>2 DEF Found, FoundFrom, Walked, GroupNum, Levels
<1>8. AllHavePlaces'
  <2>1. order'["eqs"] = [e \in Eqs |-> e]
    BY <1>1 DEF IInv, TypeOK, Levels
  <2>2. \A x \in Eqs : x \in DOMAIN order'["eqs"] /\ order'["eqs"][x] = x
    BY <2>1
  <2>3. \A l \in Levels : Ordered(l)' => l = "eqs"
    BY <1>1 DEF Ordered, GroupNum, Levels
  <2>4. Objects("eqs")' = Eqs
    BY <1>1 DEF Objects, Eqs
  <2> QED
    BY <2>2, <2>3, <2>4 DEF AllHavePlaces, HasPlace
<1>9. AllInLots' /\ SameKind'
  <2>1. \A l \in Lots : ~Ordered(l)' \/ (l = level' /\ phase' = "close")
    BY <1>1 DEF Ordered, GroupNum, Lots
  <2>2. AllInLots'
    BY <2>1 DEF AllInLots
  <2>3. SameKind'
    BY <1>1 DEF GInv, SameKind, IsScratchEq
  <2> QED
    BY <2>2, <2>3
<1> QED
  BY <1>5, <1>6, <1>7, <1>8, <1>9 DEF GInv

(* A program that is rejected has no dependencies to find.                 *)
LEMMA RejectEqsGInv == IInv /\ GInv /\ RejectEqs => GInv'
<1> SUFFICES ASSUME IInv, GInv, RejectEqs PROVE GInv'
  OBVIOUS
<1>1. /\ phase = "analyze" /\ phase' = "error" /\ level = "eqs"
      /\ UNCHANGED <<prog, level, order, items, imm, scr, full>>
  BY DEF RejectEqs, IInv, Control
<1>2. \A l \in Levels : imm[l] = {} /\ full[l] = {}
  BY <1>1 DEF GInv, DepsOK, Ahead
<1>3. DepsOK'
  BY <1>1, <1>2 DEF GInv, DepsOK, Objects, Eqs
<1>4. Inherited'
  BY <1>1 DEF Inherited, Ordered, GroupNum
<1>5. Closure({}) = {}
  BY DEF Closure
<1>6. Found'
  BY <1>1, <1>2, <1>5 DEF Found, FoundFrom, FoundAll
<1>7. \A l \in Levels : ~Ordered(l)'
  BY <1>1 DEF Ordered, GroupNum, Levels
<1>8. AllHavePlaces' /\ AllInLots'
  BY <1>7 DEF AllHavePlaces, AllInLots, Lots, Levels
<1>9. SameKind'
  BY <1>1 DEF GInv, SameKind, IsScratchEq
<1> QED
  BY <1>3, <1>4, <1>6, <1>8, <1>9 DEF GInv

(* A walk finds dependencies only, and all of those of what it goes        *)
(* through.                                                                *)
LEMMA FindDepsFromGInv ==
  ASSUME NEW a, IInv, GInv, FindDepsFrom(a) PROVE GInv'
<1> DEFINE R == imm[level]
           found == DepsFrom(R, a)
<1>1. /\ phase = "close" /\ phase' = "close" /\ a \in ToVisit
      /\ full' = [full EXCEPT ![level] = full[level] \cup found]
      /\ UNCHANGED <<prog, level, order, items, imm, scr>>
  BY DEF FindDepsFrom
<1>2. /\ level \in Levels /\ full = [l \in Levels |-> full[l]]
      /\ IsFiniteSet(Objects(level)) /\ R \subseteq Objects(level) \X Objects(level)
  BY ObjectsFinite DEF IInv, TypeOK, GInv, DepsOK
<1>3. a \in Objects(level)
  <2>1. PICK d \in R : a = d[1]
    BY <1>1 DEF ToVisit
  <2> QED
    BY <1>2, <2>1
<1>4. /\ full'[level] = full[level] \cup found
      /\ \A l \in Levels : l # level => full'[l] = full[l]
  <2> HIDE DEF found
  <2> QED
    BY <1>1, <1>2
<1>5. found \subseteq Closure(R)
  BY <1>2, <1>3, DepsFromSound
<1>6. Acyclic(R) => \A d \in found : \A y \in Objects(level) :
        <<d[1], y>> \in Closure(R) => <<d[1], y>> \in found
  <2> SUFFICES ASSUME Acyclic(R), NEW d \in found, NEW y, <<d[1], y>> \in Closure(R)
               PROVE  <<d[1], y>> \in found
    OBVIOUS
  <2>1. d[1] = a \/ <<a, d[1]>> \in Closure(R)
    BY <1>2, <1>3, DepsFromSound
  <2> QED
    BY <1>2, <1>3, <2>1, DepsFromWhole
<1>7. DepsOK'
  <2>1. \A l \in Levels : Ahead(l)' => l # level /\ Ahead(l)
    BY <1>1, <1>2 DEF Ahead, GroupNum, Levels
  <2>2. \A l \in Levels : Objects(l)' = Objects(l)
    BY <1>1 DEF Objects, Eqs
  <2> QED
    BY <1>1, <1>4, <2>1, <2>2 DEF GInv, DepsOK
<1>8. Inherited'
  BY <1>1 DEF GInv, Inherited, Ordered
<1>9. Found'
  <2> SUFFICES ASSUME NEW l \in Levels
               PROVE  /\ full'[l] \subseteq Closure(imm'[l])
                      /\ FoundFrom(l)'
                      /\ Walked(l)' => FoundAll(l)'
    BY DEF Found
  <2>1. imm'[l] = imm[l] /\ Objects(l)' = Objects(l)
    BY <1>1 DEF Objects, Eqs
  <2>2. full[l] \subseteq Closure(imm[l]) /\ FoundFrom(l) /\ (Walked(l) => FoundAll(l))
    BY DEF GInv, Found
  <2>3. CASE l = level
    <3>1. ~Walked(l)'
      BY <1>1, <1>2, <2>3 DEF Walked, GroupNum, Levels
    <3>2. full'[l] \subseteq Closure(imm'[l])
      BY <1>4, <1>5, <2>1, <2>2, <2>3
    <3>3. FoundFrom(l)'
      <4> HIDE DEF found
      <4> SUFFICES ASSUME Acyclic(imm[l]), NEW d \in full'[l], NEW y \in Objects(l),
                          <<d[1], y>> \in Closure(imm[l])
                   PROVE  <<d[1], y>> \in full'[l]
        BY <2>1 DEF FoundFrom
      <4> QED
        BY <1>4, <1>6, <2>2, <2>3 DEF FoundFrom
    <3> QED
      BY <3>1, <3>2, <3>3
  <2>4. CASE l # level
    <3>1. full'[l] = full[l]
      BY <1>4, <2>4
    <3>2. Walked(l)' => Walked(l)
      BY <1>1, <2>4 DEF Walked
    <3> QED
      BY <2>1, <2>2, <3>1, <3>2 DEF FoundFrom, FoundAll
  <2> QED
    BY <2>3, <2>4
<1>10. AllHavePlaces'
  BY <1>1 DEF GInv, AllHavePlaces, HasPlace, Ordered, Objects, Eqs
<1>11. AllInLots' /\ SameKind'
  BY <1>1 DEF GInv, AllInLots, InLot, Ordered, SameKind, IsScratchEq
<1> QED
  BY <1>7, <1>8, <1>9, <1>10, <1>11 DEF GInv

(* When nothing is left to visit, everything has been found.               *)
LEMMA EndFindDepsGInv == IInv /\ GInv /\ EndFindDeps => GInv'
<1> SUFFICES ASSUME IInv, GInv, EndFindDeps PROVE GInv'
  OBVIOUS
<1>1. /\ phase = "close" /\ phase' = "sort" /\ ToVisit = {}
      /\ UNCHANGED <<prog, level, order, items, imm, scr, full>>
  BY DEF EndFindDeps
<1>2. level \in Levels /\ imm[level] \subseteq Objects(level) \X Objects(level)
  BY DEF IInv, TypeOK, GInv, DepsOK
<1>3. FoundAll(level)
  <2> DEFINE R == imm[level]
             C == Closure(R)
  <2> SUFFICES ASSUME Acyclic(R) PROVE full[level] = C
    BY DEF FoundAll
  <2>1. /\ C \subseteq Objects(level) \X Objects(level)
        /\ \A d \in C : \E y \in Objects(level) : <<d[1], y>> \in R
        /\ R \subseteq C
        /\ \A d \in C : d[1] # d[2]
    <3> DEFINE O == Objects(level)
    <3>1. R \subseteq O \X O
      BY <1>2
    <3>2. \A d \in C : d[1] # d[2]
      BY DEF Acyclic
    <3> HIDE DEF R, O
    <3> QED
      BY <3>1, <3>2, ClosureFacts DEF O
  <2>2. full[level] \subseteq C /\ FoundFrom(level)
    BY <1>2 DEF GInv, Found
  <2>3. ASSUME NEW d \in C PROVE d \in full[level]
    <3>1. PICK y \in Objects(level) : <<d[1], y>> \in R
      BY <2>1
    <3>2. d[1] # y
      <4>1. <<d[1], y>> \in C
        BY <2>1, <3>1
      <4> HIDE DEF C
      <4> QED
        BY <2>1, <4>1
    <3>3. \E f \in full[level] : f[1] = d[1]
      <4> SUFFICES ASSUME \A f \in full[level] : f[1] # d[1] PROVE FALSE
        OBVIOUS
      <4> DEFINE e == <<d[1], y>>
      <4>1. e \in imm[level] /\ e[1] = d[1] /\ e[1] # e[2]
        BY <3>1, <3>2
      <4> HIDE DEF e
      <4>2. e[1] \in ToVisit
        BY <4>1 DEF ToVisit
      <4> QED
        BY <1>1, <4>2
    <3>4. d[2] \in Objects(level) /\ d = <<d[1], d[2]>>
      BY <2>1
    <3> HIDE DEF C
    <3> QED
      BY <2>2, <3>3, <3>4 DEF FoundFrom, C
  <2> QED
    BY <2>2, <2>3
<1>4. DepsOK'
  BY <1>1 DEF GInv, DepsOK, Ahead, Objects, Eqs
<1>5. Inherited'
  BY <1>1 DEF GInv, Inherited, Ordered
<1>6. Found'
  <2>1. \A l \in Levels : Walked(l)' => Walked(l) \/ l = level
    BY <1>1 DEF Walked
  <2>2. \A l \in Levels : Objects(l)' = Objects(l)
    BY <1>1 DEF Objects, Eqs
  <2> QED
    BY <1>1, <1>3, <2>1, <2>2 DEF GInv, Found, FoundFrom, FoundAll
<1>7. AllHavePlaces'
  BY <1>1 DEF GInv, AllHavePlaces, HasPlace, Ordered, Objects, Eqs
<1>8. AllInLots' /\ SameKind'
  BY <1>1 DEF GInv, AllInLots, InLot, Ordered, SameKind, IsScratchEq
<1> QED
  BY <1>4, <1>5, <1>6, <1>7, <1>8 DEF GInv

(* Sorting changes no dependencies.                                        *)
LEMMA SortingKeepsDeps ==
  ASSUME GInv, phase = "sort", phase' \in {"sort", "group", "done", "error"},
         UNCHANGED <<prog, level, items, imm, scr, full>>
  PROVE  DepsOK' /\ Inherited' /\ Found' /\ SameKind'
<1>1. DepsOK'
  BY DEF GInv, DepsOK, Ahead, Objects, Eqs
<1>2. Inherited'
  BY DEF GInv, Inherited, Ordered
<1>3. Found'
  <2>1. \A l \in Levels : Walked(l)' => Walked(l)
    BY DEF Walked
  <2>2. \A l \in Levels : Objects(l)' = Objects(l)
    BY DEF Objects, Eqs
  <2> QED
    BY <2>1, <2>2 DEF GInv, Found, FoundFrom, FoundAll
<1>4. SameKind'
  BY DEF GInv, SameKind, IsScratchEq
<1> QED
  BY <1>1, <1>2, <1>3, <1>4

(* A swap loses no object.                                                 *)
LEMMA SwapLaterGInv == IInv /\ GInv /\ SwapLater => GInv'
<1> SUFFICES ASSUME IInv, GInv, SwapLater PROVE GInv'
  OBVIOUS
<1> DEFINE s == order[level]
           j == Min(LaterDeps)
           t == Swap(s, posn, j)
<1>1. level \in Levels /\ s \in Seq(Nat) /\ posn \in 1 .. Len(s) /\ phase = "sort"
  BY DEF IInv, TypeOK, SwapLater, Sorting
<1>2. j \in posn + 1 .. Len(s)
  <2>1. LaterDeps \subseteq Nat /\ LaterDeps # {}
    BY <1>1 DEF LaterDeps, SwapLater
  <2> QED
    BY <2>1, MinIsMember DEF LaterDeps
<1>3. order' = [order EXCEPT ![level] = t] /\ UNCHANGED <<prog, phase, level, items, imm, scr, full>>
  BY DEF SwapLater
<1>4. /\ DOMAIN s = 1 .. Len(s) /\ DOMAIN t = 1 .. Len(s) /\ j \in 1 .. Len(s)
      /\ t[posn] = s[j] /\ t[j] = s[posn]
      /\ \A k \in 1 .. Len(s) : k \notin {posn, j} => t[k] = s[k]
  <2> HIDE DEF j, s
  <2>1. j \in 1 .. Len(s) /\ posn # j
    BY <1>1, <1>2
  <2> QED
    BY <1>1, <2>1, SwapEntries
<1>5. /\ order'[level] = t
      /\ \A l \in Levels : l # level => order'[l] = order[l]
  <2> HIDE DEF t
  <2> QED
    BY <1>1, <1>3 DEF IInv, TypeOK
<1> HIDE DEF s, t, j
<1>6. AllHavePlaces'
  <2> SUFFICES ASSUME NEW l \in Levels, Ordered(l)', NEW x \in Objects(l)'
               PROVE  HasPlace(l, x)'
    BY DEF AllHavePlaces
  <2>1. Ordered(l) /\ x \in Objects(l)
    BY <1>3 DEF Ordered, Objects, Eqs
  <2>2. HasPlace(l, x)
    BY <2>1 DEF GInv, AllHavePlaces
  <2>3. CASE l = level
    <3>1. PICK i \in 1 .. Len(s) : s[i] = x
      BY <1>4, <2>2, <2>3 DEF HasPlace, s
    <3>2. \E k \in 1 .. Len(s) : t[k] = x
      <4>1. CASE i = posn
        BY <1>4, <3>1, <4>1
      <4>2. CASE i = j
        BY <1>1, <1>4, <3>1, <4>2
      <4>3. CASE i \notin {posn, j}
        BY <1>4, <3>1, <4>3
      <4> QED
        BY <4>1, <4>2, <4>3
    <3> QED
      BY <1>4, <1>5, <2>3, <3>2 DEF HasPlace
  <2>4. CASE l # level
    BY <1>5, <2>2, <2>4 DEF HasPlace
  <2> QED
    BY <2>3, <2>4
<1>7. AllInLots'
  <2> SUFFICES ASSUME NEW l \in Lots, NEW i \in DOMAIN order'[l], Ordered(l), l # level
               PROVE  InLot(l, order[l][i])'
    BY <1>1, <1>3, <1>5 DEF AllInLots, Ordered, Lots, Levels
  <2>1. order'[l] = order[l]
    BY <1>5 DEF Lots, Levels
  <2>2. InLot(l, order[l][i])
    BY <2>1 DEF GInv, AllInLots
  <2> QED
    BY <1>3, <2>1, <2>2 DEF InLot
<1> QED
  BY <1>1, <1>3, <1>6, <1>7, SortingKeepsDeps DEF GInv

(* The other steps of the sort leave the order alone; in the end there is  *)
(* a group to put into lots, or none.                                      *)
LEMMA SortStepsGInv ==
  IInv /\ GInv /\ (NextPosn \/ CircularError \/ StartBundles \/ StartPacks \/ Finish) => GInv'
<1> SUFFICES ASSUME IInv, GInv, NextPosn \/ CircularError \/ StartBundles \/ StartPacks \/ Finish
             PROVE  GInv'
  OBVIOUS
<1>1. /\ phase = "sort" /\ phase' \in {"sort", "group", "done", "error"}
      /\ UNCHANGED <<prog, level, order, items, imm, scr, full>>
      /\ phase' = "group" => todo' = DOMAIN order[level]
  BY DEF NextPosn, CircularError, StartBundles, StartPacks, Finish, Sorting, Sorted
<1>2. AllHavePlaces'
  BY <1>1 DEF GInv, AllHavePlaces, HasPlace, Ordered, Objects, Eqs
<1>3. AllInLots'
  <2> SUFFICES ASSUME NEW l \in Lots, NEW i \in DOMAIN order[l], Ordered(l)'
               PROVE  \/ l = level /\ (phase' \in {"sort", "done"} \/ (phase' = "group" /\ i \in todo'))
                      \/ InLot(l, order[l][i])'
    BY <1>1 DEF AllInLots
  <2>1. CASE l = level
    <3>1. phase' # "error"
      BY <1>1, <2>1 DEF Ordered, GroupNum, Lots
    <3> QED
      BY <1>1, <2>1, <3>1
  <2>2. CASE l # level
    <3>1. Ordered(l)
      BY <1>1, <2>2 DEF Ordered
    <3>2. InLot(l, order[l][i])
      BY <2>2, <3>1 DEF GInv, AllInLots
    <3> QED
      BY <1>1, <3>2 DEF InLot
  <2> QED
    BY <2>1, <2>2
<1> QED
  BY <1>1, <1>2, <1>3, SortingKeepsDeps DEF GInv

(* A lot that gets one more loses none.                                    *)
LEMMA AddToKeeps ==
  ASSUME NEW lots \in Seq(SUBSET Nat), NEW takers, takers \subseteq DOMAIN lots,
         NEW x \in Nat
  PROVE  /\ \E k \in DOMAIN AddTo(lots, takers, x) : x \in AddTo(lots, takers, x)[k]
         /\ \A k \in DOMAIN lots : /\ k \in DOMAIN AddTo(lots, takers, x)
                                   /\ lots[k] \subseteq AddTo(lots, takers, x)[k]
<1> DEFINE new == AddTo(lots, takers, x)
<1>1. DOMAIN lots \subseteq DOMAIN new /\ OneGets(new, lots, takers, x)
  BY AddToShape
<1> HIDE DEF new
<1>2. PICK k \in DOMAIN new :
        /\ \/ new[k] = {x} /\ k \notin DOMAIN lots
           \/ k \in takers /\ new[k] = lots[k] \cup {x}
        /\ \A i \in DOMAIN new : i # k => i \in DOMAIN lots /\ new[i] = lots[i]
  BY <1>1 DEF OneGets
<1>3. x \in new[k]
  BY <1>2
<1>4. \A i \in DOMAIN lots : i \in DOMAIN new /\ lots[i] \subseteq new[i]
  BY <1>1, <1>2
<1> QED
  BY <1>3, <1>4 DEF new

(* What is common to the steps that fill lots.                             *)
LEMMA FillingGInv ==
  ASSUME IInv, GInv, phase = "group", phase' = "group", todo # {},
         UNCHANGED <<prog, level, order, imm, scr, full>>,
         todo' = todo \ {NextPlace}, level \in Lots,
         NEW takers, takers \subseteq DOMAIN items[Coarser[level]],
         items' = [items EXCEPT ![Coarser[level]] = AddTo(@, takers, order[level][NextPlace])]
  PROVE  DepsOK' /\ Inherited' /\ Found' /\ AllHavePlaces' /\ AllInLots'
<1> DEFINE up == Coarser[level]
           lots == items[up]
           x == order[level][NextPlace]
           new == AddTo(lots, takers, x)
<1>1. /\ level \in Levels /\ up \in Levels /\ up # "eqs" /\ GroupNum[up] > GroupNum[level]
      /\ \A l \in Levels : l # up /\ GroupNum[l] > GroupNum[level] => imm[l] = {}
  BY DEF Lots, Levels, Coarser, GroupNum, GInv, DepsOK, Ahead
<1>2. lots \in Seq(SUBSET Nat) /\ x \in Nat
  BY <1>1, NextIsObject DEF IInv, TypeOK
<1>3. items' = [items EXCEPT ![up] = new] /\ items \in [Levels -> Seq(SUBSET Nat)]
  BY DEF IInv, TypeOK
<1>4. items'[up] = new /\ \A l \in Levels : l # up => items'[l] = items[l]
  <2> HIDE DEF up, new
  <2> QED
    BY <1>1, <1>3
<1>5. /\ \E k \in DOMAIN new : x \in new[k]
      /\ \A k \in DOMAIN lots : k \in DOMAIN new /\ lots[k] \subseteq new[k]
  <2> HIDE DEF x
  <2> QED
    BY <1>2, AddToKeeps
<1> HIDE DEF up, lots, x, new
<1>6. \A l \in Levels : (l = up => imm[l] = {} /\ full[l] = {}) /\ (l # up => Objects(l)' = Objects(l))
  BY <1>1, <1>4 DEF GInv, DepsOK, Ahead, Objects, Eqs
<1>7. \A l \in Levels : Ordered(l)' = Ordered(l) /\ Walked(l)' = Walked(l) /\ Ahead(l)' = Ahead(l)
  BY DEF Ordered, Walked, Ahead
<1>8. DepsOK'
  <2>1. \A l \in Levels : imm[l] \subseteq Objects(l)' \X Objects(l)'
    BY <1>6 DEF GInv, DepsOK
  <2>2. \A l \in Levels : Ahead(l)' => Ahead(l)
    BY DEF Ahead
  <2> QED
    BY <2>1, <2>2 DEF GInv, DepsOK
<1>9. Inherited'
  <2>1. \A l \in Levels : Ordered(l)' => Ordered(l) /\ l # up
    BY <1>1 DEF Ordered, GroupNum, Levels
  <2>2. \A l \in Levels : Ordered(l)' => items'[l] = items[l]
    BY <1>4, <2>1
  <2> QED
    BY <2>1, <2>2 DEF GInv, Inherited, Levels
<1>10. Found'
  <2> SUFFICES ASSUME NEW l \in Levels
               PROVE  /\ full[l] \subseteq Closure(imm[l])
                      /\ FoundFrom(l)'
                      /\ Walked(l)' => FoundAll(l)'
    BY DEF Found
  <2>1. full[l] \subseteq Closure(imm[l]) /\ FoundFrom(l) /\ (Walked(l) => FoundAll(l))
    BY DEF GInv, Found
  <2>2. FoundFrom(l)'
    BY <1>6, <2>1 DEF FoundFrom
  <2>3. Walked(l)' => Walked(l)
    BY DEF Walked
  <2> QED
    BY <2>1, <2>2, <2>3 DEF FoundAll
<1>11. AllHavePlaces'
  <2> SUFFICES ASSUME NEW l \in Levels, Ordered(l)', NEW z \in Objects(l)'
               PROVE  HasPlace(l, z)'
    BY DEF AllHavePlaces
  <2>1. Ordered(l) /\ l # up
    BY <1>1 DEF Ordered, GroupNum, Levels
  <2>2. HasPlace(l, z)
    BY <1>6, <2>1 DEF GInv, AllHavePlaces
  <2> QED
    BY <2>2 DEF HasPlace
<1>12. AllInLots'
  <2> SUFFICES ASSUME NEW l \in Lots, NEW i \in DOMAIN order[l], Ordered(l),
                      ~(l = level /\ i \in todo')
               PROVE  InLot(l, order[l][i])'
    BY DEF AllInLots, Ordered
  <2>1. \/ l = level /\ i \in todo
        \/ InLot(l, order[l][i])
    BY DEF GInv, AllInLots
  <2>2. CASE l = level
    <3>1. CASE i = NextPlace
      BY <1>4, <1>5, <2>2, <3>1 DEF InLot, up, x
    <3>2. CASE i # NextPlace
      <4>1. InLot(l, order[l][i])
        BY <2>1, <2>2, <3>2
      <4> QED
        BY <1>4, <1>5, <2>2, <4>1 DEF InLot, up, lots
    <3> QED
      BY <3>1, <3>2
  <2>3. CASE l # level
    <3>1. Coarser[l] \in Levels /\ Coarser[l] # up
      BY <2>3 DEF Lots, Levels, Coarser, up
    <3> QED
      BY <1>4, <2>1, <2>3, <3>1 DEF InLot
  <2> QED
    BY <2>2, <2>3
<1> QED
  BY <1>8, <1>9, <1>10, <1>11, <1>12

(* An equation goes to a bundle of its kind.                               *)
LEMMA AddEqToBundleGInv == IInv /\ GInv /\ AddEqToBundle => GInv'
<1> SUFFICES ASSUME IInv, GInv, AddEqToBundle PROVE GInv'
  OBVIOUS
<1> DEFINE lots == items["bundles"]
           takers == BundlesFor(NextEq)
           x == NextEq
           new == AddTo(lots, takers, x)
<1>1. /\ phase = "group" /\ phase' = "group" /\ level = "eqs" /\ todo # {}
      /\ UNCHANGED <<prog, level, order, imm, scr, full>>
      /\ todo' = todo \ {NextPlace}
      /\ items' = [items EXCEPT !["bundles"] = AddTo(@, BundlesFor(NextEq), NextEq)]
  BY DEF AddEqToBundle
<1>2. DepsOK' /\ Inherited' /\ Found' /\ AllHavePlaces' /\ AllInLots'
  <2>1. takers \subseteq DOMAIN items[Coarser[level]] /\ level \in Lots /\ Coarser[level] = "bundles"
        /\ NextEq = order[level][NextPlace]
    BY <1>1 DEF BundlesFor, Lots, Coarser, NextEq
  <2>2. items' = [items EXCEPT ![Coarser[level]] = AddTo(@, takers, order[level][NextPlace])]
    BY <1>1, <2>1
  <2> HIDE DEF takers
  <2> QED
    BY <1>1, <2>1, <2>2, FillingGInv
<1>3. lots \in Seq(SUBSET Nat) /\ x \in Nat /\ takers \subseteq DOMAIN lots
  BY <1>1, NextIsObject DEF IInv, TypeOK, Levels, NextEq, BundlesFor
<1>4. \A k \in takers : \A f \in lots[k] : IsScratchEq(f) <=> IsScratchEq(x)
  BY DEF BundlesFor, BundleTakes
<1>5. items'["bundles"] = new
  BY <1>1 DEF IInv, TypeOK, Levels
<1> HIDE DEF x, takers, lots
<1>6. OneGets(new, lots, takers, x)
  BY <1>3, AddToShape
<1> HIDE DEF new
<1>7. PICK k \in DOMAIN new :
        /\ \/ new[k] = {x} /\ k \notin DOMAIN lots
           \/ k \in takers /\ new[k] = lots[k] \cup {x}
        /\ \A i \in DOMAIN new : i # k => i \in DOMAIN lots /\ new[i] = lots[i]
  BY <1>6 DEF OneGets
<1>8. \A e \in new[k] : IsScratchEq(e) <=> IsScratchEq(x)
  BY <1>4, <1>7
<1>9. \A i \in DOMAIN new : \A e, f \in new[i] : IsScratchEq(e) <=> IsScratchEq(f)
  BY <1>7, <1>8 DEF GInv, SameKind, lots
<1>10. \A e : IsScratchEq(e)' = IsScratchEq(e)
  BY <1>1 DEF IsScratchEq
<1>11. SameKind'
  BY <1>1, <1>5, <1>9 DEF SameKind, IsScratchEq
<1> QED
  BY <1>2, <1>11 DEF GInv

(* A bundle goes to a pack.                                                *)
LEMMA AddBundleToPackGInv == IInv /\ GInv /\ AddBundleToPack => GInv'
<1> SUFFICES ASSUME IInv, GInv, AddBundleToPack PROVE GInv'
  OBVIOUS
<1> DEFINE takers == PacksFor(NextBundle)
<1>1. /\ phase = "group" /\ phase' = "group" /\ level = "bundles" /\ todo # {}
      /\ UNCHANGED <<prog, level, order, imm, scr, full>>
      /\ todo' = todo \ {NextPlace}
      /\ items' = [items EXCEPT !["packs"] = AddTo(@, PacksFor(NextBundle), NextBundle)]
  BY DEF AddBundleToPack
<1>2. DepsOK' /\ Inherited' /\ Found' /\ AllHavePlaces' /\ AllInLots'
  <2>1. takers \subseteq DOMAIN items[Coarser[level]] /\ level \in Lots /\ Coarser[level] = "packs"
        /\ NextBundle = order[level][NextPlace]
    BY <1>1 DEF PacksFor, Lots, Coarser, NextBundle
  <2>2. items' = [items EXCEPT ![Coarser[level]] = AddTo(@, takers, order[level][NextPlace])]
    BY <1>1, <2>1
  <2> HIDE DEF takers
  <2> QED
    BY <1>1, <2>1, <2>2, FillingGInv
<1>3. items'["bundles"] = items["bundles"]
  BY <1>1 DEF IInv, TypeOK, Levels
<1>4. SameKind'
  BY <1>1, <1>3 DEF GInv, SameKind, IsScratchEq
<1> QED
  BY <1>2, <1>4 DEF GInv

(* The lots become objects and inherit the dependencies.                   *)
LEMMA InheritDepsFromGInv == IInv /\ GInv /\ InheritDepsFrom => GInv'
<1> SUFFICES ASSUME IInv, GInv, InheritDepsFrom PROVE GInv'
  OBVIOUS
<1> DEFINE up == Coarser[level]
           ids == [k \in DOMAIN items[up] |-> k]
           deps == InheritDeps(items[up], imm[level])
           sdeps == InheritDeps(items[up], scr[level])
<1>1. /\ phase = "group" /\ phase' = "close" /\ level' = up /\ todo = {}
      /\ order' = [order EXCEPT ![up] = ids]
      /\ imm' = [imm EXCEPT ![up] = deps]
      /\ scr' = [scr EXCEPT ![up] = sdeps]
      /\ UNCHANGED <<prog, items, full>>
  BY DEF InheritDepsFrom
<1>2. /\ level \in Lots /\ up \in Levels /\ up # level /\ GroupNum[up] = GroupNum[level] + 1
      /\ up # "eqs" /\ level \in Levels
      /\ (level = "eqs" <=> up = "bundles") /\ (level = "bundles" <=> up = "packs")
  BY <1>1 DEF IInv, Control, Lots, Levels, Coarser, GroupNum
<1> HIDE DEF up
<1>3. /\ imm[up] = {} /\ full[up] = {}
      /\ imm = [l \in Levels |-> imm[l]] /\ scr = [l \in Levels |-> scr[l]]
      /\ order \in [Levels -> Seq(Nat)]
  BY <1>2 DEF GInv, DepsOK, Ahead, GroupNum, IInv, TypeOK, Levels
<1> HIDE DEF ids, deps, sdeps
<1>4. /\ order'[up] = ids /\ imm'[up] = deps /\ scr'[up] = sdeps
      /\ imm' = [l \in Levels |-> imm'[l]] /\ scr' = [l \in Levels |-> scr'[l]]
      /\ \A l \in Levels : l # up => order'[l] = order[l] /\ imm'[l] = imm[l] /\ scr'[l] = scr[l]
  BY <1>1, <1>2, <1>3
<1>5. \A l \in Levels : /\ Objects(l)' = Objects(l)
                        /\ Ordered(l)' => l = up \/ (l # up /\ Ordered(l))
                        /\ Walked(l)' => l # up /\ Walked(l)
                        /\ Ahead(l)' => l # up /\ Ahead(l)
  BY <1>1, <1>2 DEF Objects, Eqs, Ordered, Walked, Ahead, GroupNum, Levels, Lots
<1>6. DepsOK'
  <2>1. deps \subseteq Objects(up) \X Objects(up)
    BY <1>2 DEF InheritDeps, Objects, deps
  <2>2. \A l \in Levels : imm'[l] \subseteq Objects(l) \X Objects(l)
    BY <1>4, <2>1 DEF GInv, DepsOK
  <2>3. \A l \in Levels : Ahead(l)' => imm'[l] = {} /\ full'[l] = {}
    BY <1>1, <1>4, <1>5 DEF GInv, DepsOK
  <2> QED
    BY <1>4, <1>5, <2>2, <2>3 DEF DepsOK
<1>7. Inherited'
  <2>1. Ordered("eqs") /\ (up = "packs" => Ordered("bundles"))
    BY <1>1, <1>2 DEF Ordered, GroupNum, Lots
  <2>2. imm'["eqs"] = imm["eqs"] /\ scr'["eqs"] = scr["eqs"]
    BY <1>2, <1>4 DEF Levels
  <2>3. scr'["eqs"] = ScratchDepsIn(prog', imm'["eqs"])
    BY <1>1, <2>1, <2>2 DEF GInv, Inherited
  <2>4. CASE up = "bundles"
    <3>1. ~Ordered("packs")'
      BY <1>1, <2>4 DEF Ordered, GroupNum
    <3> QED
      BY <1>1, <1>2, <1>4, <2>2, <2>3, <2>4, <3>1 DEF Inherited, deps, sdeps
  <2>5. CASE up = "packs"
    <3>1. imm'["bundles"] = imm["bundles"] /\ scr'["bundles"] = scr["bundles"]
      BY <1>4, <2>5 DEF Levels
    <3> QED
      BY <1>1, <1>2, <1>4, <2>1, <2>2, <2>3, <2>5, <3>1 DEF GInv, Inherited, deps
  <2> QED
    BY <1>2, <2>4, <2>5 DEF Lots
<1>8. Found'
  <2> SUFFICES ASSUME NEW l \in Levels
               PROVE  /\ full'[l] \subseteq Closure(imm'[l])
                      /\ FoundFrom(l)'
                      /\ Walked(l)' => FoundAll(l)'
    BY DEF Found
  <2>1. CASE l = up
    BY <1>1, <1>3, <1>5, <2>1 DEF FoundFrom
  <2>2. CASE l # up
    BY <1>1, <1>4, <1>5, <2>2 DEF GInv, Found, FoundFrom, FoundAll
  <2> QED
    BY <2>1, <2>2
<1>9. AllHavePlaces'
  <2> SUFFICES ASSUME NEW l \in Levels, Ordered(l)', NEW x \in Objects(l)
               PROVE  HasPlace(l, x)'
    BY <1>5 DEF AllHavePlaces
  <2>1. CASE l = up
    <3>1. x \in DOMAIN ids /\ ids[x] = x
      BY <1>2, <2>1 DEF Objects, ids
    <3> QED
      BY <1>4, <2>1, <3>1 DEF HasPlace
  <2>2. CASE l # up
    BY <1>4, <1>5, <2>2 DEF GInv, AllHavePlaces, HasPlace
  <2> QED
    BY <2>1, <2>2
<1>10. AllInLots'
  <2> SUFFICES ASSUME NEW l \in Lots, NEW i \in DOMAIN order'[l], Ordered(l)', l # up
               PROVE  InLot(l, order[l][i])'
    BY <1>1 DEF AllInLots
  <2>1. l \in Levels /\ order'[l] = order[l] /\ Ordered(l)
    BY <1>4, <1>5 DEF Lots, Levels
  <2>2. InLot(l, order[l][i])
    BY <1>1, <2>1 DEF GInv, AllInLots
  <2> QED
    BY <1>1, <2>1, <2>2 DEF InLot
<1>11. SameKind'
  BY <1>1 DEF GInv, SameKind, IsScratchEq
<1> QED
  BY <1>6, <1>7, <1>8, <1>9, <1>10, <1>11 DEF GInv

(* Nothing changes.                                                        *)
LEMMA StutterGInv == GInv /\ UNCHANGED vars => GInv'
<1> SUFFICES ASSUME GInv, UNCHANGED vars PROVE GInv'
  OBVIOUS
<1>1. UNCHANGED <<prog, phase, level, order, items, imm, scr, full, todo>>
  BY DEF vars
<1>2. DepsOK' /\ Inherited'
  BY <1>1 DEF GInv, DepsOK, Ahead, Objects, Eqs, Inherited, Ordered
<1>3. Found'
  BY <1>1 DEF GInv, Found, FoundFrom, FoundAll, Walked, Objects, Eqs
<1>4. AllHavePlaces' /\ AllInLots' /\ SameKind'
  BY <1>1 DEF GInv, AllHavePlaces, HasPlace, AllInLots, InLot, Ordered, Objects, Eqs,
              SameKind, IsScratchEq
<1> QED
  BY <1>2, <1>3, <1>4 DEF GInv

(* Every step keeps both.                                                  *)
LEMMA NextGInv == IInv /\ GInv /\ [Next]_vars => GInv'
<1> SUFFICES ASSUME IInv, GInv, [Next]_vars PROVE GInv'
  OBVIOUS
<1>1. CASE Compile
  <2>1. CASE AnalyzeEqs
    BY <2>1, AnalyzeEqsGInv
  <2>2. CASE RejectEqs
    BY <2>2, RejectEqsGInv
  <2>3. CASE \E a \in Eqs : FindDepsFrom(a)
    BY <2>3, FindDepsFromGInv
  <2>4. CASE EndFindDeps
    BY <2>4, EndFindDepsGInv
  <2>5. CASE SwapLater
    BY <2>5, SwapLaterGInv
  <2>6. CASE NextPosn \/ CircularError \/ StartBundles \/ StartPacks \/ Finish
    BY <2>6, SortStepsGInv
  <2>7. CASE AddEqToBundle
    BY <2>7, AddEqToBundleGInv
  <2>8. CASE AddBundleToPack
    BY <2>8, AddBundleToPackGInv
  <2>9. CASE InheritDepsFrom
    BY <2>9, InheritDepsFromGInv
  <2> QED
    BY <1>1, <2>1, <2>2, <2>3, <2>4, <2>5, <2>6, <2>7, <2>8, <2>9 DEF Compile
<1>2. CASE UNCHANGED vars
  BY <1>2, StutterGInv
<1> QED
  BY <1>1, <1>2 DEF Next

(* Both always hold.                                                       *)
LEMMA GraphInvariant == Spec => [](IInv /\ GInv)
<1>1. Init => IInv /\ GInv
  BY InitIInv, InitGInv
<1>2. IInv /\ GInv /\ [Next]_vars => (IInv /\ GInv)'
  BY NextIInv, NextGInv
<1> QED
  BY <1>1, <1>2, PTL DEF Spec

-----------------------------------------------------------------------------
(* Without cycles, no two objects of a lot depend on each other.           *)
LEMMA LotsFree ==
  ASSUME IInv, GInv, NEW l \in Lots, Acyclic(imm[l])
  PROVE  NoneDepends(items[Coarser[l]], imm[l])
<1>1. CASE Walked(l)
  <2>1. full[l] = Closure(imm[l])
    BY <1>1 DEF GInv, Found, FoundAll, Lots, Levels
  <2>2. NoneFound(l, items[Coarser[l]])
    BY DEF IInv, LotsIndependentAsFound
  <2>3. \A x : <<x, x>> \notin Closure(imm[l])
    BY DEF Acyclic
  <2> QED
    BY <2>1, <2>2, <2>3 DEF NoneFound, NoneDepends
<1>2. CASE ~Walked(l)
  <2>1. items[Coarser[l]] = <<>>
    BY <1>2 DEF IInv, TypeOK, NotGroupedYet, Walked, GroupNum, Lots, Levels
  <2> QED
    BY <2>1 DEF NoneDepends
<1> QED
  BY <1>1, <1>2

(* In the end every object of a group is in a lot of the next.             *)
LEMMA EveryObjectHeld ==
  ASSUME IInv, GInv, phase = "done", NEW l \in Lots, NEW x \in Objects(l)
  PROVE  /\ HolderOf(Coarser[l], x) \in Objects(Coarser[l])
         /\ x \in items[Coarser[l]][HolderOf(Coarser[l], x)]
<1>1. level = "packs"
  BY DEF IInv, Control
<1>2. HasPlace(l, x)
  BY <1>1 DEF GInv, AllHavePlaces, Ordered, GroupNum, Lots, Levels
<1>3. InLot(l, x)
  BY <1>1, <1>2 DEF GInv, AllInLots, HasPlace, Ordered, GroupNum, Lots
<1>4. Coarser[l] # "eqs"
  BY DEF Coarser, Lots
<1> QED
  BY <1>3, <1>4, Zenon DEF InLot, HolderOf, Objects

(* In the end every object stands after all it depends on.                 *)
LEMMA StandsAfter ==
  ASSUME IInv, GInv, phase = "done", NEW l \in {"bundles", "packs"}, Acyclic(imm[l]),
         NEW x, NEW y, <<x, y>> \in Closure(imm[l])
  PROVE  PosnOf(l, y) < PosnOf(l, x)
<1>1. level = "packs" /\ l \in Levels
  BY DEF IInv, Control, Levels
<1>2. <<x, y>> \in full[l]
  BY <1>1 DEF GInv, Found, FoundAll, Walked, GroupNum
<1>3. x \in Objects(l) /\ y \in Objects(l) /\ x # y
  <2> DEFINE O == Objects(l)
             R == imm[l]
  <2>1. R \subseteq O \X O
    BY <1>1 DEF GInv, DepsOK
  <2>2. Closure(R) \subseteq O \X O
    <3> HIDE DEF O, R
    <3> QED
      BY <2>1, ClosureFacts
  <2> QED
    BY <2>2 DEF Acyclic
<1>4. HasPlace(l, x) /\ HasPlace(l, y)
  BY <1>1, <1>3 DEF GInv, AllHavePlaces, Ordered, GroupNum
<1> DEFINE i == PosnOf(l, x)
           j == PosnOf(l, y)
<1>5. i \in DOMAIN order[l] /\ order[l][i] = x /\ j \in DOMAIN order[l] /\ order[l][j] = y
  BY <1>4, Zenon DEF HasPlace, PosnOf
<1> HIDE DEF i, j
<1>6. order[l] \in Seq(Nat)
  BY <1>1 DEF IInv, TypeOK
<1>7. i \in 1 .. Len(order[l]) /\ j \in 1 .. Len(order[l]) /\ Len(order[l]) \in Nat
  BY <1>5, <1>6
<1>8. InOrderUpTo(l, Len(order[l]))
  BY <1>1 DEF IInv, SortedAsFound, OrderSettled, GroupNum, Levels
<1>9. i # j
  BY <1>3, <1>5
<1>10. ~(i < j)
  <2> SUFFICES ASSUME i < j PROVE FALSE
    OBVIOUS
  <2>1. i < Len(order[l])
    BY <1>7
  <2> QED
    BY <1>2, <1>5, <1>8, <2>1 DEF InOrderUpTo
<1>11. j < i
  BY <1>7, <1>9, <1>10
<1> QED
  BY <1>11 DEF i, j

(* Lots depend on each other as what they gather does.                     *)
LEMMA HoldersDepend ==
  ASSUME IInv, GInv, phase = "done", NEW l \in Lots, Acyclic(imm[l]),
         NEW x, NEW y, <<x, y>> \in Closure(imm[l])
  PROVE  /\ x \in Objects(l) /\ y \in Objects(l)
         /\ <<HolderOf(Coarser[l], x), HolderOf(Coarser[l], y)>> \in Closure(imm[Coarser[l]])
<1> DEFINE O == Objects(l)
           R == imm[l]
           up == Coarser[l]
           lots == items[up]
           h == [z \in O |-> HolderOf(up, z)]
<1>1. R \subseteq O \X O
  BY DEF GInv, DepsOK, Lots, Levels
<1>2. x \in O /\ y \in O
  <2>1. Closure(R) \subseteq O \X O
    <3> HIDE DEF O, R
    <3> QED
      BY <1>1, ClosureFacts
  <2> QED
    BY <2>1
<1>3. \A z \in O : h[z] \in DOMAIN lots /\ z \in lots[h[z]]
  <2>1. Objects(up) = DOMAIN lots
    BY DEF Objects, Coarser, Lots
  <2>2. \A z \in O : HolderOf(up, z) \in Objects(up) /\ z \in lots[HolderOf(up, z)]
    BY EveryObjectHeld
  <2> QED
    BY <2>1, <2>2
<1>4. \A k \in DOMAIN lots : \A a, b \in lots[k] : <<a, b>> \notin Closure(R)
  BY LotsFree DEF NoneDepends
<1>5. imm[up] = InheritDeps(lots, R)
  BY DEF GInv, Inherited, IInv, Control, Ordered, GroupNum, Coarser, Lots
<1>6. <<h[x], h[y]>> \in Closure(InheritDeps(lots, R))
  <2> HIDE DEF O, R, lots, h
  <2>1. <<x, y>> \in Closure(R)
    BY DEF R
  <2> QED
    BY <1>1, <1>2, <1>3, <1>4, <2>1, ClosureInherited
<1> QED
  BY <1>2, <1>5, <1>6

(* A scratch equation that e needs ends a path from e through scratch      *)
(* equations.                                                              *)
ScratchPath(R, e, p) == p \in VisitDeps(R, e) /\ \A i \in 2 .. Len(p) : IsScratchEq(p[i])

LEMMA NeededByPath ==
  ASSUME IInv, GInv, level = "packs", NEW e, NEW f
  PROVE  <<e, f>> \in scr["eqs"] <=>
           /\ e \in Eqs /\ ~IsScratchEq(e)
           /\ \E p : ScratchPath(imm["eqs"], e, p) /\ Len(p) > 1 /\ Last(p) = f
<1> DEFINE R == imm["eqs"]
           plain == {x \in Eqs : ~IsScratchEq(x)}
<1>1. scr["eqs"] = ScratchDeps(R)
  BY ScratchDepsSame DEF GInv, Inherited, Ordered, GroupNum
<1>2. IsFiniteSet(Eqs) /\ R \subseteq Eqs \X Eqs
  BY ObjectsFinite DEF IInv, TypeOK, GInv, DepsOK, Objects, Levels
<1> HIDE DEF R
<1>3. \A x \in Eqs : \A p \in VisitDeps(R, x) : Head(p) = x
  <2> SUFFICES ASSUME NEW x \in Eqs, NEW p \in VisitDeps(R, x) PROVE Head(p) = x
    OBVIOUS
  <2>1. IsPath(Eqs, R, x, p)
    BY <1>2, VisitDepsPaths
  <2>2. p \in Seq(Eqs) /\ p # <<>> /\ p[1] = x
    BY <2>1 DEF IsPath
  <2> QED
    BY <2>2
<1>4. <<e, f>> \in ScratchDeps(R) <=>
        \E p \in ScratchPaths(R) : Len(p) > 1 /\ e = Head(p) /\ f = Last(p)
  BY DEF ScratchDeps
<1>5. \A p : p \in ScratchPaths(R) <=> \E x \in plain : ScratchPath(R, x, p)
  BY DEF ScratchPaths, ScratchPath
<1>6. \A x, p : x \in plain /\ ScratchPath(R, x, p) => Head(p) = x
  BY <1>3 DEF ScratchPath
<1>7. <<e, f>> \in ScratchDeps(R) <=>
        e \in plain /\ \E p : ScratchPath(R, e, p) /\ Len(p) > 1 /\ Last(p) = f
  BY <1>4, <1>5, <1>6, Zenon
<1> QED
  BY <1>1, <1>7 DEF R

(* What e reads, itself or through its scratch equations, e depends on;    *)
(* what is a scratch equation of these, e needs.                           *)
LEMMA ReadThrough ==
  ASSUME IInv, GInv, phase = "done", Acyclic(imm["eqs"]),
         NEW e \in Eqs, ~IsScratchEq(e),
         NEW f \in {e} \cup DepsOn(scr["eqs"], e), NEW g \in DepsOn(imm["eqs"], f)
  PROVE  /\ f \in Eqs /\ g \in Eqs
         /\ <<f, g>> \in Closure(imm["eqs"]) /\ <<e, g>> \in Closure(imm["eqs"])
         /\ f # e => IsScratchEq(f)
         /\ IsScratchEq(g) => <<e, g>> \in scr["eqs"]
<1> DEFINE R == imm["eqs"]
<1>1. level = "packs"
  BY DEF IInv, Control
<1>2. IsFiniteSet(Eqs) /\ R \subseteq Eqs \X Eqs
  BY ObjectsFinite DEF IInv, TypeOK, GInv, DepsOK, Objects, Levels
<1>3. <<f, g>> \in R
  BY <1>2, DepsOnIff
<1>4. \A p \in VisitDeps(R, e) :
        /\ IsPath(Eqs, R, e, p)
        /\ \A b : <<Last(p), b>> \in R => Append(p, b) \in VisitDeps(R, e)
  <2> HIDE DEF R
  <2>1. Acyclic(R)
    BY DEF R
  <2> QED
    BY <1>2, <2>1, VisitDepsPaths, AcyclicExtends
<1>5. PICK p : ScratchPath(R, e, p) /\ Last(p) = f
  <2>1. CASE f = e
    <3>1. <<e>> \in VisitDeps(R, e)
      <4> HIDE DEF R
      <4> QED
        BY <1>2, VisitDepsPaths
    <3>2. Last(<<e>>) = e /\ \A i \in 2 .. Len(<<e>>) : FALSE
      BY DEF Last
    <3> QED
      BY <2>1, <3>1, <3>2 DEF ScratchPath
  <2>2. CASE f # e
    <3>1. \E d \in scr["eqs"] : d[1] = e /\ d[2] = f
      BY <2>2 DEF DepsOn
    <3>2. scr["eqs"] = ScratchDeps(R)
      BY <1>1, ScratchDepsSame DEF GInv, Inherited, Ordered, GroupNum
    <3>3. \A d \in ScratchDeps(R) : d = <<d[1], d[2]>>
      BY DEF ScratchDeps
    <3>4. <<e, f>> \in scr["eqs"]
      BY <3>1, <3>2, <3>3
    <3> QED
      BY <1>1, <3>4, NeededByPath
  <2> QED
    BY <2>1, <2>2
<1>6. IsPath(Eqs, R, e, p) /\ Append(p, g) \in VisitDeps(R, e)
  BY <1>3, <1>4, <1>5 DEF ScratchPath
<1>7. f \in Eqs /\ g \in Eqs
  BY <1>2, <1>3
<1> HIDE DEF R
<1>8. /\ Len(p) \in Nat /\ Len(p) >= 1 /\ f = p[Len(p)] /\ p[1] = e
      /\ Len(Append(p, g)) = Len(p) + 1
      /\ Last(Append(p, g)) = g
      /\ \A i \in 1 .. Len(p) : Append(p, g)[i] = p[i]
      /\ Append(p, g)[Len(p) + 1] = g
  <2>1. p \in Seq(Eqs)
    BY <1>6 DEF IsPath
  <2>2. Append(p, g)[Len(p) + 1] = g
    BY <1>7, <2>1
  <2>3. p[1] = e
    BY <1>6 DEF IsPath
  <2> QED
    BY <1>2, <1>5, <1>6, <1>7, <2>2, <2>3, PathsEnd
<1>9. f # e => IsScratchEq(f)
  <2> SUFFICES ASSUME f # e PROVE IsScratchEq(f)
    OBVIOUS
  <2>1. Len(p) \in 2 .. Len(p)
    BY <1>8
  <2> QED
    BY <1>5, <1>8, <2>1 DEF ScratchPath
<1>10. IsScratchEq(g) => <<e, g>> \in scr["eqs"]
  <2> SUFFICES ASSUME IsScratchEq(g) PROVE <<e, g>> \in scr["eqs"]
    OBVIOUS
  <2> DEFINE q == Append(p, g)
  <2>1. \A i \in 2 .. Len(q) : IsScratchEq(q[i])
    <3> SUFFICES ASSUME NEW i \in 2 .. Len(q) PROVE IsScratchEq(q[i])
      OBVIOUS
    <3>1. CASE i = Len(p) + 1
      BY <1>8, <3>1
    <3>2. CASE i # Len(p) + 1
      <4>1. i \in 2 .. Len(p) /\ i \in 1 .. Len(p)
        BY <1>8, <3>2
      <4>2. q[i] = p[i]
        BY <1>8, <4>1
      <4>3. IsScratchEq(p[i])
        BY <1>5, <4>1 DEF ScratchPath
      <4> QED
        BY <4>2, <4>3
    <3> QED
      BY <3>1, <3>2
  <2>2. Len(q) > 1 /\ Last(q) = g
    BY <1>8
  <2>3. q \in VisitDeps(R, e)
    BY <1>6
  <2> HIDE DEF q
  <2>4. ScratchPath(imm["eqs"], e, q)
    BY <2>1, <2>3 DEF ScratchPath, R
  <2> QED
    BY <1>1, <2>2, <2>4, NeededByPath
<1>11. <<f, g>> \in Closure(R)
  BY <1>2, <1>3, ClosureFacts
<1>12. <<e, g>> \in Closure(R)
  <2>1. CASE f = e
    BY <1>11, <2>1
  <2>2. CASE f # e
    <3>1. Len(p) # 1
      <4> SUFFICES ASSUME Len(p) = 1 PROVE FALSE
        OBVIOUS
      <4>1. f = p[1] /\ p[1] = e
        BY <1>8, Zenon
      <4> QED
        BY <2>2, <4>1
    <3>2. 1 \in 1 .. Len(p) /\ Len(p) \in 1 .. Len(p) /\ 1 < Len(p)
      <4>1. Len(p) \in Nat /\ Len(p) >= 1
        BY <1>8
      <4> QED
        BY <3>1, <4>1
    <3>3. <<p[1], p[Len(p)]>> \in Closure(R)
      BY <1>2, <1>6, <3>2, PathInClosure
    <3> QED
      BY <1>2, <1>3, <1>8, <3>3, ClosureFacts
  <2> QED
    BY <2>1, <2>2
<1> QED
  BY <1>7, <1>9, <1>10, <1>11, <1>12 DEF R

(* Everything an equation uses is there when it is evaluated.              *)
LEMMA DoneIsSound == IInv /\ GInv => ScheduleSound
<1> SUFFICES ASSUME IInv, GInv, phase = "done", \A l \in Levels : Acyclic(imm[l]),
                    NEW e \in Eqs, ~IsScratchEq(e),
                    NEW f \in {e} \cup DepsOn(scr["eqs"], e), NEW g \in DepsOn(imm["eqs"], f)
             PROVE  IF IsScratchEq(g) THEN InScratchOrder(e, g, f) ELSE RunsBefore(g, e)
  BY DEF ScheduleSound
<1>1. level = "packs"
  BY DEF IInv, Control
<1>2. Acyclic(imm["eqs"]) /\ Acyclic(imm["bundles"]) /\ Acyclic(imm["packs"])
  BY DEF Levels
<1>3. /\ f \in Eqs /\ g \in Eqs
      /\ <<f, g>> \in Closure(imm["eqs"]) /\ <<e, g>> \in Closure(imm["eqs"])
      /\ f # e => IsScratchEq(f)
      /\ IsScratchEq(g) => <<e, g>> \in scr["eqs"]
  BY <1>2, ReadThrough
<1>4. \A x, y : <<x, y>> \in Closure(imm["eqs"]) =>
        <<BundleOf(x), BundleOf(y)>> \in Closure(imm["bundles"])
  BY <1>2, HoldersDepend DEF BundleOf, Lots, Coarser
<1>5. \A x, y : <<x, y>> \in Closure(imm["bundles"]) =>
        <<HolderOf("packs", x), HolderOf("packs", y)>> \in Closure(imm["packs"])
  BY <1>2, HoldersDepend DEF Lots, Coarser
<1>6. CASE ~IsScratchEq(g)
  <2>1. <<HolderOf("packs", BundleOf(e)), HolderOf("packs", BundleOf(g))>> \in Closure(imm["packs"])
    BY <1>3, <1>4, <1>5
  <2>2. PackPosn(g) < PackPosn(e)
    BY <1>2, <2>1, StandsAfter DEF PackPosn
  <2> QED
    BY <1>6, <2>2 DEF RunsBefore
<1>7. CASE IsScratchEq(g)
  <2>1. \A x \in Eqs : BundleOf(x) \in DOMAIN items["bundles"] /\ x \in items["bundles"][BundleOf(x)]
    BY EveryObjectHeld DEF BundleOf, Objects, Lots, Coarser
  <2>2. BundleOf(e) # BundleOf(g)
    BY <1>3, <1>7, <2>1 DEF GInv, SameKind
  <2>3. scr["bundles"] = InheritDeps(items["bundles"], scr["eqs"])
    BY <1>1 DEF GInv, Inherited, Ordered, GroupNum
  <2>4. <<BundleOf(e), BundleOf(g)>> \in scr["bundles"]
    <3> DEFINE d == <<BundleOf(e), BundleOf(g)>>
    <3>1. d \in (DOMAIN items["bundles"]) \X (DOMAIN items["bundles"]) /\ d[1] # d[2]
      BY <1>3, <2>1, <2>2
    <3>2. e \in items["bundles"][d[1]] /\ g \in items["bundles"][d[2]]
      BY <1>3, <2>1
    <3> HIDE DEF d
    <3>3. d \in scr["bundles"]
      BY <1>3, <1>7, <2>3, <3>1, <3>2 DEF InheritDeps
    <3> QED
      BY <3>3 DEF d
  <2>5. PosnOf("bundles", BundleOf(g)) < PosnOf("bundles", BundleOf(f))
    BY <1>2, <1>3, <1>4, StandsAfter
  <2> QED
    BY <1>7, <2>4, <2>5 DEF InScratchOrder
<1> QED
  BY <1>6, <1>7

-----------------------------------------------------------------------------
(* The walks of find_all_deps() find all dependencies of a group, whichever*)
(* objects they start from and in whatever order, for every program: when  *)
(* they end, without cycles, what has been found is the closure.           *)
THEOREM WalksFindAll == Spec => []ClosureExact
<1>1. IInv /\ GInv => ClosureExact
  BY DEF IInv, TypeOK, GInv, Found, FoundAll, Walked, ClosureExact
<1> QED
  BY <1>1, GraphInvariant, PTL

(* No two equations of a bundle and no two bundles of a pack depend on     *)
(* each other, however indirectly, for every program without cycles.       *)
THEOREM LotsNeverDepend == Spec => []LotsIndependent
<1>1. IInv /\ GInv => LotsIndependent
  BY LotsFree DEF LotsIndependent, Lots, Coarser
<1> QED
  BY <1>1, GraphInvariant, PTL

(* In every accepted program without cycles, whatever the order of the     *)
(* walks, the kernel has computed what an equation reads when it evaluates *)
(* it, and evaluates its scratch equations first, in their order.          *)
THEOREM SchedulesAreSound == Spec => []ScheduleSound
  BY DoneIsSound, GraphInvariant, PTL

-----------------------------------------------------------------------------
(* Once a group is sorted, nothing in it stands before what it has been    *)
(* found to depend on, and it stays so: for all programs, with or without  *)
(* cycles, and all orders of the walks.                                    *)
THEOREM SortNeverUndone == Spec => []SortedAsFound
<1>1. IInv => SortedAsFound
  BY DEF IInv
<1> QED
  BY <1>1, InductiveInvariant, PTL

(* Bundles and packs never gather what has been found to depend on each    *)
(* other, in either direction, whatever the walks have missed.             *)
THEOREM LotsNeverMixDependents == Spec => []LotsIndependentAsFound
<1>1. IInv => LotsIndependentAsFound
  BY DEF IInv
<1> QED
  BY <1>1, InductiveInvariant, PTL
=============================================================================
