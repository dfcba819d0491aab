--------------------------- MODULE AutoTunerProofs ---------------------------
(***************************************************************************)
(* The tuner never measures a size twice in one search, and when it        *)
(* forgets its results, because it has converged or is reset, the best     *)
(* size it measured comes into force.  For any number of dims, any outer   *)
(* and start sizes, clusters, limits and rates, and resets at any time     *)
(* between two strides.                                                    *)
(***************************************************************************)
EXTENDS AutoTuner, TuplesProofs

-----------------------------------------------------------------------------
(* Sizes.                                                                  *)

LEMMA LargerOfTwo ==
  ASSUME NEW a \in Int, NEW b \in Int
  PROVE  Max({a, b}) \in {a, b} /\ Max({a, b}) >= a /\ Max({a, b}) >= b
<1>1. \E x \in {a, b} : \A y \in {a, b} : x >= y
  OBVIOUS
<1> QED
  BY <1>1 DEF Max

LEMMA SmallerOfTwo ==
  ASSUME NEW a \in Int, NEW b \in Int
  PROVE  Min({a, b}) \in {a, b}
<1>1. \E x \in {a, b} : \A y \in {a, b} : x =< y
  OBVIOUS
<1> QED
  BY <1>1 DEF Min

(* Rounding up keeps a size positive, and rounding twice is rounding once. *)
LEMMA RoundsUp ==
  ASSUME NEW n \in Nat \ {0}, NEW m \in Nat \ {0}
  PROVE  /\ RoundUp(n, m) \in Nat \ {0}
         /\ RoundUp(RoundUp(n, m), m) = RoundUp(n, m)
<1> DEFINE k == (n + m - 1) \div m
<1>1. k \in Nat /\ k >= 1
  <2>1. k \in Int /\ m * k <= n + m - 1 /\ n + m - 1 < m * k + m
    BY SMT
  <2>2. k > 0
    <3> SUFFICES ASSUME k <= 0
                 PROVE  FALSE
      BY <2>1
    <3>1. m * k <= 0
      BY <2>1
    <3> QED
      BY <2>1, <3>1
  <2> QED
    BY <2>1, <2>2
<1>2. \A i \in Nat : i >= 1 => i * m \in Nat /\ i * m >= m /\ (i * m + m - 1) \div m = i
  <2> SUFFICES ASSUME NEW i \in Nat, i >= 1
               PROVE  i * m \in Nat /\ i * m >= m /\ (i * m + m - 1) \div m = i
    OBVIOUS
  <2> DEFINE q == (i * m + m - 1) \div m
             d == q - i
  <2>1. i * m \in Nat /\ i * m >= m
    BY SMT
  <2>2. q \in Int /\ m * q <= i * m + m - 1 /\ i * m + m - 1 < m * q + m
    BY <2>1, SMT
  <2>3. d \in Int /\ m * d = m * q - i * m
    BY <2>2, SMT
  <2> HIDE DEF q
  <2>4. m * d <= m - 1 /\ m * d > -1
    BY <2>1, <2>2, <2>3, SMT
  <2> HIDE DEF d
  <2>5. d = 0
    <3>1. ASSUME d >= 1
          PROVE  FALSE
      <4>1. m * d >= m
        BY <2>3, <3>1, SMT
      <4> QED
        BY <2>3, <2>4, <4>1
    <3>2. ASSUME d <= -1
          PROVE  FALSE
      <4>1. m * d <= -1
        BY <2>3, <3>2, SMT
      <4> QED
        BY <2>3, <2>4, <4>1
    <3> QED
      BY <2>3, <3>1, <3>2
  <2>6. q = i
    BY <2>2, <2>5 DEF d
  <2> QED
    BY <2>1, <2>6 DEF q
<1>3. RoundUp(n, m) = k * m
  BY DEF RoundUp
<1> HIDE DEF k
<1>4. k * m \in Nat \ {0} /\ RoundUp(k * m, m) = k * m
  <2>1. k * m \in Nat /\ k * m >= m /\ (k * m + m - 1) \div m = k
    BY <1>1, <1>2
  <2> QED
    BY <2>1 DEF RoundUp
<1> QED
  BY <1>3, <1>4

-----------------------------------------------------------------------------
(* The inductive invariant.                                                *)

SizesType == [Sides -> Nat \ {0}]

(* Sizes that adjustSettings() leaves alone.                               *)
Fitted(sizes) == sizes \in SizesType /\ Apply(sizes) = sizes

(* The sizes in force are fitted; once measured, they are among the        *)
(* results.                                                                *)
InForce ==
  /\ Fitted(target_sizes)
  /\ Evaluating /\ ~in_warmup => target_sizes \notin DOMAIN results

(* The best rate is the highest of the results, and that of the best sizes.*)
BestKept ==
  /\ results \in [DOMAIN results -> Rates]
  /\ in_warmup => DOMAIN results = {}
  /\ best_rate \in Nat
  /\ \A z \in DOMAIN results : results[z] <= best_rate
  /\ DOMAIN results # {} =>
       Fitted(best_sizes) /\ best_sizes \in DOMAIN results
       /\ results[best_sizes] = best_rate
  /\ best_rate > 0 => DOMAIN results # {}

TunerInv ==
  /\ search \in Searches
  /\ center_sizes \in SizesType /\ best_sizes \in SizesType /\ radius \in Nat
  /\ InForce
  /\ BestKept

LEMMA SidesType ==
  ASSUME search \in Searches
  PROVE  /\ Sides = DOMAIN search.outer
         /\ search.outer \in SizesType
         /\ search.cluster \in SizesType
         /\ search.start \in [Sides -> Nat]
  BY SearchAssumption DEF Sides, SizesType

(* What comes into force is fitted.                                        *)
LEMMA ApplyFits ==
  ASSUME search \in Searches, NEW sizes \in [Sides -> Nat]
  PROVE  Fitted(Apply(sizes))
<1> DEFINE given(j) == IF sizes[j] = 0 THEN search.outer[j] ELSE sizes[j]
           fit == Apply(sizes)
<1>1. fit = [j \in Sides |-> RoundUp(given(j), search.cluster[j])]
  BY DEF Apply, FitSizes
<1>2. ASSUME NEW j \in Sides
      PROVE  /\ given(j) \in Nat \ {0} /\ search.cluster[j] \in Nat \ {0}
             /\ fit[j] \in Nat \ {0}
             /\ RoundUp(fit[j], search.cluster[j]) = fit[j]
  <2>1. given(j) \in Nat \ {0} /\ search.cluster[j] \in Nat \ {0}
    BY SidesType DEF SizesType
  <2>2. fit[j] = RoundUp(given(j), search.cluster[j])
    BY <1>1
  <2> HIDE DEF given, fit
  <2> QED
    BY <2>1, <2>2, RoundsUp
<1> HIDE DEF given
<1>3. fit \in SizesType
  BY <1>1, <1>2 DEF SizesType
<1>4. Apply(fit) = [j \in Sides |-> RoundUp(fit[j], search.cluster[j])]
  BY <1>1, <1>2 DEF Apply, FitSizes
<1>5. Apply(fit) = fit
  BY <1>1, <1>2, <1>4
<1> QED
  BY <1>3, <1>5 DEF Fitted

(* A candidate is in force as it was chosen.                               *)
LEMMA CandidateFits ==
  ASSUME search \in Searches, center_sizes \in SizesType, radius \in Nat,
         NEW ofs \in [Sides -> 0 .. 2], Allowed(ofs)
  PROVE  Fitted(Candidate(ofs))
<1> DEFINE cand == Candidate(ofs)
<1>1. cand = [j \in Sides |->
        RoundUp(Min({Moved(ofs)[j], search.outer[j]}), search.cluster[j])]
  BY DEF Candidate
<1>2. ASSUME NEW j \in Sides
      PROVE  /\ cand[j] \in Nat \ {0}
             /\ RoundUp(cand[j], search.cluster[j]) = cand[j]
  <2>1. /\ search.cluster[j] \in Nat \ {0} /\ search.outer[j] \in Nat \ {0}
        /\ center_sizes[j] \in Nat \ {0} /\ ofs[j] \in Int
    BY SidesType DEF SizesType
  <2> DEFINE step == Max({search.cluster[j], MinDist})
             m == Moved(ofs)[j]
  <2>2. step \in Int
    <3>1. MinDist \in Int /\ search.cluster[j] \in Int
      BY <2>1, TunerAssumption
    <3> QED
      BY <3>1, LargerOfTwo
  <2>3. m = center_sizes[j] + (ofs[j] - 1) * step * radius
    BY DEF Moved
  <2>4. m \in Int
    BY <2>1, <2>2, <2>3
  <2>5. m >= search.cluster[j]
    BY DEF Allowed
  <2> HIDE DEF m, step
  <2>6. Min({m, search.outer[j]}) \in Nat \ {0}
    BY <2>1, <2>4, <2>5, SmallerOfTwo
  <2>7. cand[j] = RoundUp(Min({m, search.outer[j]}), search.cluster[j])
    BY <1>1 DEF m
  <2> HIDE DEF cand
  <2> QED
    BY <2>1, <2>6, <2>7, RoundsUp
<1> HIDE DEF cand
<1>3. cand \in SizesType
  BY <1>1, <1>2 DEF SizesType
<1>4. Apply(cand) = [j \in Sides |-> RoundUp(cand[j], search.cluster[j])]
  BY <1>1, <1>2 DEF Apply, FitSizes
<1>5. Apply(cand) = cand
  BY <1>1, <1>2, <1>4
<1> QED
  BY <1>3, <1>5 DEF Fitted, cand

(* clear() starts anew with the best sizes in force.                       *)
LEMMA ClearInv ==
  ASSUME TunerInv, NEW mark \in BOOLEAN, Clear(mark), UNCHANGED search
  PROVE  TunerInv'
<1>1. Fitted(target_sizes')
  <2>1. CASE best_rate > 0
    BY <2>1 DEF TunerInv, BestKept, Fitted, Clear
  <2>2. CASE ~(best_rate > 0)
    BY <2>2 DEF TunerInv, InForce, Clear
  <2> QED
    BY <2>1, <2>2
<1>2. \A z : Fitted(z)' <=> Fitted(z)
  BY DEF Fitted, SizesType, Apply, Sides
<1>3. Fitted(target_sizes)'
  BY <1>1 DEF Fitted, SizesType, Apply, Sides
<1>4. InForce'
  BY <1>3 DEF InForce, Clear, Evaluating
<1>5. BestKept'
  BY DEF BestKept, Clear, NoResults
<1>6. SizesType' = SizesType
  BY DEF SizesType, Sides
<1> QED
  BY <1>1, <1>4, <1>5, <1>6, TunerAssumption DEF TunerInv, Clear, Fitted

(* A measurement is the first of its size.                                 *)
LEMMA MeasureInv ==
  ASSUME TunerInv, NEW rate \in Rates, Measure(rate)
  PROVE  TunerInv' /\ target_sizes \notin DOMAIN results
<1>1. target_sizes \notin DOMAIN results
  BY DEF TunerInv, InForce, Measure
<1>2. rate \in Nat \ {0} /\ best_rate \in Nat
  BY TunerAssumption DEF TunerInv, BestKept
<1>3. /\ DOMAIN results' = DOMAIN results \cup {target_sizes}
      /\ results'[target_sizes] = rate
      /\ \A z \in DOMAIN results : results'[z] = results[z]
      /\ results' \in [DOMAIN results' -> Rates]
  BY <1>1 DEF Measure, Recorded, TunerInv, BestKept
<1>4. UNCHANGED <<search, target_sizes, center_sizes, radius, in_warmup, done>>
      /\ searching' = TRUE /\ ~in_warmup
  BY DEF Measure
<1>5. \A z : Fitted(z)' <=> Fitted(z)
  BY <1>4 DEF Fitted, SizesType, Apply, Sides
<1>6. Fitted(target_sizes)' /\ SizesType' = SizesType
  BY <1>4 DEF TunerInv, InForce, Fitted, SizesType, Apply, Sides
<1>7. Fitted(best_sizes)' /\ best_sizes' \in DOMAIN results'
      /\ results'[best_sizes'] = best_rate' /\ best_rate' \in Nat
      /\ best_rate <= best_rate' /\ rate <= best_rate' /\ best_sizes' \in SizesType
  <2>1. CASE rate > best_rate
    <3>1. best_sizes' = target_sizes /\ best_rate' = rate
      BY <2>1 DEF Measure, IsBetter
    <3> QED
      BY <1>2, <1>3, <1>4, <1>6, <2>1, <3>1 DEF Fitted, SizesType, Apply, Sides
  <2>2. CASE ~(rate > best_rate)
    <3>1. best_sizes' = best_sizes /\ best_rate' = best_rate
      BY <2>2 DEF Measure, IsBetter
    <3>2. DOMAIN results # {}
      BY <1>2, <2>2 DEF TunerInv, BestKept
    <3>3. Fitted(best_sizes) /\ best_sizes \in DOMAIN results
          /\ results[best_sizes] = best_rate
      BY <3>2 DEF TunerInv, BestKept
    <3>4. Fitted(best_sizes)'
      BY <1>4, <3>1, <3>3 DEF Fitted, SizesType, Apply, Sides
    <3> QED
      BY <1>2, <1>3, <2>2, <3>1, <3>3, <3>4 DEF Fitted
  <2> QED
    BY <2>1, <2>2
<1>8. \A z \in DOMAIN results' : results'[z] <= best_rate'
  <2> SUFFICES ASSUME NEW z \in DOMAIN results'
               PROVE  results'[z] <= best_rate'
    OBVIOUS
  <2>1. CASE z = target_sizes
    BY <1>3, <1>7, <2>1
  <2>2. CASE z # target_sizes
    <3>1. z \in DOMAIN results /\ results'[z] = results[z]
      BY <1>3, <2>2
    <3>2. results[z] <= best_rate /\ results[z] \in Nat
      BY <3>1, TunerAssumption DEF TunerInv, BestKept
    <3> QED
      BY <1>2, <1>7, <3>1, <3>2
  <2> QED
    BY <2>1, <2>2
<1>9. InForce'
  BY <1>4, <1>6 DEF InForce, Evaluating
<1>10. BestKept'
  BY <1>3, <1>4, <1>7, <1>8 DEF BestKept
<1> QED
  BY <1>1, <1>4, <1>6, <1>7, <1>9, <1>10 DEF TunerInv

(* A neighbor that comes into force was not measured before.               *)
LEMMA TryNeighborInv ==
  ASSUME TunerInv, TryNeighbor
  PROVE  TunerInv'
<1>1. PICK ofs \in [Sides -> 0 .. 2] :
        LET ok == Allowed(ofs) /\ CheckSizes(Candidate(ofs)) /\ Untried(Candidate(ofs))
        IN  /\ target_sizes' = IF ok THEN Apply(Candidate(ofs)) ELSE target_sizes
            /\ searching' = ~ok
  BY DEF TryNeighbor
<1>2. UNCHANGED <<search, best_sizes, center_sizes, results, best_rate, radius, done,
                  in_warmup>>
  BY DEF TryNeighbor
<1>3. SizesType' = SizesType
  BY <1>2 DEF SizesType, Sides
<1>4. Fitted(target_sizes') /\ (~searching' => target_sizes' \notin DOMAIN results)
  <2>1. CASE Allowed(ofs) /\ CheckSizes(Candidate(ofs)) /\ Untried(Candidate(ofs))
    <3>1. Fitted(Candidate(ofs))
      BY <2>1, CandidateFits DEF TunerInv
    <3>2. target_sizes' = Candidate(ofs)
      BY <1>1, <2>1, <3>1 DEF Fitted
    <3> QED
      BY <2>1, <3>1, <3>2 DEF Untried
  <2>2. CASE ~(Allowed(ofs) /\ CheckSizes(Candidate(ofs)) /\ Untried(Candidate(ofs)))
    BY <1>1, <2>2 DEF TunerInv, InForce
  <2> QED
    BY <2>1, <2>2
<1>5. Fitted(target_sizes)' /\ (Fitted(best_sizes) => Fitted(best_sizes)')
  BY <1>2, <1>4 DEF Fitted, SizesType, Apply, Sides
<1>6. InForce'
  BY <1>2, <1>4, <1>5 DEF InForce, Evaluating
<1>7. BestKept'
  BY <1>2, <1>5 DEF TunerInv, BestKept
<1> QED
  BY <1>2, <1>3, <1>6, <1>7 DEF TunerInv

LEMMA EndWarmupInv ==
  ASSUME TunerInv, EndWarmup
  PROVE  TunerInv'
<1>1. UNCHANGED <<search, results, best_rate, radius, done, searching>>
      /\ in_warmup /\ best_sizes' = center_sizes'
  BY DEF EndWarmup
<1>2. center_sizes' \in SizesType
  <2>1. CASE CheckSizes(target_sizes)
    BY <2>1 DEF EndWarmup, TunerInv, InForce, Fitted
  <2>2. CASE ~CheckSizes(target_sizes)
    <3>1. center_sizes' = [j \in Sides |-> Max({1, search.outer[j] \div 2})]
      BY <2>2 DEF EndWarmup
    <3>2. \A j \in Sides : Max({1, search.outer[j] \div 2}) \in Nat \ {0}
      <4> SUFFICES ASSUME NEW j \in Sides
                   PROVE  Max({1, search.outer[j] \div 2}) \in Nat \ {0}
        OBVIOUS
      <4> DEFINE half == search.outer[j] \div 2
      <4>1. half \in Int
        BY SidesType DEF SizesType, TunerInv
      <4> HIDE DEF half
      <4>2. Max({1, half}) \in {1, half} /\ Max({1, half}) >= 1
        BY <4>1, LargerOfTwo
      <4>3. Max({1, half}) \in Nat \ {0}
        BY <4>1, <4>2
      <4> QED
        BY <4>3 DEF half
    <3> QED
      BY <3>1, <3>2 DEF SizesType
  <2> QED
    BY <2>1, <2>2
<1>3. Fitted(target_sizes')
  <2>1. target_sizes' = Apply(center_sizes')
    BY DEF EndWarmup
  <2>2. center_sizes' \in [Sides -> Nat]
    BY <1>2 DEF SizesType
  <2> QED
    BY <2>1, <2>2, ApplyFits DEF TunerInv
<1>4. Fitted(target_sizes)' /\ SizesType' = SizesType
  BY <1>1, <1>3 DEF Fitted, SizesType, Apply, Sides
<1>5. DOMAIN results = {}
  BY <1>1 DEF TunerInv, BestKept
<1>6. InForce'
  BY <1>1, <1>4, <1>5 DEF InForce
<1>7. BestKept'
  BY <1>1, <1>5 DEF TunerInv, BestKept
<1> QED
  BY <1>1, <1>2, <1>4, <1>6, <1>7 DEF TunerInv

(* The other steps leave sizes and results as they are.                    *)
LEMMA SameSizesInv ==
  ASSUME TunerInv, UNCHANGED <<search, target_sizes, best_sizes, results, best_rate,
                               done, in_warmup, searching>>,
         center_sizes' \in {center_sizes, best_sizes}, radius' \in Nat
  PROVE  TunerInv'
<1>1. SizesType' = SizesType /\ Fitted(target_sizes)'
      /\ (Fitted(best_sizes) => Fitted(best_sizes)')
  BY DEF SizesType, Sides, TunerInv, InForce, Fitted, Apply
<1>2. InForce'
  BY <1>1 DEF TunerInv, InForce, Evaluating
<1>3. BestKept'
  BY <1>1 DEF TunerInv, BestKept
<1> QED
  BY <1>1, <1>2, <1>3 DEF TunerInv

LEMMA InitTuner == Init => TunerInv
<1> SUFFICES ASSUME Init
             PROVE  TunerInv
  OBVIOUS
<1>1. search \in Searches /\ target_sizes = Apply(search.start) /\ in_warmup
      /\ center_sizes = target_sizes /\ best_sizes = target_sizes
      /\ results = NoResults /\ best_rate = 0 /\ radius = MaxRadius
  BY DEF Init
<1>2. Fitted(target_sizes)
  BY <1>1, SidesType, ApplyFits
<1>3. BestKept
  BY <1>1 DEF BestKept, NoResults
<1> QED
  BY <1>1, <1>2, <1>3, TunerAssumption DEF TunerInv, InForce, Fitted

LEMMA NextTuner == TunerInv /\ [Next]_vars => TunerInv'
<1> SUFFICES ASSUME TunerInv, [Next]_vars
             PROVE  TunerInv'
  OBVIOUS
<1>1. CASE Warmup \/ KeepMeasuring \/ UNCHANGED vars
  <2>1. UNCHANGED <<search, target_sizes, best_sizes, center_sizes, results, best_rate,
                    radius, done, in_warmup, searching>>
    BY <1>1 DEF Warmup, KeepMeasuring, vars, tuner
  <2> QED
    BY <2>1, SameSizesInv DEF TunerInv
<1>2. CASE EndWarmup
  BY <1>2, EndWarmupInv
<1>3. ASSUME NEW rate \in Rates, Measure(rate)
      PROVE  TunerInv'
  BY <1>3, MeasureInv
<1>4. CASE TryNeighbor
  BY <1>4, TryNeighborInv
<1>5. CASE NextCenter
  <2>1. UNCHANGED <<search, target_sizes, best_sizes, results, best_rate, done,
                    in_warmup, searching>> /\ center_sizes' = best_sizes
    BY <1>5 DEF NextCenter
  <2>2. radius' \in Nat
    BY <1>5 DEF NextCenter, NextRadius, TunerInv
  <2> QED
    BY <2>1, <2>2, SameSizesInv
<1>6. CASE Converge
  BY <1>6, ClearInv DEF Converge
<1>7. ASSUME NEW enable \in BOOLEAN, Reset(enable)
      PROVE  TunerInv'
  <2>1. Clear(~enable) /\ UNCHANGED search /\ (~enable) \in BOOLEAN
    BY <1>7 DEF Reset
  <2> QED
    BY <2>1, ClearInv
<1> QED
  BY <1>1, <1>2, <1>3, <1>4, <1>5, <1>6, <1>7 DEF Next, Eval

-----------------------------------------------------------------------------
(* What the search has covered.                                            *)

(* Sizes that are measured, or that are in force to be measured next.      *)
Known(sizes) ==
  sizes \in DOMAIN results \/ (~searching /\ sizes = target_sizes)

Covered(ofs) ==
  Allowed(ofs) /\ CheckSizes(Candidate(ofs)) => Known(Candidate(ofs))

(* Every candidate before the next neighbor is known or out of the limits; *)
(* until a better one is found the center is the best size.                *)
SearchInv ==
  /\ radius \in Nat \ {0}
  /\ neigh_idx \in 0 .. NeighborhoodSize
  /\ in_warmup => neigh_idx = 0
  /\ searching => ~done /\ ~in_warmup /\ DOMAIN results # {}
  /\ ~better_neigh_found => center_sizes = best_sizes
  /\ \A n \in 0 .. neigh_idx - 1 : Covered(Unlayout(Neighborhood, n))

(* The neighborhood is three points wide in every dim, and its points are  *)
(* the offsets of the neighbors.                                           *)
LEMMA NeighborhoodType ==
  ASSUME search \in Searches
  PROVE  /\ Neighborhood \in Seq(Nat \ {0})
         /\ Points(Neighborhood) = [Sides -> 0 .. 2]
         /\ NeighborhoodSize \in Nat
<1>1. search.outer \in Seq(Nat \ {0})
  BY SearchAssumption
<1>2. /\ Len(search.outer) \in Nat /\ Sides = 1 .. Len(search.outer)
  BY <1>1 DEF Sides
<1>3. Neighborhood = [j \in 1 .. Len(search.outer) |-> 3]
  BY <1>2 DEF Neighborhood
<1>4. Neighborhood \in Seq(Nat \ {0})
  BY <1>2, <1>3
<1>5. DOMAIN Neighborhood = Sides /\ \A j \in Sides : Neighborhood[j] = 3
  BY DEF Neighborhood
<1>6. Points(Neighborhood) = [Sides -> 0 .. 2]
  <2>1. Points(Neighborhood) = {pt \in [Sides -> Nat] : \A j \in Sides : pt[j] < 3}
    BY <1>5 DEF Points
  <2>2. ASSUME NEW pt
        PROVE  pt \in {q \in [Sides -> Nat] : \A j \in Sides : q[j] < 3}
                 <=> pt \in [Sides -> 0 .. 2]
    <3>1. \A i \in Nat : i < 3 <=> i \in 0 .. 2
      OBVIOUS
    <3>2. ASSUME pt \in [Sides -> Nat], \A j \in Sides : pt[j] < 3
          PROVE  pt \in [Sides -> 0 .. 2]
      <4>1. \A j \in Sides : pt[j] \in 0 .. 2
        BY <3>1, <3>2
      <4>2. pt = [j \in Sides |-> pt[j]]
        BY <3>2
      <4> QED
        BY <4>1, <4>2
    <3>3. ASSUME pt \in [Sides -> 0 .. 2]
          PROVE  pt \in [Sides -> Nat] /\ \A j \in Sides : pt[j] < 3
      <4>1. \A j \in Sides : pt[j] \in Nat /\ pt[j] < 3
        BY <3>1, <3>3
      <4>2. pt = [j \in Sides |-> pt[j]]
        BY <3>3
      <4> QED
        BY <4>1, <4>2
    <3> QED
      BY <3>2, <3>3
  <2> QED
    BY <2>1, <2>2
<1>7. NeighborhoodSize \in Nat
  <2>1. PICK f : /\ f \in [0 .. Len(Neighborhood) -> Nat \ {0}]
                 /\ TupleProduct(Neighborhood) = f[Len(Neighborhood)]
    BY <1>4, SizesBefore
  <2>2. Len(Neighborhood) \in 0 .. Len(Neighborhood)
    BY <1>4
  <2> QED
    BY <2>1, <2>2 DEF NeighborhoodSize
<1> QED
  BY <1>4, <1>6, <1>7

(* clear() forgets the search.                                             *)
LEMMA ClearSearch ==
  ASSUME search \in Searches, NEW mark, Clear(mark), UNCHANGED search
  PROVE  SearchInv'
<1>1. /\ radius' = MaxRadius /\ neigh_idx' = 0 /\ in_warmup' /\ ~searching'
      /\ center_sizes' = best_sizes'
  BY DEF Clear
<1>2. NeighborhoodSize' \in Nat
  BY NeighborhoodType DEF NeighborhoodSize, Neighborhood, Sides
<1>3. MaxRadius \in Nat \ {0}
  BY TunerAssumption
<1>4. \A n \in 0 .. neigh_idx' - 1 : FALSE
  BY <1>1
<1> QED
  BY <1>1, <1>2, <1>3, <1>4 DEF SearchInv

(* Whether a neighbor is covered after a step with the same center and     *)
(* radius depends only on what is known after it.                          *)
LEMMA CoveredAfter ==
  ASSUME UNCHANGED <<search, center_sizes, radius>>, NEW n, NEW ofs, NEW cand,
         ofs = Unlayout(Neighborhood, n), cand = Candidate(ofs),
         Allowed(ofs) /\ CheckSizes(cand) => Known(cand)'
  PROVE  Covered(Unlayout(Neighborhood, n))'
<1>1. Sides' = Sides /\ Neighborhood' = Neighborhood
  BY DEF Sides, Neighborhood
<1>2. ofs = Unlayout(Neighborhood, n)'
  BY <1>1 DEF Unlayout
<1>3. (Allowed(ofs)' <=> Allowed(ofs)) /\ cand = Candidate(ofs)'
  BY <1>1 DEF Allowed, Candidate, Moved
<1>4. CheckSizes(cand)' <=> CheckSizes(cand)
  BY DEF CheckSizes
<1> QED
  BY <1>2, <1>3, <1>4 DEF Covered

(* What is covered stays so while the center is the same and nothing is    *)
(* forgotten.                                                              *)
LEMMA StaysCovered ==
  ASSUME UNCHANGED <<search, center_sizes, radius>>,
         \A sizes : Known(sizes) => Known(sizes)'
  PROVE  /\ NeighborhoodSize' = NeighborhoodSize
         /\ \A n : Covered(Unlayout(Neighborhood, n)) => Covered(Unlayout(Neighborhood, n))'
<1>1. NeighborhoodSize' = NeighborhoodSize
  BY DEF NeighborhoodSize, Neighborhood, Sides
<1>2. ASSUME NEW n, Covered(Unlayout(Neighborhood, n))
      PROVE  Covered(Unlayout(Neighborhood, n))'
  <2> DEFINE ofs == Unlayout(Neighborhood, n)
             cand == Candidate(ofs)
  <2>1. Allowed(ofs) /\ CheckSizes(cand) => Known(cand)
    BY <1>2 DEF Covered
  <2>2. \E o, c : /\ o = ofs /\ c = Candidate(o)
                  /\ Allowed(o) /\ CheckSizes(c) => Known(c)'
    <3>1. \E o, c : /\ o = ofs /\ c = Candidate(o)
                    /\ Allowed(o) /\ CheckSizes(c) => Known(c)
      BY <2>1
    <3> QED
      BY <3>1
  <2> QED
    BY <2>2, CoveredAfter
<1> QED
  BY <1>1, <1>2

(* What the application relies on: whatever rates are measured and         *)
(* whenever the tuner converges or is reset, no size is measured twice in  *)
(* one search and the best measured size is in force after it (eval() and  *)
(* clear(), auto_tuner.cpp).                                               *)
THEOREM BestIsApplied == Spec => EndsWithBest
<1> DEFINE A == /\ results' \in {results, NoResults} \/ target_sizes \notin DOMAIN results
                /\ results' = NoResults /\ results # NoResults =>
                     /\ target_sizes' \in DOMAIN results
                     /\ \A z \in DOMAIN results : results[z] <= results[target_sizes']
<1>1. ASSUME TunerInv, NEW mark \in BOOLEAN, Clear(mark)
      PROVE  A
  <2>1. results' = NoResults
    BY <1>1 DEF Clear
  <2>2. ASSUME results # NoResults
        PROVE  /\ target_sizes' \in DOMAIN results
               /\ \A z \in DOMAIN results : results[z] <= results[target_sizes']
    <3>1. DOMAIN results # {}
      BY <1>1, <2>2 DEF TunerInv, BestKept, NoResults
    <3>2. Fitted(best_sizes) /\ best_sizes \in DOMAIN results
          /\ results[best_sizes] = best_rate /\ best_rate \in Nat
          /\ \A z \in DOMAIN results : results[z] <= best_rate
      BY <1>1, <3>1 DEF TunerInv, BestKept
    <3>3. best_rate > 0
      BY <1>1, <3>2, TunerAssumption DEF TunerInv, BestKept
    <3>4. target_sizes' = best_sizes
      BY <1>1, <3>2, <3>3 DEF Clear, Fitted
    <3> QED
      BY <3>2, <3>4
  <2> QED
    BY <2>1, <2>2
<1>2. TunerInv /\ [Next]_vars => A \/ UNCHANGED vars
  <2> SUFFICES ASSUME TunerInv, Next
               PROVE  A
    OBVIOUS
  <2>1. CASE Converge
    BY <1>1, <2>1 DEF Converge
  <2>2. ASSUME NEW enable \in BOOLEAN, Reset(enable)
        PROVE  A
    <3>1. Clear(~enable) /\ (~enable) \in BOOLEAN
      BY <2>2 DEF Reset
    <3> QED
      BY <1>1, <3>1
  <2>3. ASSUME NEW rate \in Rates, Measure(rate)
        PROVE  A
    <3>1. target_sizes \notin DOMAIN results
      BY <2>3, MeasureInv
    <3>2. results' # NoResults
      <4>1. target_sizes \in DOMAIN results'
        BY <2>3 DEF Measure, Recorded
      <4>2. DOMAIN NoResults = {}
        BY DEF NoResults
      <4> QED
        BY <4>1, <4>2
    <3> QED
      BY <3>1, <3>2
  <2>4. CASE Warmup \/ EndWarmup \/ KeepMeasuring \/ TryNeighbor \/ NextCenter
    <3>1. results' = results
      BY <2>4 DEF Warmup, EndWarmup, KeepMeasuring, TryNeighbor, NextCenter
    <3> QED
      BY <3>1
  <2> QED
    BY <2>1, <2>2, <2>3, <2>4 DEF Next, Eval
<1>3. TunerInv /\ TunerInv' /\ [Next]_vars => [A]_vars
  BY <1>2
<1> QED
  BY InitTuner, NextTuner, <1>3, PTL DEF Spec, EndsWithBest

-----------------------------------------------------------------------------
(* Every step of the search keeps what it has covered.                     *)

LEMMA InitSearch == Init => SearchInv
<1> SUFFICES ASSUME Init
             PROVE  SearchInv
  OBVIOUS
<1>1. /\ radius = MaxRadius /\ neigh_idx = 0 /\ ~searching /\ center_sizes = best_sizes
      /\ NeighborhoodSize \in Nat
  BY NeighborhoodType DEF Init
<1>2. \A n \in 0 .. neigh_idx - 1 : FALSE
  BY <1>1
<1> QED
  BY <1>1, <1>2, TunerAssumption DEF SearchInv

(* Steps that try no neighbor and choose no center.                        *)
LEMMA SameCenterSearch ==
  ASSUME SearchInv, UNCHANGED <<search, center_sizes, radius, neigh_idx, in_warmup, done>>,
         \A sizes : Known(sizes) => Known(sizes)',
         searching' => ~done /\ ~in_warmup /\ DOMAIN results' # {},
         ~better_neigh_found' => center_sizes' = best_sizes'
  PROVE  SearchInv'
<1>1. /\ NeighborhoodSize' = NeighborhoodSize
      /\ \A n : Covered(Unlayout(Neighborhood, n)) => Covered(Unlayout(Neighborhood, n))'
  BY StaysCovered
<1>2. \A n \in 0 .. neigh_idx' - 1 : Covered(Unlayout(Neighborhood, n))'
  BY <1>1 DEF SearchInv
<1> QED
  BY <1>1, <1>2 DEF SearchInv

LEMMA MeasureSearch ==
  ASSUME TunerInv, SearchInv, NEW rate \in Rates, Measure(rate)
  PROVE  SearchInv'
<1>1. UNCHANGED <<search, target_sizes, center_sizes, radius, neigh_idx, in_warmup, done>>
      /\ searching' /\ ~done /\ ~in_warmup
  BY DEF Measure, Evaluating
<1>2. DOMAIN results' = DOMAIN results \cup {target_sizes}
  BY DEF Measure, Recorded
<1>3. \A sizes : Known(sizes) => Known(sizes)'
  BY <1>2 DEF Known
<1>4. ~better_neigh_found' => center_sizes' = best_sizes'
  <2>1. CASE IsBetter(rate)
    BY <2>1 DEF Measure
  <2>2. CASE ~IsBetter(rate)
    BY <2>2 DEF Measure, SearchInv
  <2> QED
    BY <2>1, <2>2
<1> QED
  BY <1>1, <1>2, <1>3, <1>4, SameCenterSearch

LEMMA EndWarmupSearch ==
  ASSUME TunerInv, SearchInv, EndWarmup
  PROVE  SearchInv'
<1>1. /\ UNCHANGED <<search, radius, neigh_idx, searching>> /\ neigh_idx = 0
      /\ ~searching /\ best_sizes' = center_sizes'
  BY DEF EndWarmup, SearchInv
<1>2. NeighborhoodSize' \in Nat
  BY <1>1, NeighborhoodType DEF TunerInv, NeighborhoodSize, Neighborhood, Sides
<1>3. \A n \in 0 .. neigh_idx' - 1 : FALSE
  BY <1>1
<1> QED
  BY <1>1, <1>2, <1>3 DEF SearchInv

(* A neighbor that is allowed comes into force unless it is a result.      *)
LEMMA TryNeighborSearch ==
  ASSUME TunerInv, SearchInv, TryNeighbor
  PROVE  SearchInv'
<1> DEFINE cur == Unlayout(Neighborhood, neigh_idx)
           ok == Allowed(cur) /\ CheckSizes(Candidate(cur)) /\ Untried(Candidate(cur))
<1>1. /\ searching /\ neigh_idx < NeighborhoodSize /\ neigh_idx' = neigh_idx + 1
      /\ UNCHANGED <<search, best_sizes, center_sizes, results, best_rate, radius, done,
                     better_neigh_found, in_warmup>>
  BY DEF TryNeighbor
<1>2. /\ cur \in [Sides -> 0 .. 2]
      /\ target_sizes' = IF ok THEN Apply(Candidate(cur)) ELSE target_sizes
      /\ searching' = ~ok
  BY DEF TryNeighbor
<1>3. \A sizes : Known(sizes) => Known(sizes)'
  BY <1>1 DEF Known
<1>4. /\ NeighborhoodSize' = NeighborhoodSize
      /\ \A n : Covered(Unlayout(Neighborhood, n)) => Covered(Unlayout(Neighborhood, n))'
  BY <1>1, <1>3, StaysCovered
<1>5. \E n, o, c :
        /\ n = neigh_idx /\ o = Unlayout(Neighborhood, n) /\ c = Candidate(o)
        /\ Allowed(o) /\ CheckSizes(c) => Known(c)'
  <2>1. \E n, o, c : n = neigh_idx /\ o = Unlayout(Neighborhood, n) /\ c = Candidate(o)
    OBVIOUS
  <2>2. PICK n, o, c : n = neigh_idx /\ o = Unlayout(Neighborhood, n) /\ c = Candidate(o)
    BY <2>1
  <2>3. o = cur /\ c = Candidate(cur)
    BY <2>2
  <2>4. ASSUME Allowed(o), CheckSizes(c)
        PROVE  Known(c)'
    <3>1. CASE c \in DOMAIN results
      BY <1>1, <3>1 DEF Known
    <3>2. CASE c \notin DOMAIN results
      <4>1. ok
        BY <2>3, <2>4, <3>2 DEF Untried
      <4>2. Fitted(c)
        BY <1>2, <2>3, <2>4, CandidateFits DEF TunerInv, SearchInv
      <4>3. target_sizes' = c /\ ~searching'
        BY <1>2, <2>3, <4>1, <4>2 DEF Fitted
      <4> QED
        BY <4>3 DEF Known
    <3> QED
      BY <3>1, <3>2
  <2> QED
    BY <2>2, <2>4
<1>6. ASSUME NEW n \in 0 .. neigh_idx' - 1
      PROVE  Covered(Unlayout(Neighborhood, n))'
  <2>1. CASE n = neigh_idx
    <3>1. PICK o, c : /\ o = Unlayout(Neighborhood, n) /\ c = Candidate(o)
                      /\ Allowed(o) /\ CheckSizes(c) => Known(c)'
      BY <1>5, <2>1
    <3>2. UNCHANGED <<search, center_sizes, radius>>
      BY <1>1
    <3> QED
      BY <3>1, <3>2, CoveredAfter
  <2>2. CASE n # neigh_idx
    <3>1. n \in 0 .. neigh_idx - 1
      BY <1>1, <1>6, <2>2 DEF SearchInv
    <3> QED
      BY <1>4, <3>1 DEF SearchInv
  <2> QED
    BY <2>1, <2>2
<1>7. neigh_idx' \in 0 .. NeighborhoodSize'
  BY <1>1, <1>4, NeighborhoodType DEF SearchInv, TunerInv
<1> QED
  BY <1>1, <1>6, <1>7 DEF SearchInv

LEMMA NextCenterSearch ==
  ASSUME TunerInv, SearchInv, NextCenter
  PROVE  SearchInv'
<1>1. /\ neigh_idx' = 0 /\ center_sizes' = best_sizes' /\ searching' = searching
      /\ UNCHANGED <<search, results, done, in_warmup>>
  BY DEF NextCenter
<1>2. radius' \in Nat \ {0}
  <2>1. CASE better_neigh_found
    BY <2>1 DEF NextCenter, SearchInv
  <2>2. CASE ~better_neigh_found
    BY <2>2 DEF NextCenter, NextRadius, SearchInv
  <2> QED
    BY <2>1, <2>2
<1>3. NeighborhoodSize' \in Nat
  BY <1>1, NeighborhoodType DEF TunerInv, NeighborhoodSize, Neighborhood, Sides
<1>4. \A n \in 0 .. neigh_idx' - 1 : FALSE
  BY <1>1
<1> QED
  BY <1>1, <1>2, <1>3, <1>4 DEF SearchInv

LEMMA NextSearch == TunerInv /\ SearchInv /\ [Next]_vars => SearchInv'
<1> SUFFICES ASSUME TunerInv, SearchInv, [Next]_vars
             PROVE  SearchInv'
  OBVIOUS
<1>1. CASE Warmup \/ KeepMeasuring \/ UNCHANGED vars
  <2>1. UNCHANGED <<search, target_sizes, best_sizes, center_sizes, results, radius, done,
                    neigh_idx, better_neigh_found, in_warmup, searching>>
    BY <1>1 DEF Warmup, KeepMeasuring, vars, tuner
  <2>2. \A sizes : Known(sizes) => Known(sizes)'
    BY <2>1 DEF Known
  <2> QED
    BY <2>1, <2>2, SameCenterSearch DEF SearchInv
<1>2. ASSUME NEW rate \in Rates, Measure(rate)
      PROVE  SearchInv'
  BY <1>2, MeasureSearch
<1>3. CASE Converge
  BY <1>3, ClearSearch DEF Converge, TunerInv
<1>4. ASSUME NEW enable \in BOOLEAN, Reset(enable)
      PROVE  SearchInv'
  <2>1. Clear(~enable) /\ UNCHANGED search
    BY <1>4 DEF Reset
  <2> QED
    BY <2>1, ClearSearch DEF TunerInv
<1> QED
  BY <1>1, <1>2, <1>3, <1>4, EndWarmupSearch, TryNeighborSearch, NextCenterSearch
     DEF Next, Eval

(* At radius one, the sizes near the center are its candidates.            *)
LEMMA NearIsCandidate ==
  ASSUME search \in Searches, radius = 1, center_sizes = best_sizes,
         best_sizes \in SizesType, NEW d \in [Sides -> {-1, 0, 1}],
         Cardinality({j \in Sides : d[j] # 0}) <= 2,
         \A j \in Sides : best_sizes[j] + d[j] * Max({search.cluster[j], MinDist})
                            >= search.cluster[j]
  PROVE  \E ofs \in [Sides -> 0 .. 2] : Allowed(ofs) /\ Candidate(ofs) = Near(best_sizes, d)
<1> DEFINE ofs == [j \in Sides |-> d[j] + 1]
           step(j) == Max({search.cluster[j], MinDist})
<1>1. \A j \in Sides : d[j] \in {-1, 0, 1}
  OBVIOUS
<1>2. ofs \in [Sides -> 0 .. 2]
  <2>1. \A j \in Sides : d[j] + 1 \in 0 .. 2
    BY <1>1
  <2> QED
    BY <2>1
<1>3. \A j \in Sides : ofs[j] = d[j] + 1
  OBVIOUS
<1>4. ASSUME NEW j \in Sides
      PROVE  Moved(ofs)[j] = best_sizes[j] + d[j] * step(j)
  <2>1. step(j) \in Int
    <3>1. MinDist \in Int /\ search.cluster[j] \in Int
      BY SidesType, TunerAssumption DEF SizesType
    <3> QED
      BY <3>1, LargerOfTwo
  <2>2. Moved(ofs)[j] = center_sizes[j] + (ofs[j] - 1) * step(j) * radius
    BY DEF Moved
  <2>3. ofs[j] - 1 = d[j] /\ d[j] \in Int
    BY <1>1, <1>3
  <2> HIDE DEF ofs, step
  <2>4. d[j] * step(j) \in Int /\ d[j] * step(j) * 1 = d[j] * step(j)
    BY <2>1, <2>3
  <2> QED
    BY <2>2, <2>3, <2>4
<1>5. {j \in Sides : ofs[j] # 1} = {j \in Sides : d[j] # 0}
  BY <1>1, <1>3
<1> HIDE DEF ofs
<1>6. Allowed(ofs)
  BY <1>4, <1>5 DEF Allowed
<1>7. Candidate(ofs) = Near(best_sizes, d)
  BY <1>4 DEF Candidate, Near
<1> QED
  BY <1>2, <1>6, <1>7

(* When the search converges, it has covered all neighbors of the best     *)
(* size at radius one.                                                     *)
LEMMA ConvergeCovers ==
  ASSUME TunerInv, SearchInv, Converge, NEW d \in [Sides -> {-1, 0, 1}],
         Cardinality({j \in Sides : d[j] # 0}) <= 2,
         \A j \in Sides : best_sizes[j] + d[j] * Max({search.cluster[j], MinDist})
                            >= search.cluster[j],
         CheckSizes(Near(best_sizes, d))
  PROVE  /\ Near(best_sizes, d) \in DOMAIN results
         /\ results[Near(best_sizes, d)] <= results[target_sizes']
<1>1. /\ searching /\ neigh_idx = NeighborhoodSize /\ ~better_neigh_found
      /\ NextRadius(radius) < 1 /\ Clear(TRUE) /\ UNCHANGED search
  BY DEF Converge, BeyondLastNeighbor
<1>2. radius = 1
  BY <1>1 DEF SearchInv, NextRadius
<1>3. PICK ofs \in [Sides -> 0 .. 2] : Allowed(ofs) /\ Candidate(ofs) = Near(best_sizes, d)
  BY <1>1, <1>2, NearIsCandidate DEF TunerInv, SearchInv
<1>4. \E n \in 0 .. neigh_idx - 1 : ofs = Unlayout(Neighborhood, n)
  <2>1. Neighborhood \in Seq(Nat \ {0}) /\ ofs \in Points(Neighborhood)
    BY NeighborhoodType DEF TunerInv
  <2>2. /\ LayoutIndex(Neighborhood, ofs) \in 0 .. TupleProduct(Neighborhood) - 1
        /\ Unlayout(Neighborhood, LayoutIndex(Neighborhood, ofs)) = ofs
    BY <2>1, UnlayoutOfIndex
  <2> QED
    BY <1>1, <2>2 DEF NeighborhoodSize
<1>5. Covered(ofs)
  BY <1>4 DEF SearchInv
<1>6. Near(best_sizes, d) \in DOMAIN results
  BY <1>1, <1>3, <1>5 DEF Covered, Known
<1>7. /\ best_sizes \in DOMAIN results /\ results[best_sizes] = best_rate
      /\ Fitted(best_sizes) /\ \A z \in DOMAIN results : results[z] <= best_rate
  BY <1>6 DEF TunerInv, BestKept
<1>8. best_rate > 0
  BY <1>7, TunerAssumption DEF TunerInv, BestKept
<1>9. target_sizes' = best_sizes
  BY <1>1, <1>7, <1>8 DEF Clear, Fitted
<1> QED
  BY <1>6, <1>7, <1>9

(* A converged search has found a local optimum, whatever the dims, sizes, *)
(* limits and rates: the loop over the neighborhood misses none of the     *)
(* sizes one step away from the best one, skips only those that are out of *)
(* the limits or were measured, and none of them was faster (eval(),       *)
(* auto_tuner.cpp).                                                        *)
THEOREM ConvergesToOptimum == Spec => LocalOptimum
<1> DEFINE B == searching /\ done' =>
                  \A d \in [Sides -> {-1, 0, 1}] :
                    /\ Cardinality({j \in Sides : d[j] # 0}) <= 2
                    /\ \A j \in Sides : best_sizes[j] + d[j] * Max({search.cluster[j], MinDist})
                                        >= search.cluster[j]
                    /\ CheckSizes(Near(best_sizes, d))
                    => /\ Near(best_sizes, d) \in DOMAIN results
                       /\ results[Near(best_sizes, d)] <= results[target_sizes']
<1>1. TunerInv /\ SearchInv /\ [Next]_vars => B \/ UNCHANGED vars
  <2> SUFFICES ASSUME TunerInv, SearchInv, Next, searching, done'
               PROVE  B
    OBVIOUS
  <2>1. Converge
    BY DEF Next, Eval, Warmup, EndWarmup, KeepMeasuring, Measure, TryNeighbor, NextCenter,
           Reset, SearchInv
  <2> QED
    BY <2>1, ConvergeCovers
<1>2. TunerInv /\ SearchInv /\ [Next]_vars => [B]_vars
  BY <1>1
<1> QED
  BY InitTuner, NextTuner, InitSearch, NextSearch, <1>2, PTL DEF Spec, LocalOptimum

=============================================================================
