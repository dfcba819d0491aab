------------------------------ MODULE AutoTuner ------------------------------
(***************************************************************************)
(* The auto-tuner's search for block sizes.  The step loop calls eval()    *)
(* after every stride it has run with the sizes in force.  The tuner warms *)
(* up, then measures one size after the other: the untried neighbours of a *)
(* center, then those of the best size found, at a radius that halves when *)
(* no neighbour is better, until the radius is below one.                  *)
(*                                                                         *)
(* A size is a tuple over the domain dims; its step dim never changes.     *)
(* The sizes apply() derives from the ones being tuned (mini-blocks, sub-  *)
(* blocks, temporal-blocking data, scratch vars) are functions of them and *)
(* not kept here.                                                          *)
(* What a stride takes is up to the machine: the time is over or not, and  *)
(* the measured rate is any of Rates.  The search loop inside eval() is    *)
(* one action per turn ("searching"), with nothing else in between.        *)
(***************************************************************************)
EXTENDS TilingGeometry, Tuples

CONSTANTS
  Searches,      \* records of outer, cluster and start sizes
  Rates,         \* the rates a measurement can give, in steps per second
  MaxRadius, MinDist, MinPts, MinBlks, WarmupSteps, MinSteps,
  MaxResets      \* bound: calls of reset_auto_tuner()

ASSUME TunerAssumption ==
  /\ Rates \subseteq Nat \ {0}
  /\ {MaxRadius, MinDist, WarmupSteps, MinSteps} \subseteq Nat \ {0}
  /\ {MinPts, MinBlks, MaxResets} \subseteq Nat

(* Outer sizes and clusters are set and whole; start sizes may be unset.   *)
ASSUME SearchAssumption ==
  \A s \in Searches :
    /\ s.outer \in Seq(Nat \ {0})
    /\ s.cluster \in [DOMAIN s.outer -> Nat \ {0}]
    /\ s.start \in [DOMAIN s.outer -> Nat]

VARIABLES
  search,        \* the search's outer, cluster and start sizes
  target_sizes, best_sizes, center_sizes,
  results,       \* size -> rate, for the sizes measured
  best_rate, radius, done, neigh_idx, better_neigh_found, csteps, in_warmup,
  searching,     \* eval() is in its loop over candidates
  resets

tuner == <<best_sizes, center_sizes, results, best_rate, radius, done,
           neigh_idx, better_neigh_found, csteps, in_warmup>>
vars == <<search, target_sizes, tuner, searching, resets>>

-----------------------------------------------------------------------------
Sides == DOMAIN search.outer
NumDomainPoints(sizes) == FoldFunction(LAMBDA a, b : a * b, 1, sizes)
Neighborhood == [j \in Sides |-> 3]
NeighborhoodSize == TupleProduct(Neighborhood)

(* Large enough a block, and enough blocks for the threads.                *)
CheckSizes(sizes) ==
  /\ NumDomainPoints(sizes) >= MinPts
  /\ NumDomainPoints(search.outer) \div NumDomainPoints(sizes) >= MinBlks

(* The sizes in force once adjustSettings() has seen them.                 *)
Apply(sizes) == FitSizes(sizes, search.outer, search.cluster)

NextRadiusMutant(r) == CeilDiv(r, 2)
NextRadius(r) == r \div 2

Moved(ofs) ==
  [j \in Sides |->
     center_sizes[j] + (ofs[j] - 1) * Max({search.cluster[j], MinDist}) * radius]

AllowedMutant(ofs) ==
  \A j \in Sides : Moved(ofs)[j] > search.cluster[j]
Allowed(ofs) ==
  /\ Cardinality({j \in Sides : ofs[j] # 1}) <= 2
  /\ \A j \in Sides : Moved(ofs)[j] >= search.cluster[j]

Candidate(ofs) ==
  [j \in Sides |-> RoundUp(Min({Moved(ofs)[j], search.outer[j]}), search.cluster[j])]

IsBetterMutant(rate) == rate # best_rate
IsBetter(rate) == rate > best_rate

Untried(sizes) == sizes \notin DOMAIN results

-----------------------------------------------------------------------------
NoResults == [sizes \in {} |-> 0]

(* clear(): the best known sizes come into force, all else starts anew.    *)
Clear(mark_done) ==
  /\ target_sizes' = IF best_rate > 0 THEN Apply(best_sizes) ELSE target_sizes
  /\ center_sizes' = target_sizes' /\ best_sizes' = target_sizes'
  /\ results' = NoResults /\ best_rate' = 0 /\ radius' = MaxRadius
  /\ done' = mark_done /\ neigh_idx' = 0 /\ better_neigh_found' = FALSE
  /\ csteps' = 0 /\ in_warmup' = TRUE /\ searching' = FALSE

Init ==
  /\ search \in Searches
  /\ target_sizes = Apply(search.start)
  /\ center_sizes = target_sizes /\ best_sizes = target_sizes
  /\ results = NoResults /\ best_rate = 0 /\ radius = MaxRadius
  /\ done = FALSE /\ neigh_idx = 0 /\ better_neigh_found = FALSE
  /\ csteps = 0 /\ in_warmup = TRUE /\ searching = FALSE /\ resets = 0

(* eval() is called after one more step.                                   *)
Evaluating == ~done /\ ~searching

Warmup ==
  /\ Evaluating /\ in_warmup /\ csteps + 1 < WarmupSteps
  /\ csteps' = csteps + 1
  /\ UNCHANGED <<search, target_sizes, best_sizes, center_sizes, results, best_rate,
                 radius, done, neigh_idx, better_neigh_found, in_warmup, searching, resets>>

(* The search starts from the sizes in force, or from half the outer ones. *)
EndWarmup ==
  /\ Evaluating /\ in_warmup
  /\ center_sizes' = IF CheckSizes(target_sizes)
                       THEN target_sizes
                       ELSE [j \in Sides |-> Max({1, search.outer[j] \div 2})]
  /\ best_sizes' = center_sizes'
  /\ target_sizes' = Apply(center_sizes')
  /\ in_warmup' = FALSE /\ csteps' = 0
  /\ UNCHANGED <<search, results, best_rate, radius, done, neigh_idx,
                 better_neigh_found, searching, resets>>

(* Not enough time or steps yet, and not so slow that more of it is no use.*)
KeepMeasuring ==
  /\ Evaluating /\ ~in_warmup /\ csteps + 1 < MinSteps
  /\ csteps' = csteps + 1
  /\ UNCHANGED <<search, target_sizes, best_sizes, center_sizes, results, best_rate,
                 radius, done, neigh_idx, better_neigh_found, in_warmup, searching, resets>>

Recorded(rate) ==
  [sizes \in DOMAIN results \cup {target_sizes} |->
     IF sizes = target_sizes THEN rate ELSE results[sizes]]

Measure(rate) ==
  /\ Evaluating /\ ~in_warmup
  /\ results' = Recorded(rate)
  /\ IF IsBetter(rate)
       THEN best_sizes' = target_sizes /\ best_rate' = rate /\ better_neigh_found' = TRUE
       ELSE UNCHANGED <<best_sizes, best_rate, better_neigh_found>>
  /\ csteps' = 0 /\ searching' = TRUE
  /\ UNCHANGED <<search, target_sizes, center_sizes, radius, done, neigh_idx,
                 in_warmup, resets>>

(* The next neighbour comes into force when it is allowed and not measured *)
(* before; otherwise the loop goes on.                                     *)
TryNeighbor ==
  /\ searching /\ neigh_idx < NeighborhoodSize
  /\ neigh_idx' = neigh_idx + 1
  /\ \E ofs \in [Sides -> 0 .. 2] :
       LET ok == Allowed(ofs) /\ CheckSizes(Candidate(ofs)) /\ Untried(Candidate(ofs))
       IN /\ ofs = Unlayout(Neighborhood, neigh_idx)
          /\ target_sizes' = IF ok THEN Apply(Candidate(ofs)) ELSE target_sizes
          /\ searching' = ~ok
  /\ UNCHANGED <<search, best_sizes, center_sizes, results, best_rate, radius, done,
                 better_neigh_found, csteps, in_warmup, resets>>

BeyondLastNeighbor == searching /\ neigh_idx = NeighborhoodSize

(* The search goes on around the best size, closer when it is the center.  *)
NextCenter ==
  /\ BeyondLastNeighbor
  /\ better_neigh_found \/ NextRadius(radius) >= 1
  /\ radius' = IF better_neigh_found THEN radius ELSE NextRadius(radius)
  /\ center_sizes' = best_sizes /\ neigh_idx' = 0 /\ better_neigh_found' = FALSE
  /\ UNCHANGED <<search, target_sizes, best_sizes, results, best_rate, done, csteps,
                 in_warmup, searching, resets>>

Converge ==
  /\ BeyondLastNeighbor
  /\ ~better_neigh_found /\ NextRadius(radius) < 1
  /\ Clear(TRUE)
  /\ UNCHANGED <<search, resets>>

(* reset_auto_tuner(), between two strides.                                *)
Reset(enable) ==
  /\ ~searching /\ resets < MaxResets
  /\ Clear(~enable)
  /\ resets' = resets + 1
  /\ UNCHANGED search

Eval ==
  \/ Warmup
  \/ EndWarmup
  \/ KeepMeasuring
  \/ \E rate \in Rates : Measure(rate)
  \/ TryNeighbor
  \/ NextCenter
  \/ Converge

Next == Eval \/ \E enable \in BOOLEAN : Reset(enable)

Spec == Init /\ [][Next]_vars

(* run_auto_tuner_now() runs strides until the tuner is done.              *)
FairSpec == Spec /\ WF_vars(Eval)

-----------------------------------------------------------------------------
(* Sizes in force are whole clusters inside the outer sizes, and a best    *)
(* rate belongs to the best size.                                          *)
TypeOK ==
  /\ \A j \in Sides : /\ target_sizes[j] \in search.cluster[j]..search.outer[j]
                      /\ target_sizes[j] % search.cluster[j] = 0
  /\ DOMAIN results \subseteq [Sides -> Nat] /\ \A z \in DOMAIN results : results[z] \in Rates
  /\ best_rate > 0 => best_sizes \in DOMAIN results /\ results[best_sizes] = best_rate
  /\ radius \in 1..MaxRadius
  /\ neigh_idx \in 0..NeighborhoodSize
  /\ csteps < Max({WarmupSteps, MinSteps})
  /\ {done, better_neigh_found, in_warmup, searching} \subseteq BOOLEAN

(* No size is measured twice in one search, for neither the rounding of    *)
(* candidates nor adjustSettings() leads back to a size already known; and *)
(* whenever the tuner forgets its results, because it has converged or the *)
(* application resets it, the best measured size is in force.              *)
EndsWithBest ==
  [][/\ results' \in {results, NoResults} \/ target_sizes \notin DOMAIN results
     /\ results' = NoResults /\ results # NoResults =>
          /\ target_sizes' \in DOMAIN results
          /\ \A z \in DOMAIN results : results[z] <= results[target_sizes']]_vars

(* A converged search has found a local optimum: every size one step away  *)
(* in at most two dims that is within the limits was measured and is not   *)
(* better.                                                                 *)
Near(sizes, d) ==
  [j \in Sides |-> RoundUp(Min({sizes[j] + d[j] * Max({search.cluster[j], MinDist}),
                                search.outer[j]}), search.cluster[j])]

LocalOptimum ==
  [][searching /\ done' =>
       \A d \in [Sides -> {-1, 0, 1}] :
         /\ Cardinality({j \in Sides : d[j] # 0}) <= 2
         /\ \A j \in Sides : best_sizes[j] + d[j] * Max({search.cluster[j], MinDist})
                             >= search.cluster[j]
         /\ CheckSizes(Near(best_sizes, d))
         => /\ Near(best_sizes, d) \in DOMAIN results
            /\ results[Near(best_sizes, d)] <= results[target_sizes']]_vars

(* The search ends, whatever rates it measures, unless it is started again *)
(* for ever.                                                               *)
Converges == <>[]done
=============================================================================
