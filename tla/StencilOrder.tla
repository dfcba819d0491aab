---------------------------- MODULE StencilOrder ----------------------------
(***************************************************************************)
(* What any order of evaluation must respect to give the results of the    *)
(* plain time-step loop (run_ref()), whatever tiles it uses.  The points   *)
(* are evaluated level after level; a point holds its latest value and the *)
(* one before, so the next evaluation of p may read q only while q is at   *)
(* p's level (its latest value) or one beyond (the one before).            *)
(***************************************************************************)
EXTENDS Naturals

VARIABLES
  reads,   \* reads[p]: the points an evaluation of p reads
  level    \* level[q]: how often q has been evaluated; never, for a halo point

Readable(p, q) == level[q] \in {level[p], level[p] + 1}

Init ==
  /\ \A p \in DOMAIN reads : reads[p] \subseteq DOMAIN level
  /\ DOMAIN reads \subseteq DOMAIN level
  /\ level = [q \in DOMAIN level |-> 0]

(* A set of points at one level is evaluated at once.                      *)
Evaluate(S) ==
  /\ S \subseteq DOMAIN reads
  /\ \A p, q \in S : level[p] = level[q]
  /\ \A p \in S : \A q \in reads[p] : Readable(p, q)
  /\ level' = [q \in DOMAIN level |-> IF q \in S THEN level[q] + 1 ELSE level[q]]
  /\ UNCHANGED reads

Next == Evaluate({q \in DOMAIN level : level'[q] # level[q]})

Spec == Init /\ [][Next]_<<reads, level>>

(* A point is never more than one level beyond a point it reads.           *)
NeverTooFarAhead ==
  \A p \in DOMAIN reads : \A q \in reads[p] : level[p] <= level[q] + 1
=============================================================================
