---------------------------- MODULE NeighborSync ----------------------------
(***************************************************************************)
(* What the halo exchange promises to the ranks of a solution, whatever    *)
(* carries the halos: a rank evaluates only when its neighbours have       *)
(* published everything it has itself, so that no rank ever runs more than *)
(* one evaluation ahead of a neighbour.                                    *)
(***************************************************************************)
EXTENDS Naturals

CONSTANTS
  Rank,
  Nbrs       \* Nbrs[r]: the neighbours of r

VARIABLE done   \* evaluations each rank has published

Init == done = [r \in Rank |-> 0]

Evaluate(r) ==
  /\ \A q \in Nbrs[r] : done[q] >= done[r]
  /\ done' = [done EXCEPT ![r] = @ + 1]

Next == \E r \in Rank : Evaluate(r)

Spec == Init /\ [][Next]_done

(* A rank is at most one evaluation ahead of each of its neighbours.       *)
AtMostOneAhead ==
  \A r \in Rank : \A q \in Nbrs[r] : done[r] <= done[q] + 1
=============================================================================
