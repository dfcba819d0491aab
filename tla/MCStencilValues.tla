--------------------------- MODULE MCStencilValues ---------------------------
(***************************************************************************)
(* Five points on a line that read themselves and their neighbours, the    *)
(* outer two with a halo point on one side only: the left halo belongs to  *)
(* a neighbour rank, the right edge is the edge of the problem.            *)
(***************************************************************************)
EXTENDS StencilValues, Integers, FiniteSets, FiniteSetsExt

MCReads == [p \in 1..5 |-> {q \in 0..5 : q \in (p - 1)..(p + 1)}]

MCFormula(p, f) == (p + MapThenSumSet(LAMBDA q : (q + 1) * f[q], DOMAIN f)) % 3

(* The neighbour's point 0 changes at every step, unseen from this rank.   *)
MCRef[n \in 0..MaxLevel] ==
  IF n = 0
    THEN [q \in 0..5 |-> (q * q) % 3]
    ELSE [q \in 0..5 |->
            IF q = 0 THEN (n + 1) % 3
                     ELSE MCFormula(q, [r \in MCReads[q] |-> MCRef[n - 1][r]])]
=============================================================================
