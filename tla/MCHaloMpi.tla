----------------------------- MODULE MCHaloMpi ------------------------------
(***************************************************************************)
(* Two ranks that exchange by MPI.  "a" (var 1) is written by the first    *)
(* pack; "b" (var 2), which has no halo on its right, by the second at     *)
(* even steps and by the third at odd ones.  Rank 0 overlaps computation   *)
(* and communication, rank 1 does not.                                     *)
(***************************************************************************)
EXTENDS HaloExchange

MCAlloc == <<2, 2>>
MCHasStep == <<TRUE, TRUE>>
MCLeft == <<TRUE, TRUE>>
MCRight == <<TRUE, FALSE>>

In(v, o, h) == [var |-> v, ofs |-> o, halo |-> h]
MCPacks == <<
  [reads |-> {In(1, 0, TRUE), In(2, 0, TRUE)}, writes |-> {1}, skip |-> {}],
  [reads |-> {In(1, 1, TRUE)}, writes |-> {2}, skip |-> {1, 3}],
  [reads |-> {In(2, 0, FALSE)}, writes |-> {2}, skip |-> {0, 2}] >>

MCOverlap == [r \in Rank |-> r = 0]
MCShm == [r \in Rank |-> FALSE]

Run(a, b) == [kind |-> "run", var |-> 1, rank |-> 0, first |-> a, last |-> b]
On(k, v, t) == [kind |-> k, var |-> v, rank |-> 0, first |-> t, last |-> 0]

(* Several steps and a second run; values set between two runs; a point    *)
(* set while everything is dirty, and the end of the solution.             *)
MCScripts == { << Run(0, 1), Run(2, 2) >>,
               << Run(0, 0), On("slice", 1, 1), On("fill", 2, 0), Run(1, 1) >>,
               << On("point", 1, 0), On("elems", 2, 0), Run(0, 0), On("end", 1, 0) >> }
=============================================================================
