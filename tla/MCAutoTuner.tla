----------------------------- MODULE MCAutoTuner -----------------------------
(***************************************************************************)
(* Searches in one, two and three dims: with clusters of two points, with  *)
(* starts that fail checkSizes(), that are unset, or that are not whole    *)
(* clusters when halved.                                                   *)
(***************************************************************************)
EXTENDS AutoTuner

MCSearches ==
  {[outer |-> <<8>>, cluster |-> <<1>>, start |-> <<b>>] : b \in {0, 3, 8}}
  \cup {[outer |-> <<6, 3>>, cluster |-> <<2, 1>>, start |-> b] : b \in {<<0, 0>>, <<3, 2>>}}
  \cup {[outer |-> <<2, 2, 2>>, cluster |-> <<1, 1, 1>>, start |-> <<1, 1, 2>>]}
=============================================================================
