----------------------------- MODULE MCHaloShm ------------------------------
(***************************************************************************)
(* Three ranks on a line: 0 and 1 share memory, 1 and 2 do not, and rank 1 *)
(* overlaps computation and communication.  They step backward with wave   *)
(* fronts of two steps, so that an exchange covers two packs and up to two *)
(* steps, and the last chunk of a run may be short.  "a" (var 1) is        *)
(* written by the first pack, "k" (var 2) is read-only and has no step     *)
(* dimension, "b" (var 3), without halos, is computed from the new "a" but *)
(* not at step -2.                                                         *)
(***************************************************************************)
EXTENDS HaloExchange

MCStepDir == -1
MCAlloc == <<3, 1, 2>>
MCHasStep == <<TRUE, FALSE, TRUE>>
MCHalo == <<TRUE, TRUE, FALSE>>

In(v, o, h) == [var |-> v, ofs |-> o, halo |-> h]
MCPacks == <<
  [reads |-> {In(1, 0, TRUE), In(1, 1, TRUE), In(2, 0, TRUE)}, writes |-> {1}, skip |-> {}],
  [reads |-> {In(1, -1, TRUE)}, writes |-> {3}, skip |-> {-2}] >>

MCOverlap == [r \in Rank |-> r = 1]
MCShm == [r \in Rank |-> r = 0]

Run(a, b) == [kind |-> "run", var |-> 1, rank |-> 0, first |-> a, last |-> b]
On(k, v, t) == [kind |-> k, var |-> v, rank |-> 0, first |-> t, last |-> 0]

MCScripts == { << Run(0, -2), On("prepare", 1, 0), On("elems", 2, 0), Run(-3, -3), On("end", 1, 0) >>,
               << On("tune", 1, 0), On("slice", 1, 1), On("slice", 1, 0), Run(0, -1) >> }
=============================================================================
