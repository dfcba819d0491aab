----------------------------- MODULE MCMpiSetup -----------------------------
(***************************************************************************)
(* Jobs of up to six ranks in one or two dimensions.                       *)
(***************************************************************************)
EXTENDS MpiSetup

(* What a user sets: nothing is 0.                                         *)
Opt(global, local, grid, shm) ==
  [global |-> global, local |-> local, num_ranks |-> grid, find_loc |-> TRUE,
   rank_indices |-> <<0, 0>>, use_shm |-> shm]
Here(o, indices) == [o EXCEPT !.find_loc = FALSE, !.rank_indices = indices]

Every(n, o) == [i \in 1 .. n |-> o]

Job(os, node, fold, vs, wf_steps, packs) ==
  [opts |-> os, node |-> node, fold |-> fold, cluster |-> fold, vars |-> vs,
   wf_steps |-> wf_steps, packs |-> packs]

Var(dims, lhalo, rhalo, l1, folded) ==
  [dims |-> dims, left_halo |-> lhalo, right_halo |-> rhalo, l1_norm |-> l1,
   folded |-> folded, steps |-> 1]
Both == {1, 2}

(* Grids and sizes: presets kept or given up, coordinates given or found,  *)
(* sizes summed up or split, ranks that do not line up.                    *)
OneNode(n) == [i \in 1 .. n |-> 0]
SplitJobs ==
  {Job(Every(n, Opt(sh[1], <<0, 0>>, grid, FALSE)), OneNode(n), sh[2], <<>>, 0, 1) :
     n \in {3, 4}, sh \in {<<<<5, 9>>, <<1, 1>>>>, <<<<12, 7>>, <<2, 2>>>>},
     grid \in {<<0, 0>>, <<2, 0>>, <<0, 3>>, <<4, 1>>}}
  \cup
  {Job(<<Opt(<<4, 4>>, <<0, 0>>, grid, FALSE)>>, OneNode(1), <<1, 1>>, <<>>, 0, 1) :
     grid \in {<<0, 0>>, <<2, 0>>}}
  \cup
  {Job(Every(6, Opt(<<12, 7>>, <<0, 0>>, <<2, 0>>, FALSE)), OneNode(6), <<2, 2>>, <<>>, 0, 1)}
Corners == <<<<0, 0>>, <<1, 0>>, <<0, 1>>, <<1, 1>>>>
Sizes == {<<3, 2>>, <<2, 2>>}
SumJobs ==
  {Job([i \in 1 .. 4 |-> Here(Opt(g, s[i], <<2, 2>>, FALSE), place[i])],
       OneNode(4), <<1, 1>>, <<>>, 0, 1) :
     g \in {<<0, 0>>, <<5, 4>>},
     s \in [1 .. 4 -> Sizes] \cup {<<<<3, 2>>, <<2, 2>>, <<3, 1>>, <<2, 1>>>>,
                                   <<<<3, 2>>, <<2, 2>>, <<3, 0>>, <<2, 0>>>>},
     place \in {Corners, Reverse(Corners), [Corners EXCEPT ![1] = <<1, 1>>]}}
OddJobs ==
  {Job([i \in 1 .. 2 |-> IF i = 1 THEN o ELSE p], OneNode(2), <<1, 1>>, <<>>, 0, 1) :
     o, p \in {Opt(<<4, 4>>, <<0, 0>>, <<0, 0>>, TRUE), Opt(<<4, 4>>, <<0, 0>>, <<0, 0>>, FALSE),
               Opt(<<4, 0>>, <<0, 0>>, <<0, 0>>, FALSE), Opt(<<4, 4>>, <<4, 2>>, <<1, 2>>, FALSE)}}

(* Buffers: halos wide, narrow or on one side, vars of one dimension, not  *)
(* folded or with corners, vectors that do or do not fit, wave fronts.     *)
VarLists ==
  {<<Var(Both, <<2, 1>>, <<1, 1>>, 2, TRUE)>>,
   <<Var(Both, <<1, 1>>, <<1, 1>>, 1, TRUE), Var({1}, <<1, 0>>, <<2, 0>>, 1, FALSE)>>,
   <<Var(Both, <<0, 1>>, <<1, 1>>, 2, FALSE)>>}
Shapes ==
  {<<<<12, 8>>, <<2, 2>>, <<2, 2>>>>, <<<<13, 9>>, <<2, 2>>, <<2, 1>>>>,
   <<<<13, 9>>, <<4, 1>>, <<2, 2>>>>}
BoxJobs ==
  {Job(Every(4, Opt(sh[1], <<0, 0>>, sh[2], FALSE)), OneNode(4), sh[3], vs, 0, 1) :
     sh \in Shapes, vs \in VarLists}
  \cup
  {Job(Every(4, Opt(sh[1], <<0, 0>>, sh[2], FALSE)), OneNode(4), sh[3],
       <<Var(Both, <<1, 1>>, <<1, 1>>, 1, TRUE), Var({1}, <<1, 0>>, <<1, 0>>, 1, FALSE)>>, 1, 2) :
     sh \in Shapes}
  \cup
  {Job(Every(3, Opt(<<12, 6>>, <<0, 0>>, <<3, 1>>, FALSE)), OneNode(3), <<2, 2>>,
       <<Var(Both, <<2, 1>>, <<1, 1>>, 2, TRUE)>>, 0, 1)}

(* Shared memory: which ranks share a node, and ranks that share it with   *)
(* none that is next to them.                                              *)
ShmVars ==
  <<<<Var(Both, <<1, 1>>, <<1, 2>>, 2, FALSE), Var(Both, <<1, 1>>, <<1, 1>>, 1, FALSE)>>,
    <<Var(Both, <<1, 1>>, <<1, 1>>, 1, FALSE), Var({1}, <<1, 0>>, <<1, 0>>, 1, FALSE)>>>>
Placements ==
  {<<<<2, 2>>, <<0, 0, 0, 0>>, 1>>, <<<<2, 2>>, <<0, 1, 1, 0>>, 1>>, <<<<1, 4>>, <<0, 0, 1, 1>>, 1>>,
   <<<<1, 4>>, <<0, 0, 0, 1>>, 2>>, <<<<1, 4>>, <<0, 1, 0, 1>>, 2>>}
ShmJobs ==
  {Job(Every(4, Opt(<<8, 8>>, <<0, 0>>, p[1], TRUE)), p[2], <<1, 1>>, ShmVars[p[3]], 0, 1) :
     p \in Placements}

MCJobs == SplitJobs \cup SumJobs \cup OddJobs \cup BoxJobs \cup ShmJobs
=============================================================================
