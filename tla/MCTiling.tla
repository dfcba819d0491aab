------------------------------ MODULE MCTiling ------------------------------
(***************************************************************************)
(* Small ranks in one and two dimensions, with every kind of tile smaller  *)
(* than the next, neighbours on either side, several packs, a step whose   *)
(* condition skips a pack, a last stride that is cut short, and a last     *)
(* region and block that are remainders.                                   *)
(***************************************************************************)
EXTENDS TemporalTiling

Plain(rank, rgn, blk, mini) ==
  [rank |-> rank, region |-> rgn, block |-> blk, mini_block |-> mini,
   fold |-> [j \in DOMAIN rank |-> 1], max_halo |-> [j \in DOMAIN rank |-> 1],
   region_steps |-> 0, block_steps |-> 0, packs |-> 1, valid |-> <<1>>,
   left |-> [j \in DOMAIN rank |-> FALSE], right |-> [j \in DOMAIN rank |-> FALSE],
   overlap |-> FALSE, min_exterior |-> 0]

\* No temporal tiling: blocks, mini-blocks and, with neighbours, overlap.
Spatial ==
  { Plain(<<7>>, <<4>>, <<2>>, <<1>>),
    [Plain(<<8>>, <<5>>, <<3>>, <<2>>)
       EXCEPT !.left = <<TRUE>>, !.right = <<TRUE>>, !.overlap = TRUE],
    [Plain(<<4, 4>>, <<0, 2>>, <<2, 0>>, <<0, 0>>)
       EXCEPT !.left = <<TRUE, FALSE>>, !.right = <<FALSE, TRUE>>, !.overlap = TRUE] }

\* Wave fronts: a single rank, one with neighbours, and overlap with two packs.
WaveFront ==
  { [Plain(<<8>>, <<3>>, <<2>>, <<0>>)
       EXCEPT !.region_steps = 3, !.valid = <<1, 1, 1>>],
    [Plain(<<8>>, <<4>>, <<2>>, <<0>>)
       EXCEPT !.region_steps = 2, !.packs = 2, !.valid = <<2, 1>>,
              !.left = <<TRUE>>],
    [Plain(<<10>>, <<4>>, <<3>>, <<0>>)
       EXCEPT !.region_steps = 3, !.valid = <<1, 1>>,
              !.left = <<TRUE>>, !.right = <<TRUE>>, !.overlap = TRUE],
    [Plain(<<9>>, <<4>>, <<3>>, <<0>>)
       EXCEPT !.region_steps = 2, !.valid = <<1, 1>>,
              !.left = <<TRUE>>, !.right = <<TRUE>>, !.overlap = TRUE,
              !.min_exterior = 4],
    [Plain(<<4, 5>>, <<0, 3>>, <<2, 0>>, <<0, 0>>)
       EXCEPT !.region_steps = 2, !.valid = <<1, 1>>,
              !.left = <<TRUE, FALSE>>, !.overlap = TRUE] }

\* Temporal blocks: full triangles, trapezoids, two dimensions, mini-block
\* wave fronts, several layers in a region, folds, and a wide remainder.
TemporalBlock ==
  { [Plain(<<12>>, <<0>>, <<4>>, <<0>>)
       EXCEPT !.block_steps = 2, !.valid = <<1, 1>>],
    [Plain(<<14>>, <<0>>, <<5>>, <<2>>)
       EXCEPT !.block_steps = 2, !.packs = 1, !.valid = <<1, 1>>],
    [Plain(<<12>>, <<0>>, <<6>>, <<0>>)
       EXCEPT !.block_steps = 1, !.packs = 2, !.valid = <<2>>],
    [Plain(<<12>>, <<8>>, <<4>>, <<2>>)
       EXCEPT !.region_steps = 4, !.block_steps = 2, !.valid = <<1, 1, 1>>,
              !.left = <<TRUE>>, !.right = <<TRUE>>],
    [Plain(<<16>>, <<12>>, <<6>>, <<0>>)
       EXCEPT !.fold = <<2>>, !.block_steps = 2, !.valid = <<1, 1>>,
              !.left = <<TRUE>>, !.right = <<TRUE>>, !.overlap = TRUE],
    [Plain(<<6, 6>>, <<0, 0>>, <<3, 3>>, <<0, 0>>)
       EXCEPT !.block_steps = 2, !.valid = <<1, 1>>],
    [Plain(<<4, 8>>, <<0, 6>>, <<0, 3>>, <<2, 0>>)
       EXCEPT !.block_steps = 2, !.valid = <<1, 1>>] }

(* A family in one dimension: every mix of the tile sizes, steps, packs and *)
(* neighbours below.                                                       *)
Sides == { <<FALSE, FALSE, FALSE>>, <<TRUE, FALSE, FALSE>>,
           <<FALSE, TRUE, TRUE>>, <<TRUE, TRUE, TRUE>> }

Line ==
  { [Plain(<<n>>, <<r>>, <<b>>, <<m>>)
       EXCEPT !.region_steps = w, !.block_steps = t, !.packs = k,
              !.valid = [i \in 1..Max({w, t, 1}) |-> k],
              !.left = <<d[1]>>, !.right = <<d[2]>>, !.overlap = d[3]] :
      n \in {9, 12}, r \in {0, 7}, b \in {3, 4, 6}, m \in {0, 2},
      w \in {0, 3}, t \in {0, 2, 3}, k \in {1, 2}, d \in Sides }

MCSettings ==
  Spatial \cup WaveFront \cup
    {s \in TemporalBlock \cup Line : WideRemainders(PrepareSolution(s))}
=============================================================================
