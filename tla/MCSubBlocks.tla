---------------------------- MODULE MCSubBlocks -----------------------------
(***************************************************************************)
(* Small ranks: their domains do not begin on a vector of the problem, and *)
(* sub-domains have holes and edges that are on no vector of the rank.     *)
(***************************************************************************)
EXTENDS SubBlocks

Box(from, to) == PointsIn([begin |-> from, end |-> to])

(* Everything; a ring; steps, which are cut differently by every number of *)
(* threads.                                                                *)
All == Box(<< -20, -20>>, <<20, 20>>)
Ring == Box(<<6, 1>>, <<14, 9>>) \ Box(<<8, 4>>, <<11, 6>>)
Stairs == Box(<<5, 0>>, <<8, 3>>) \cup Box(<<8, 2>>, <<11, 6>>) \cup Box(<<11, 2>>, <<13, 6>>)

Plain ==
  [fold |-> <<4, 1>>, mult |-> <<1, 2>>, rank_ofs |-> <<5, 0>>, size |-> <<9, 7>>,
   valid |-> Ring, nthreads |-> 2, mini |-> <<8, 4>>, sub |-> <<4, 4>>,
   path |-> {}, group |-> <<8, 4>>, threads |-> 2, bind |-> 0, scalar |-> FALSE,
   scratch |-> FALSE, left |-> <<0, 0>>, right |-> <<0, 0>>, read |-> <<1, 2>>]

Boxes == {[Plain EXCEPT !.valid = Stairs, !.nthreads = n] : n \in {1, 3, 4}}
           \cup {[Plain EXCEPT !.scalar = TRUE], [Plain EXCEPT !.fold = <<2, 2>>]}

(* All of a rank, in vectors of both dimensions.                           *)
Square == [Plain EXCEPT !.fold = <<2, 2>>, !.rank_ofs = << -3, 4>>, !.size = <<7, 6>>,
                        !.valid = All, !.mini = <<8, 8>>, !.sub = <<2, 2>>]

Paths == {[Square EXCEPT !.path = p] :
            p \in {{"serpentine"}, {"square_wave"}, {"serpentine", "square_wave"}}}
           \cup {[Square EXCEPT !.path = {"grouped"}, !.group = g] : g \in {<<4, 4>>, <<6, 3>>}}

(* Slabs of the second dimension are bound to threads.                     *)
Bound == {[Square EXCEPT !.bind = 2, !.sub = <<2, 4>>]}

(* The domain of a rank is whole vectors, and the reads of the scratch var *)
(* go farther on one side.                                                 *)
Chain == [Plain EXCEPT !.size = <<8, 5>>, !.valid = All, !.mini = <<4, 8>>, !.sub = <<4, 4>>,
                       !.scratch = TRUE, !.left = <<1, 2>>, !.right = <<2, 0>>, !.read = <<1, 1>>]

Chains == {Chain, [Chain EXCEPT !.read = <<4, 0>>], [Chain EXCEPT !.valid = Ring],
           [Chain EXCEPT !.bind = 1, !.sub = <<4, 8>>, !.mini = <<8, 8>>],
           [Chain EXCEPT !.fold = <<2, 2>>, !.size = <<8, 6>>, !.read = <<3, 3>>]}

Cube == {[Plain EXCEPT !.fold = <<2, 2, 1>>, !.mult = <<2, 1, 2>>, !.rank_ofs = <<1, 0, 0>>,
                       !.size = <<5, 5, 5>>, !.valid = Box(<<2, 1, 0>>, <<6, 4, 5>>),
                       !.mini = <<8, 8, 8>>, !.sub = <<8, 2, 2>>, !.group = <<8, 8, 8>>,
                       !.left = <<0, 0, 0>>, !.right = <<0, 0, 0>>, !.read = <<1, 0, 2>>]}

(* Vectors of eight lanes, read far off on all sides.                      *)
Wide == {[Square EXCEPT !.fold = <<4, 2>>, !.size = <<8, 6>>, !.read = <<5, 3>>]}

MCSetups == Wide \cup Boxes \cup Paths \cup Bound \cup Chains \cup Cube
=============================================================================
