------------------------- MODULE MCNarrowRemainder -------------------------
(***************************************************************************)
(* One rank of 7 points, one region, blocks of 5 points and three steps in *)
(* a temporal block: the settings leave a remainder block of 2 points,     *)
(* which is shorter than the trapezoid its phase 0 should have.            *)
(***************************************************************************)
EXTENDS TemporalTiling

MCSettings ==
  { [rank |-> <<7>>, region |-> <<0>>, block |-> <<5>>, mini_block |-> <<0>>,
     fold |-> <<1>>, max_halo |-> <<1>>, region_steps |-> 0, block_steps |-> 3,
     packs |-> 1, valid |-> <<1, 1, 1>>, left |-> <<FALSE>>, right |-> <<FALSE>>,
     overlap |-> FALSE, min_exterior |-> 0] }
=============================================================================
