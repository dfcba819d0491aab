---------------------------- MODULE MCEqBundles -----------------------------
(***************************************************************************)
(* Five equations with every choice of at most three reads of vars at the  *)
(* step the equations update, cycles and illegal reads included.           *)
(***************************************************************************)
EXTENDS EqBundles, TLC

CONSTANT Kinds

MCVars == {"s", "s2", "r", "u", "v", "w", "x", "y"}
MCScratchVars == {"s", "s2", "r"}
MCVarOf(v) == IF v = "s2" THEN "s" ELSE v

(* A kind of program: the vars updated, the keys, the step conditions, and *)
(* whether the user declares the dependencies.                             *)
Same == <<0, 0, 0, 0, 0>>

(* Two or three equations update scratch vars, the others do not; two may  *)
(* update the same var, under different conditions or at different         *)
(* constant indices.                                                       *)
ScratchKinds ==
  {<< <<"s", "r", "u", "v", "w">>, Same, Same, FALSE >>,
   << <<"s", "r", "u", "v", "w">>, <<0, 0, 0, 1, 1>>, Same, FALSE >>,
   << <<"s", "r", "u", "v", "w">>, <<0, 0, 0, 1, 0>>, <<0, 0, 0, 0, 1>>, FALSE >>,
   << <<"s", "r", "u", "v", "v">>, <<0, 0, 0, 0, 1>>, Same, FALSE >>,
   << <<"s", "r", "u", "v", "v">>, <<0, 0, 0, 0, 1>>, Same, TRUE >>,
   << <<"s", "r", "s2", "u", "v">>, Same, Same, FALSE >>}

(* No scratch vars; two equations without a condition, two with one and    *)
(* one with another.                                                       *)
PlainKinds == {<< <<"x", "y", "u", "v", "w">>, <<0, 0, 1, 1, 2>>, Same, FALSE >>}

AllKinds == ScratchKinds \cup PlainKinds

(* Who reads what whom updates.                                            *)
Pairs == (1 .. 5) \X (1 .. 5)
Graphs == {{}} \cup {{a, b, c} : a, b, c \in Pairs}

(* The offset at which each equation reads, and reads u of the step        *)
(* before.  The third may read the point it writes; the others only points *)
(* beside theirs, which is no error with declared dependencies.            *)
Offset == <<1, -2, 0, -1, 3>>

Point(v, dt, off) == [var |-> v, dt |-> dt, at |-> <<off>>]
Reads(e, lhs, graph) ==
  {Point(lhs[g[2]], IF lhs[g[2]] \in MCScratchVars THEN 0 ELSE 1, Offset[e]) :
     g \in {g \in graph : g[1] = e}}
  \cup {Point("u", 0, -Offset[e])}

Program(lhs, key, cond, declared, graph) ==
  [dims |-> 1, dir |-> 1, lhs |-> lhs, key |-> key, step_cond |-> cond,
   reads |-> <<Reads(1, lhs, graph), Reads(2, lhs, graph), Reads(3, lhs, graph),
               Reads(4, lhs, graph), Reads(5, lhs, graph)>>,
   user |-> IF declared THEN graph ELSE {}, find_deps |-> ~declared]

MCPrograms == {Program(k[1], k[2], k[3], k[4], g) : k \in Kinds, g \in Graphs}
=============================================================================
