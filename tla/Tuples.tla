------------------------------- MODULE Tuples -------------------------------
(***************************************************************************)
(* The integer arithmetic and the tuples of sizes and indices that the     *)
(* kernel is built from.  A tuple is a sequence with one element for every *)
(* dimension; its first dimension is the innermost of a layout.            *)
(***************************************************************************)
EXTENDS Integers, SequencesExt, FiniteSetsExt

(* Floored division and modulo: TLA+'s own, for a positive divisor.        *)
IDivFlr(a, b) == a \div b
IModFlr(a, b) == a % b
RoundUpFlr(a, b) == IDivFlr(a + b - 1, b) * b
RoundDownFlr(a, b) == IDivFlr(a, b) * b

(* C++ division of integers, which truncates towards zero.                 *)
DivTrunc(a, b) == IF a >= 0 THEN a \div b ELSE -((-a) \div b)

TupleProduct(t) ==
  LET first[n \in 0 .. Len(t)] == IF n = 0 THEN 1 ELSE first[n - 1] * t[n]
  IN first[Len(t)]
TupleSum(t) ==
  LET first[n \in 0 .. Len(t)] == IF n = 0 THEN 0 ELSE first[n - 1] + t[n]
  IN first[Len(t)]
TupleMax(t) == Max(ToSet(t))
AddElements(t, u) == [d \in DOMAIN t |-> t[d] + u[d]]

-----------------------------------------------------------------------------
(* A point of a tuple of sizes has an offset in each dimension, from 0.    *)
SizeBefore(sizes, d) == TupleProduct(SubSeq(sizes, 1, d - 1))

LayoutIndex(sizes, pt) == TupleSum([d \in DOMAIN sizes |-> pt[d] * SizeBefore(sizes, d)])

Unlayout(sizes, n) == [d \in DOMAIN sizes |-> (n \div SizeBefore(sizes, d)) % sizes[d]]

(* The points that visitAllPoints() gives to its visitor, in its order.    *)
PointsOf(sizes) == [n \in 1 .. TupleProduct(sizes) |-> Unlayout(sizes, n - 1)]

-----------------------------------------------------------------------------
(* The factors of n that are the most compact: no larger than needed in    *)
(* any dimension.  Those preset (not 0) are kept if that is possible.      *)
Factorings(preset, n, keep) ==
  {f \in [DOMAIN preset -> 1 .. n] :
     /\ TupleProduct(f) = n
     /\ keep => \A d \in DOMAIN preset : preset[d] > 0 => f[d] = preset[d]}

(* Candidates are tried with the factor of the second dimension changing   *)
(* fastest and the first one computed from the others.                     *)
TriedBefore(f, g) ==
  \E d \in DOMAIN f : f[d] < g[d] /\ \A i \in d + 1 .. Len(f) : f[i] = g[i]

Compact(fs) == {f \in fs : \A g \in fs : TupleMax(f) <= TupleMax(g)}

(* If the preset factors cannot be kept they are given up without a word,  *)
(* but for n = 1 the search stops with no answer.                          *)
CompactFactors(preset, n) ==
  LET kept  == Factorings(preset, n, TRUE)
      found == IF kept # {} THEN kept ELSE Factorings(preset, n, FALSE)
      best  == Compact(found)
  IN CASE TupleProduct(preset) = n -> preset
       [] n = 1 /\ kept = {} -> <<>>
       [] OTHER -> CHOOSE f \in best : \A g \in best \ {f} : ~TriedBefore(g, f)
=============================================================================
