------------------------------ MODULE GenLoops ------------------------------
(***************************************************************************)
(* The loops that gen_loops.pl writes: one collapsed loop over the tiles   *)
(* of a range of indices in some dimensions.                               *)
(*                                                                         *)
(* "s" is a range (ScanIndices): for each dimension its begin, end (not    *)
(* included), stride, align, align_ofs and group_size.  "dims" are the     *)
(* dimensions of the loop from the outermost, and "path" the modifiers     *)
(* given before it: a set of "grouped", "serpentine" and "square_wave".    *)
(***************************************************************************)
EXTENDS Tuples

CeilIDivFlr(a, b) == IDivFlr(a + b - 1, b)

AlignedBegin(s, d) ==
  LET align == Min({s.align[d], s.stride[d]})
  IN RoundDownFlr(s.begin[d] - s.align_ofs[d], align) + s.align_ofs[d]

NumIters(s, d) == CeilIDivFlr(s.end[d] - AlignedBegin(s, d), s.stride[d])

TotalIters(s, dims) == TupleProduct([i \in DOMAIN dims |-> NumIters(s, dims[i])])

From(t, i) == SubSeq(t, i, Len(t))

-----------------------------------------------------------------------------
(* Without groups: the dimensions are taken from the outermost.  On a      *)
(* serpentine path a dimension runs backward whenever the index of the one *)
(* before it is odd; on a square wave the last two take turns.             *)

InTurn(iters, n) ==
  [i \in DOMAIN iters |->
     LET q == n \div TupleProduct(From(iters, i + 1))
     IN IF i = 1 THEN q ELSE q % iters[i]]

(* The index of a row and of a place in it, after the wave over two rows.  *)
Wave(rows, row, len, place) ==
  IF len > 1 /\ (row \div 2) < (rows \div 2)
    THEN LET both == place + len * (row % 2)
         IN <<2 * (row \div 2) + (IF (both % 4) \in {1, 2} THEN 1 ELSE 0), both \div 2>>
    ELSE <<row, place>>

TurnedIf(odd, len, place) == IF odd THEN len - place - 1 ELSE place

OnPath(path, iters, plain) ==
  LET serp == "serpentine" \in path
      last == Len(iters)
      way[i \in DOMAIN iters] ==
        IF i = 1 \/ ~serp THEN plain[i]
        ELSE TurnedIf(way[i - 1] % 2 = 1, iters[i], plain[i])
      straight == [i \in DOMAIN iters |-> way[i]]
      wave == Wave(iters[last - 1], straight[last - 1], iters[last], plain[last])
  IN IF last = 1 \/ "square_wave" \notin path THEN straight
     ELSE [straight EXCEPT
             ![last - 1] = wave[1],
             ![last] = TurnedIf(serp /\ (wave[1] \div 2) % 2 = 1, iters[last], wave[2])]

-----------------------------------------------------------------------------
(* With groups: all tiles of a group are done before those of the next,    *)
(* and the last group of a dimension may hold fewer.                       *)

GroupIters(s, d) == Min({CeilIDivFlr(s.group_size[d], s.stride[d]), NumIters(s, d)})
NumGroups(s, d) == NumIters(s, d) \div GroupIters(s, d)

InGroups(s, dims, n) ==
  LET iters == [i \in DOMAIN dims |-> NumIters(s, dims[i])]
      full == [i \in DOMAIN dims |-> GroupIters(s, dims[i])]
      \* group and len: of the dimensions seen; ofs: within their groups
      enter(at, i) ==
        LET set == TupleProduct(at.len) * full[i] * TupleProduct(From(iters, i + 1))
            g == at.ofs \div set
            groups == NumGroups(s, dims[i])
        IN [group |-> Append(at.group, g),
            len |-> Append(at.len, IF g >= groups THEN iters[i] - groups * full[i] ELSE full[i]),
            ofs |-> at.ofs % set]
      at == FoldLeft(enter, [group |-> << >>, len |-> << >>, ofs |-> n],
                     [i \in DOMAIN dims |-> i])
  IN [i \in DOMAIN dims |-> full[i] * at.group[i] + InTurn(at.len, at.ofs)[i]]

-----------------------------------------------------------------------------
TileIndex(path, s, dims, n) ==
  IF "grouped" \in path THEN InGroups(s, dims, n)
  ELSE LET iters == [i \in DOMAIN dims |-> NumIters(s, dims[i])]
       IN OnPath(path, iters, InTurn(iters, n))

(* Where the tile of an index starts and stops; the dimensions that are    *)
(* not in the loop keep their whole range.                                 *)
TileAt(s, dims, idx) ==
  LET edge(i, k) == AlignedBegin(s, dims[i]) + k * s.stride[dims[i]]
      at(d) == CHOOSE i \in DOMAIN dims : dims[i] = d
  IN [start |-> [d \in DOMAIN s.begin |->
                   IF d \in ToSet(dims) THEN Max({edge(at(d), idx[at(d)]), s.begin[d]})
                   ELSE s.begin[d]],
      stop |-> [d \in DOMAIN s.begin |->
                  IF d \in ToSet(dims) THEN Min({edge(at(d), idx[at(d)] + 1), s.end[d]})
                  ELSE s.end[d]]]

(* The tiles in the order of the loop; an "omp" loop does them in any.     *)
Tiles(path, s, dims) ==
  [n \in 1 .. TotalIters(s, dims) |-> TileAt(s, dims, TileIndex(path, s, dims, n - 1))]
=============================================================================
