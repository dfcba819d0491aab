----------------------------- MODULE VarLayout ------------------------------
(***************************************************************************)
(* The storage of a var on one rank: how its padding is sized, which       *)
(* indices it holds, and at which vector and element of its storage the    *)
(* kernel finds a point, by element or by whole vectors.                   *)
(*                                                                         *)
(* "v" is a var on a rank.  Every field has one value for each dimension   *)
(* of the var: kind ("step", "domain" or "misc"), domain (the points it    *)
(* must hold), halo and wave-front sizes, requested paddings, rank_ofs and *)
(* local_ofs (where the domain starts in the problem) and the vector       *)
(* lengths var_vec and soln_vec.  "inner" is the innermost domain          *)
(* dimension (0 if the var does not have it); "inner_misc" tells whether   *)
(* misc dimensions are laid out inside it.                                 *)
(***************************************************************************)
EXTENDS Tuples

VDims(v) == DOMAIN v.kind

\* Mutant: reads are taken to end with the halo.
ReqdPadMutant(halo, wf_ext, vec) == halo + wf_ext

(* Halo and wave-front extension, and up to a vector more because reads    *)
(* are expanded to whole vectors.                                          *)
ReqdPad(halo, wf_ext, vec) == IF halo + wf_ext = 0 THEN 0 ELSE halo + wf_ext + vec - 1

LeftPad(v, d) ==
  RoundUpFlr(Max({ReqdPad(v.left_halo[d], v.left_wf_ext[d], v.soln_vec[d]),
                  v.left_halo[d] + v.extra_pad[d], v.min_pad[d]}),
             v.var_vec[d])

(* One more vector keeps the vectors of the inner dimension odd in number. *)
RightPad(v, d) ==
  LET least == Max({ReqdPad(v.right_halo[d], v.right_wf_ext[d], v.soln_vec[d]),
                    v.right_halo[d] + v.extra_pad[d], v.min_pad[d]})
      even  == (v.domain[d] \div v.var_vec[d]) % 2 = 0
  IN RoundUpFlr(v.domain[d] + least, v.soln_vec[d]) - v.domain[d]
       + IF v.allow_addl_pad /\ d = v.inner /\ even THEN v.var_vec[d] ELSE 0

(* The order of the dimensions in storage, from the outermost.             *)
LayoutOrder(v) ==
  LET dims == [d \in VDims(v) |-> d]
      misc(d) == v.inner_misc /\ v.kind[d] = "misc"
      step(d) == v.kind[d] = "step"
      inner(d) == d = v.inner
  IN SelectSeq(dims, LAMBDA d : ~misc(d) /\ ~step(d) /\ ~inner(d))
       \o SelectSeq(dims, step) \o SelectSeq(dims, inner) \o SelectSeq(dims, misc)

(* Storage is sized when a var has none; only domain dimensions have pads. *)
Resize(v) ==
  LET left  == [d \in VDims(v) |-> IF v.kind[d] = "domain" THEN LeftPad(v, d) ELSE 0]
      right == [d \in VDims(v) |-> IF v.kind[d] = "domain" THEN RightPad(v, d) ELSE 0]
      alloc == [d \in VDims(v) |-> left[d] + v.domain[d] + right[d]]
  IN v @@ [left_pad |-> left, right_pad |-> right, alloc |-> alloc, order |-> LayoutOrder(v),
           vec_left_pad  |-> [d \in VDims(v) |-> left[d] \div v.var_vec[d]],
           vec_alloc     |-> [d \in VDims(v) |-> alloc[d] \div v.var_vec[d]],
           vec_local_ofs |-> [d \in VDims(v) |-> DivTrunc(v.local_ofs[d], v.var_vec[d])]]

FirstLocal(v, d) == v.rank_ofs[d] + v.local_ofs[d] - v.left_pad[d]
LastLocal(v, d)  == v.rank_ofs[d] + v.local_ofs[d] + v.domain[d] + v.right_pad[d] - 1

-----------------------------------------------------------------------------
(* Addresses.  An element is at a place <<vector, lane>> of the storage.   *)

(* A step uses the slot of its index modulo the number of steps stored.    *)
WrapStep(v, d, t) == IModFlr(t, v.domain[d])

AdjIdx(v, d, i) ==
  IF v.kind[d] = "step" THEN WrapStep(v, d, i)
  ELSE i + v.left_pad[d] - (v.rank_ofs[d] + v.local_ofs[d])

(* The storage has the vectors in the order of the layout, the last        *)
(* dimension with unit stride, and a vector its elements, the first        *)
(* dimension of the fold innermost.                                        *)
Storage(v, idx) ==
  LET inside == Reverse(v.order)
  IN LayoutIndex([i \in DOMAIN inside |-> v.vec_alloc[inside[i]]],
                 [i \in DOMAIN inside |-> idx[inside[i]]])
Lane(v, idx) == LayoutIndex(v.var_vec, idx)

ElemPtr(v, pt) ==
  <<Storage(v, [d \in VDims(v) |-> AdjIdx(v, d, pt[d]) \div v.var_vec[d]]),
    Lane(v, [d \in VDims(v) |-> AdjIdx(v, d, pt[d]) % v.var_vec[d]])>>

(* Vector indices are relative to the rank.                                *)
VecPtrNorm(v, vec) ==
  Storage(v, [d \in VDims(v) |->
                IF v.kind[d] = "step" THEN WrapStep(v, d, vec[d])
                ELSE vec[d] + v.vec_left_pad[d] - v.vec_local_ofs[d]])

Normalize(v, d, i) ==
  IF v.kind[d] = "domain" THEN IDivFlr(i - v.rank_ofs[d], v.var_vec[d]) ELSE i

-----------------------------------------------------------------------------
(* Slices: the points from "first" to "last", both included.               *)
SliceRange(first, last) == [d \in DOMAIN first |-> last[d] - first[d] + 1]

(* checkIndices() moves an index that is out of range to the nearest one   *)
(* that is not, whether or not the other end of the slice is in range.     *)
Clip(v, d, i) ==
  IF v.kind[d] = "step" THEN i ELSE Max({Min({i, LastLocal(v, d)}), FirstLocal(v, d)})

IndicesOk(v, pt) ==
  \A d \in VDims(v) : v.kind[d] = "step" \/ pt[d] \in FirstLocal(v, d) .. LastLocal(v, d)

(* The elements of a slice in the order of the buffer they are copied to.  *)
SliceElems(v, first, last) ==
  LET pts == PointsOf(SliceRange(first, last))
  IN [n \in DOMAIN pts |-> ElemPtr(v, AddElements(first, pts[n]))]

(* set_elements_in_slice_same() without strict indices.                    *)
SetSameWrites(v, first, last) ==
  ToSet(SliceElems(v, [d \in VDims(v) |-> Clip(v, d, first[d])],
                      [d \in VDims(v) |-> Clip(v, d, last[d])]))

(* The vectors of a slice in the order of the buffer: a step (the first    *)
(* dimension, if there is one) at a time.                                  *)
StepLast(v, sizes) == IF v.kind[1] = "step" THEN Append(Tail(sizes), sizes[1]) ELSE sizes
StepFirst(v, pt)   == IF v.kind[1] = "step" THEN <<Last(pt)>> \o Front(pt) ELSE pt

SliceVecs(v, first, last) ==
  LET norm(pt) == [d \in VDims(v) |-> Normalize(v, d, pt[d])]
      pts == PointsOf(StepLast(v, SliceRange(norm(first), norm(last))))
  IN [n \in DOMAIN pts |-> VecPtrNorm(v, AddElements(norm(first), StepFirst(v, pts[n])))]
=============================================================================
