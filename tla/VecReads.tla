------------------------------ MODULE VecReads ------------------------------
(***************************************************************************)
(* How the generated code reads the inputs of a vector of points: the      *)
(* aligned vectors that hold them, the pointers they are read by, and the  *)
(* instructions that put an unaligned vector together.                     *)
(*                                                                         *)
(* The lanes of a vector are numbered from 0.  An element is [vec, elem],  *)
(* the place of an aligned vector relative to the vector evaluated, in     *)
(* points, and a lane of it; a register has one element for each lane, as  *)
(* a set of [lane, vec, elem].                                             *)
(***************************************************************************)
EXTENDS VarLayout

LanesOf(fold) == 0 .. TupleProduct(fold) - 1

(* Whether a read of a var with these domain dimensions, by offsets in all *)
(* of them, is of a vector ("full"), of lanes that must be read one by one *)
(* ("partial") or of the same element for all lanes ("none", which is how  *)
(* a var without any dimension is read).                                   *)
VecType(fold, dims) ==
  LET folded == {d \in DOMAIN fold : fold[d] > 1}
  IN CASE folded \subseteq dims -> "full"
       [] folded \cap dims # {} -> "partial"
       [] OTHER -> "none"

(* The vector that an offset falls in, and the offset in it.               *)
FixIndexOffset(ofs, len) ==
  LET index == DivTrunc(ofs, len)
      rest == ofs - index * len
  IN IF rest < 0 THEN <<index - 1, rest + len>> ELSE <<index, rest>>

(* The elements at an offset from a vector.                                *)
Elems(fold, ofs) ==
  {[lane |-> l,
    vec  |-> [d \in DOMAIN fold |->
                FixIndexOffset(ofs[d] + Unlayout(fold, l)[d], fold[d])[1] * fold[d]],
    elem |-> LayoutIndex(fold, [d \in DOMAIN fold |->
                FixIndexOffset(ofs[d] + Unlayout(fold, l)[d], fold[d])[2]])] : l \in LanesOf(fold)}

(* The offset of an aligned vector in vectors.                             *)
NormOfs(fold, vec) == [d \in DOMAIN fold |-> DivTrunc(vec[d], fold[d])]

-----------------------------------------------------------------------------
(* The instructions, for vectors of n lanes.                               *)

Reg(vec, elem) == {[lane |-> i, vec |-> vec[i], elem |-> elem[i]] : i \in DOMAIN vec}

(* The vector that begins "count" lanes into b followed by a.              *)
Aligned(n, count, a, b) ==
  Reg([i \in 0 .. n - 1 |-> IF i + count < n THEN b ELSE a], [i \in 0 .. n - 1 |-> (i + count) % n])

(* Lanes that are not controlled ("NA") get lane 0 of a.                   *)
Permuted(n, found, a) ==
  LET of(i) == {w \in found : w.lane = i}
  IN Reg([i \in 0 .. n - 1 |-> IF of(i) = {} THEN a ELSE (CHOOSE w \in of(i) : TRUE).vec],
         [i \in 0 .. n - 1 |-> IF of(i) = {} THEN 0 ELSE (CHOOSE w \in of(i) : TRUE).elem])

LanesIn(reg) == {w.lane : w \in reg}
Masked(reg, new, lanes) ==
  {w \in reg : w.lane \notin lanes} \cup {w \in new : w.lane \in lanes}

-----------------------------------------------------------------------------
(* Putting an unaligned vector together.  "wanted" has its elements.       *)

(* What a try finds of the elements that are not done.                     *)
Found(n, try, wanted, done) ==
  {w \in wanted :
     /\ w.lane \notin done
     /\ CASE try.op = "align" -> IF w.lane >= n - try.count
                                   THEN w.vec = try.a /\ w.elem = w.lane + try.count - n
                                   ELSE w.vec = try.b /\ w.elem = w.lane + try.count
          [] try.op = "perm2" -> w.vec \in {try.a, try.b}
          [] try.op = "perm1" -> w.vec = try.a}

(* A vector that gives no lane is replaced by the one that does.           *)
Instruction(n, try, found) ==
  LET from(v) == \E w \in found : w.vec = v
  IN IF try.op = "align" THEN Aligned(n, try.count, IF from(try.a) THEN try.a ELSE try.b,
                                                    IF from(try.b) THEN try.b ELSE try.a)
     ELSE Permuted(n, found, try.a)

(* The first instruction may write all lanes; later ones must leave those  *)
(* that are done, which not all can.                                       *)
CanMask(isa, op) == op = "perm1" \/ (op = "align" /\ isa # "avx256")

(* The tries in their order; that of the vectors is of no consequence.     *)
Tries(isa, n, vecs) ==
  LET m == Len(vecs)
      pairs == [k \in 1 .. m * m |-> <<vecs[((k - 1) \div m) + 1], vecs[((k - 1) % m) + 1]>>]
      try(op, a, b, count) == [op |-> op, a |-> a, b |-> b, count |-> count]
      aligns(p) == [count \in 1 .. n - 1 |-> try("align", p[1], p[2], count)]
      others == SelectSeq(pairs, LAMBDA p : p[1] # p[2])
  IN FlattenSeq([k \in DOMAIN pairs |-> aligns(pairs[k])])
       \o (IF isa = "avx512" THEN [k \in DOMAIN others |-> try("perm2", others[k][1], others[k][2], 0)]
           ELSE << >>)
       \o (IF isa = "avx256" THEN << >> ELSE [k \in 1 .. m |-> try("perm1", vecs[k], vecs[k], 0)])

(* Passes over the tries look for ever fewer elements, "size", and take    *)
(* each try that finds exactly so many; s.size and s.at are how far they   *)
(* have come.                                                              *)
Candidates(isa, n, wanted, tries, s) ==
  {c \in {[at |-> k, size |-> Cardinality(Found(n, tries[k], wanted, s.done))] :
             k \in {i \in DOMAIN tries : s.done = {} \/ CanMask(isa, tries[i].op)}} :
     c.size > 0 /\ (c.size < s.size \/ (c.size = s.size /\ c.at > s.at))}

(* The register after the next instruction.                                *)
Extended(isa, n, wanted, try, s) ==
  LET found == Found(n, try, wanted, s.done)
      new == Instruction(n, try, found)
  IN [reg |-> IF s.done = {} \/ ~CanMask(isa, try.op) THEN new
               ELSE Masked(s.reg, new, LanesIn(found)),
      done |-> s.done \cup LanesIn(found)]

(* What is not done in the end is assigned one by one; without intrinsics  *)
(* this is all of it.                                                      *)
Constructed(isa, n, wanted) ==
  LET tries == IF isa = "none" THEN << >> ELSE Tries(isa, n, SetToSeq({w.vec : w \in wanted}))
      after[i \in 0 .. n] ==
        IF i = 0 THEN [reg |-> {}, done |-> {}, size |-> n, at |-> 0]
        ELSE LET s == after[i - 1]
                 cs == Candidates(isa, n, wanted, tries, s)
                 c == CHOOSE c \in cs : \A e \in cs : c.size > e.size \/ (c.size = e.size /\ c.at <= e.at)
             IN IF cs = {} THEN s ELSE Extended(isa, n, wanted, tries[c.at], s) @@ c
      s == after[n]
  IN Masked(s.reg, wanted, LanesOf(<<n>>) \ s.done)

-----------------------------------------------------------------------------
(* Pointers.  One is kept for all the aligned vectors that differ only in  *)
(* the inner dimension, and in the misc dimensions if those are laid out   *)
(* inside it; it points to index 0 there, and to the first misc index.     *)

BasePoint(v, vec) ==
  [d \in VDims(v) |-> CASE d = v.inner -> 0
                        [] v.inner_misc /\ v.kind[d] = "misc" -> v.local_ofs[d]
                        [] OTHER -> vec[d]]

(* Each misc dimension multiplies the term before it by the sizes of the   *)
(* misc dimensions from it on, and adds a term.                            *)
PtrOffset(v, vec) ==
  LET misc == IF v.inner_misc THEN SelectSeq([d \in VDims(v) |-> d], LAMBDA d : v.kind[d] = "misc")
              ELSE << >>
      sizes(i) == TupleProduct([j \in 1 .. Len(misc) - i + 1 |-> v.domain[misc[i + j - 1]]])
      terms[i \in 0 .. Len(misc)] ==
        IF i = 0 THEN [sum |-> 0, last |-> vec[v.inner]]
        ELSE [sum |-> terms[i - 1].sum + terms[i - 1].last * sizes(i),
              last |-> vec[misc[i]] - v.local_ofs[misc[i]]]
  IN terms[Len(misc)].sum + terms[Len(misc)].last

PtrRead(v, vec) == VecPtrNorm(v, BasePoint(v, vec)) + PtrOffset(v, vec)
=============================================================================
