--------------------------- MODULE BoundingBoxes ----------------------------
(***************************************************************************)
(* The boxes of a bundle: the points of the rank at which its condition on *)
(* domain indices holds, as a list of boxes that hold no other point.      *)
(*                                                                         *)
(* A box has a begin and an end, which is not included, in each dimension. *)
(***************************************************************************)
EXTENDS Tuples

BoxLen(box) == [d \in DOMAIN box.begin |-> box.end[d] - box.begin[d]]
InBox(box, pt) == \A d \in DOMAIN pt : pt[d] \in box.begin[d] .. box.end[d] - 1
PointsIn(box) ==
  IF \E d \in DOMAIN box.begin : box.end[d] <= box.begin[d] THEN {}
  ELSE LET ofs == PointsOf(BoxLen(box))
       IN {AddElements(box.begin, ofs[n]) : n \in DOMAIN ofs}

(* The part of a box that a thread searches, from 0, along the first       *)
(* dimension; it may be empty.                                             *)
Slice(box, nthreads, n) ==
  LET each == IDivFlr(BoxLen(box)[1] + nthreads - 1, nthreads)
      from == box.begin[1] + n * each
  IN [begin |-> [box.begin EXCEPT ![1] = from],
      end |-> [box.end EXCEPT ![1] = Min({box.end[1], from + each})]]

(* A point that is in the sub-domain and in no box found so far.           *)
IsFree(valid, found, pt) ==
  pt \in valid /\ \A i \in DOMAIN found : ~InBox(found[i], pt)

(* The lengths of a new box at a point: the rest of the slice is scanned   *)
(* and cut in the first dimension in which a point that is not free is     *)
(* beyond the beginning, and scanned again unless that is the last one.    *)
Grown(valid, found, pt, end) ==
  LET scan[len \in [DOMAIN pt -> Nat]] ==
        LET ofs == PointsOf(len)
            bad == SelectInSeq(ofs, LAMBDA o : ~IsFree(valid, found, AddElements(pt, o)))
            cut == Min({d \in DOMAIN pt : ofs[bad][d] > 0})
            less == [len EXCEPT ![cut] = ofs[bad][cut]]
        IN IF bad = 0 THEN len ELSE IF cut < Len(pt) THEN scan[less] ELSE less
  IN scan[BoxLen([begin |-> pt, end |-> end])]

(* The boxes found in a slice, in the order of their first points.         *)
BoxesOfSlice(valid, slice) ==
  IF slice.end[1] <= slice.begin[1] THEN << >>
  ELSE LET visit(found, ofs) ==
             LET pt == AddElements(slice.begin, ofs)
             IN IF ~IsFree(valid, found, pt) THEN found
                ELSE Append(found, [begin |-> pt,
                                    end |-> AddElements(pt, Grown(valid, found, pt, slice.end))])
       IN FoldLeft(visit, << >>, PointsOf(BoxLen(slice)))

(* A box goes on in the next slice if it is as wide in all other dimensions.*)
GoesOn(box, next) ==
  /\ box.end[1] = next.begin[1]
  /\ \A d \in 2 .. Len(box.begin) : box.begin[d] = next.begin[d] /\ box.end[d] = next.end[d]

Merged(boxes, next) ==
  LET i == SelectInSeq(boxes, LAMBDA box : GoesOn(box, next))
  IN IF i = 0 THEN Append(boxes, next) ELSE [boxes EXCEPT ![i].end[1] = next.end[1]]

(* All threads' boxes are merged into one list, slice by slice.            *)
FindBoxes(box, valid, nthreads) ==
  FoldLeft(Merged, << >>,
           FlattenSeq([n \in 1 .. nthreads |-> BoxesOfSlice(valid, Slice(box, nthreads, n - 1))]))
=============================================================================
