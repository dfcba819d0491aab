------------------------ MODULE TemporalTilingProofs ------------------------
(***************************************************************************)
(* Tiling for ranks of any number of dimensions and any sizes, halos,      *)
(* levels and neighbours: the blocks that calc_region() evaluates          *)
(* concurrently never touch each other, every point gets all its levels    *)
(* and each in turn, slabs are final before they are sent, and the order   *)
(* is one that the plain loop's results allow (StencilOrder).              *)
(*                                                                         *)
(* First the scans (tiles and their order), then one dimension at a time   *)
(* what shapes and bridges leave apart, then what each function of the     *)
(* setup and of the loops returns, and the invariant of the loops.  Then   *)
(* the order of two evaluations (the later in the loops may follow the     *)
(* earlier), the cover (every level of every point is in some evaluation), *)
(* and from both the invariant for what is still to come.                  *)
(***************************************************************************)
EXTENDS TemporalTiling, TuplesProofs

-----------------------------------------------------------------------------
(* Tiles.                                                                  *)
Spans == [lo : Int, hi : Int]
Boxes(c) == [Dims(c) -> Spans]

(* Tile number k of a span of some dimension.                              *)
TileOf(t, span, stride) ==
  /\ t \in Spans
  /\ t.lo < span.hi
  /\ t.hi = IF t.lo + stride <= span.hi THEN t.lo + stride ELSE span.hi
  /\ \E k \in Nat : t.lo = span.lo + k * stride

LEMMA CeilDivBound ==
  ASSUME NEW n \in Int, NEW m \in Nat \ {0}, NEW k \in Nat, k <= CeilDiv(n, m) - 1
  PROVE  k * m < n
<1> DEFINE q == (n + m - 1) \div m
<1>1. q \in Int /\ q * m <= n + m - 1
  BY SMT
<1>2. k + 1 <= q
  BY DEF CeilDiv
<1> HIDE DEF q
<1>3. (q - k - 1) * m >= 0
  BY <1>1, <1>2, SMT
<1>4. (q - k - 1) * m = q * m - k * m - m
  BY <1>1, SMT
<1>5. k * m \in Int /\ q * m \in Int
  BY <1>1, SMT
<1> QED
  BY <1>1, <1>3, <1>4, <1>5

LEMMA TilesAre ==
  ASSUME NEW box, NEW stride, NEW t \in Tiles(box, stride), NEW j \in DOMAIN box,
         box[j] \in Spans, stride[j] \in Nat \ {0}
  PROVE  TileOf(t[j], box[j], stride[j])
<1>1. PICK k \in 0..(CeilDiv(box[j].hi - box[j].lo, stride[j]) - 1) :
        t[j] = [lo |-> box[j].lo + k * stride[j],
                hi |-> Min({box[j].lo + k * stride[j] + stride[j], box[j].hi})]
  BY Zenon DEF Tiles
<1>2. box[j].lo \in Int /\ box[j].hi \in Int /\ k \in Nat
  BY DEF Spans
<1>3. k <= CeilDiv(box[j].hi - box[j].lo, stride[j]) - 1
  <2>1. CeilDiv(box[j].hi - box[j].lo, stride[j]) \in Int
    BY <1>2 DEF CeilDiv
  <2> QED
    BY <2>1
<1>4. k * stride[j] < box[j].hi - box[j].lo
  BY <1>2, <1>3, CeilDivBound
<1> DEFINE x == k * stride[j]
<1>5. x \in Int
  BY <1>2
<1> HIDE DEF x
<1>6. Min({box[j].lo + x + stride[j], box[j].hi})
        = IF box[j].lo + x + stride[j] <= box[j].hi THEN box[j].lo + x + stride[j] ELSE box[j].hi
  BY <1>2, <1>5, MinOfTwo
<1>7. t[j] = [lo |-> box[j].lo + x, hi |-> Min({box[j].lo + x + stride[j], box[j].hi})]
  BY <1>1 DEF x
<1>8. x < box[j].hi - box[j].lo
  BY <1>4 DEF x
<1>9. t[j].lo = box[j].lo + x /\ t[j] \in Spans /\ t[j].lo < box[j].hi
  BY <1>2, <1>5, <1>6, <1>7, <1>8 DEF Spans
<1>10. \E i \in Nat : t[j].lo = box[j].lo + i * stride[j]
  BY <1>2, <1>9 DEF x
<1> QED
  BY <1>2, <1>5, <1>6, <1>7, <1>9, <1>10 DEF TileOf

LEMMA TileBounds ==
  ASSUME NEW span \in Spans, NEW stride \in Nat \ {0}, NEW t, TileOf(t, span, stride)
  PROVE  /\ t \in Spans /\ t.lo \in Int /\ t.hi \in Int
         /\ span.lo <= t.lo /\ t.lo < t.hi /\ t.hi <= span.hi
         /\ t.hi = t.lo + stride \/ t.hi = span.hi
<1>1. PICK k \in Nat : t.lo = span.lo + k * stride
  BY DEF TileOf
<1>2. k * stride \in Nat
  BY SMT
<1> QED
  BY <1>1, <1>2 DEF TileOf, Spans

(* Two tiles of a span do not meet.                                        *)
LEMMA TilesDisjoint ==
  ASSUME NEW span \in Spans, NEW stride \in Nat \ {0}, NEW t, NEW u,
         TileOf(t, span, stride), TileOf(u, span, stride), t # u
  PROVE  \/ t.lo + stride <= u.lo /\ t.hi = t.lo + stride /\ t.hi < span.hi /\ span.lo < u.lo
         \/ u.lo + stride <= t.lo /\ u.hi = u.lo + stride /\ u.hi < span.hi /\ span.lo < t.lo
<1>1. PICK k \in Nat : t.lo = span.lo + k * stride
  BY DEF TileOf
<1>2. PICK i \in Nat : u.lo = span.lo + i * stride
  BY DEF TileOf
<1>3. k # i
  BY <1>1, <1>2 DEF TileOf, Spans
<1>4. k * stride \in Nat /\ i * stride \in Nat
  BY SMT
<1>5. CASE k < i
  <2>1. stride * k + stride <= stride * i
    BY <1>5, TimesMonotone
  <2>2. k * stride + stride <= i * stride
    BY <2>1
  <2> QED
    BY <1>1, <1>2, <1>4, <2>2 DEF TileOf, Spans
<1>6. CASE i < k
  <2>1. stride * i + stride <= stride * k
    BY <1>6, TimesMonotone
  <2>2. i * stride + stride <= k * stride
    BY <2>1
  <2> QED
    BY <1>1, <1>2, <1>4, <2>2 DEF TileOf, Spans
<1> QED
  BY <1>3, <1>5, <1>6

(* The last tile of a span is a whole stride or the remainder.             *)
LEMMA LastTile ==
  ASSUME NEW span \in Spans, NEW stride \in Nat \ {0}, NEW t, TileOf(t, span, stride)
  PROVE  \/ t.hi = t.lo + stride
         \/ t.hi = span.hi /\ t.hi - t.lo = (span.hi - span.lo) % stride
<1>1. PICK k \in Nat : t.lo = span.lo + k * stride
  BY DEF TileOf
<1> DEFINE w == t.hi - t.lo
           x == k * stride
<1>2. SUFFICES ASSUME t.hi # t.lo + stride
               PROVE  t.hi = span.hi /\ w = (span.hi - span.lo) % stride
  OBVIOUS
<1>3. t.hi = span.hi /\ w \in Nat /\ w < stride
  BY <1>2 DEF TileOf, Spans
<1>4. x \in Nat /\ x = stride * k
  BY SMT
<1>5. span.hi - span.lo = w + x
  BY <1>1, <1>3, <1>4 DEF Spans, TileOf
<1> HIDE DEF w
<1>6. (w + stride * k) % stride = w
  BY <1>3, DivideBy
<1> QED
  BY <1>3, <1>4, <1>5, <1>6

-----------------------------------------------------------------------------
(* The shape of a block in one dimension.  A block is followed by another  *)
(* one ("not last") or preceded by one ("not first") in that dimension.    *)
(* BaseHi is where the phase-0 trapezoid of a block ends at shift 0.       *)
BaseHi(c, t, j) == IF t.lo + c.tb_widths[j] <= t.hi THEN t.lo + c.tb_widths[j] ELSE t.hi

ShapeTypes(c, blk, base, box, n, j) ==
  /\ c.tb_angles[j] \in Nat /\ c.tb_widths[j] \in Nat /\ n \in Nat
  /\ blk[j] \in Spans /\ base[j] \in Spans /\ box[j] \in Spans

LEMMA ShapeIsSpan ==
  ASSUME NEW c, NEW blk, NEW base, NEW box, NEW n, NEW nphases, NEW bridged, NEW j,
         ShapeTypes(c, blk, base, box, n, j)
  PROVE  Shape(c, blk, base, n, nphases, bridged, box, j) \in Spans
<1> DEFINE shift == c.tb_angles[j] * n
           stop == IF nphases > 1 /\ ~(blk[j].lo <= base[j].lo /\ blk[j].hi >= base[j].hi)
                     THEN Min({blk[j].lo + c.tb_widths[j], blk[j].hi}) ELSE blk[j].hi
           first == blk[j].lo <= base[j].lo
           last == blk[j].hi >= base[j].hi
           start == IF first THEN box[j].lo ELSE blk[j].lo + shift
           end == IF (nphases = 1 \/ (first /\ last)) /\ last THEN box[j].hi ELSE stop - shift
           next == IF last THEN box[j].hi ELSE blk[j].hi + shift
<1>1. shift \in Int /\ blk[j].lo \in Int /\ blk[j].hi \in Int /\ box[j].lo \in Int
      /\ box[j].hi \in Int /\ c.tb_widths[j] \in Int
  BY SMT DEF ShapeTypes, Spans
<1>2. stop \in Int
  <2> DEFINE m == blk[j].lo + c.tb_widths[j]
             k == blk[j].hi
  <2>1. m \in Int /\ k \in Int
    BY <1>1
  <2>2. stop = (IF nphases > 1 /\ ~(first /\ last) THEN Min({m, k}) ELSE k)
    OBVIOUS
  <2> HIDE DEF m, k, stop, first, last
  <2>3. Min({m, k}) = IF m <= k THEN m ELSE k
    BY <2>1, MinOfTwo
  <2> QED
    BY <2>1, <2>2, <2>3
<1>3. Shape(c, blk, base, n, nphases, bridged, box, j)
        = IF j \in bridged THEN [lo |-> Max({end, start}), hi |-> next]
                           ELSE [lo |-> start, hi |-> end]
  BY DEF Shape
<1> HIDE DEF shift, stop, first, last
<1>4. start \in Int /\ end \in Int /\ next \in Int
  BY <1>1, <1>2
<1> HIDE DEF start, end, next
<1>5. Max({end, start}) \in Int
  BY <1>4, MaxOfTwo
<1> QED
  BY <1>3, <1>4, <1>5 DEF Spans

LEMMA ShapeBeforeNext ==
  ASSUME NEW c, NEW blk, NEW base, NEW box, NEW n, NEW nphases \in Nat, NEW bridged, NEW j,
         ShapeTypes(c, blk, base, box, n, j), nphases > 1, blk[j].hi < base[j].hi,
         NEW s, s = Shape(c, blk, base, n, nphases, bridged, box, j)
  PROVE  /\ j \notin bridged => s.hi = BaseHi(c, blk[j], j) - c.tb_angles[j] * n
         /\ j \in bridged => s.hi = blk[j].hi + c.tb_angles[j] * n
<1>1. Min({blk[j].lo + c.tb_widths[j], blk[j].hi}) = BaseHi(c, blk[j], j)
  BY MinOfTwo DEF ShapeTypes, Spans, BaseHi
<1>2. ~(blk[j].hi >= base[j].hi)
  BY DEF ShapeTypes, Spans
<1>3. ~(nphases = 1)
  OBVIOUS
<1> QED
  BY <1>1, <1>2, <1>3 DEF Shape

LEMMA ShapeAfterFirst ==
  ASSUME NEW c, NEW blk, NEW base, NEW box, NEW n, NEW nphases \in Nat, NEW bridged, NEW j,
         ShapeTypes(c, blk, base, box, n, j), nphases > 1, base[j].lo < blk[j].lo,
         NEW s, s = Shape(c, blk, base, n, nphases, bridged, box, j)
  PROVE  /\ j \notin bridged => s.lo = blk[j].lo + c.tb_angles[j] * n
         /\ j \in bridged => /\ s.lo >= blk[j].lo + c.tb_angles[j] * n
                             /\ s.lo >= BaseHi(c, blk[j], j) - c.tb_angles[j] * n
                             /\ s.hi = IF blk[j].hi >= base[j].hi THEN box[j].hi
                                       ELSE blk[j].hi + c.tb_angles[j] * n
<1>1. Min({blk[j].lo + c.tb_widths[j], blk[j].hi}) = BaseHi(c, blk[j], j)
  BY MinOfTwo DEF ShapeTypes, Spans, BaseHi
<1>2. ~(blk[j].lo <= base[j].lo)
  BY DEF ShapeTypes, Spans
<1>3. ~(nphases = 1)
  OBVIOUS
<1> DEFINE shift == c.tb_angles[j] * n
           stop == BaseHi(c, blk[j], j) - shift
           start == blk[j].lo + shift
<1>4. shift \in Int /\ start \in Int /\ stop \in Int
  BY SMT DEF ShapeTypes, Spans, BaseHi
<1>5. s = IF j \in bridged
            THEN [lo |-> Max({stop, start}),
                  hi |-> IF blk[j].hi >= base[j].hi THEN box[j].hi ELSE blk[j].hi + shift]
            ELSE [lo |-> start, hi |-> stop]
  BY <1>1, <1>2, <1>3 DEF Shape
<1> HIDE DEF shift, stop, start
<1>6. Max({stop, start}) >= stop /\ Max({stop, start}) >= start
  BY <1>4, MaxOfTwo
<1>7. /\ j \notin bridged => s.lo = start
      /\ j \in bridged => /\ s.lo >= start /\ s.lo >= stop
                          /\ s.hi = IF blk[j].hi >= base[j].hi THEN box[j].hi ELSE blk[j].hi + shift
  BY <1>5, <1>6
<1> QED
  BY <1>7 DEF shift, stop, start

(* A block that is alone in a dimension has nothing to bridge in it; else  *)
(* its bridge starts where its trapezoid ends.                             *)
LEMMA ShapeOfSame ==
  ASSUME NEW c, NEW blk, NEW base, NEW box, NEW n, NEW nphases \in Nat, NEW j,
         ShapeTypes(c, blk, base, box, n, j), nphases > 1
  PROVE  /\ \A bridged :
              j \in bridged =>
                LET s == Shape(c, blk, base, n, nphases, bridged, box, j)
                IN IF blk[j].lo <= base[j].lo /\ blk[j].hi >= base[j].hi THEN s.lo >= s.hi
                   ELSE s.lo >= BaseHi(c, blk[j], j) - c.tb_angles[j] * n
         /\ \A bridged :
              j \notin bridged /\ ~(blk[j].lo <= base[j].lo /\ blk[j].hi >= base[j].hi) =>
                Shape(c, blk, base, n, nphases, bridged, box, j).hi
                  = BaseHi(c, blk[j], j) - c.tb_angles[j] * n
<1>1. Min({blk[j].lo + c.tb_widths[j], blk[j].hi}) = BaseHi(c, blk[j], j)
  BY MinOfTwo DEF ShapeTypes, Spans, BaseHi
<1> DEFINE first == blk[j].lo <= base[j].lo
           last == blk[j].hi >= base[j].hi
           shift == c.tb_angles[j] * n
           stop == BaseHi(c, blk[j], j) - shift
           start == IF first THEN box[j].lo ELSE blk[j].lo + shift
           next == IF last THEN box[j].hi ELSE blk[j].hi + shift
<1>2. shift \in Int /\ start \in Int /\ stop \in Int /\ box[j].hi \in Int
  BY SMT DEF ShapeTypes, Spans, BaseHi
<1>3. ASSUME NEW bridged, j \in bridged, first, last
      PROVE  Shape(c, blk, base, n, nphases, bridged, box, j) = [lo |-> Max({box[j].hi, start}), hi |-> box[j].hi]
  BY <1>3 DEF Shape
<1>4. ASSUME NEW bridged, j \in bridged, ~(first /\ last)
      PROVE  Shape(c, blk, base, n, nphases, bridged, box, j) = [lo |-> Max({stop, start}), hi |-> next]
  <2> DEFINE end == IF (nphases = 1 \/ (first /\ last)) /\ last THEN box[j].hi
                    ELSE (IF nphases > 1 /\ ~(first /\ last)
                            THEN Min({blk[j].lo + c.tb_widths[j], blk[j].hi})
                            ELSE blk[j].hi) - shift
  <2>1. end = stop
    BY <1>1, <1>4
  <2>2. Shape(c, blk, base, n, nphases, bridged, box, j) = [lo |-> Max({end, start}), hi |-> next]
    BY <1>4, Zenon DEF Shape
  <2> QED
    BY <2>1, <2>2
<1>5. ASSUME NEW bridged, j \notin bridged, ~(first /\ last)
      PROVE  Shape(c, blk, base, n, nphases, bridged, box, j).hi = stop
  BY <1>1, <1>5 DEF Shape
<1> HIDE DEF shift, stop, start, next
<1>6. Max({stop, start}) >= stop /\ Max({box[j].hi, start}) >= box[j].hi
  BY <1>2, MaxOfTwo
<1>7. ASSUME NEW bridged, j \in bridged
      PROVE  LET s == Shape(c, blk, base, n, nphases, bridged, box, j)
             IN IF first /\ last THEN s.lo >= s.hi ELSE s.lo >= stop
  <2> DEFINE s == Shape(c, blk, base, n, nphases, bridged, box, j)
  <2>1. first /\ last => s = [lo |-> Max({box[j].hi, start}), hi |-> box[j].hi]
    BY <1>3, <1>7
  <2>2. ~(first /\ last) => s = [lo |-> Max({stop, start}), hi |-> next]
    BY <1>4, <1>7
  <2> HIDE DEF s, first, last
  <2>3. IF first /\ last THEN s.lo >= s.hi ELSE s.lo >= stop
    BY <2>1, <2>2, <1>6
  <2> QED
    BY <2>3 DEF s
<1> QED
  BY <1>5, <1>7 DEF stop, shift

-----------------------------------------------------------------------------
(* Two blocks of a phase, at shifts n and m of at most N, in one dimension *)
(* where the first is to the left of the second and both are bridged: the  *)
(* bridge of the second starts beyond what the first has reached, for the  *)
(* trapezoid of the second is wide enough for both slopes.                 *)
BridgeRoom(a, h, N, n, m, xhi, ylo, yhi, w, lo, hi) ==
  /\ a \in Nat /\ h \in Nat /\ N \in Nat /\ n \in Nat /\ m \in Nat
  /\ m < n /\ n <= N /\ h <= a
  /\ xhi \in Int /\ ylo \in Int /\ yhi \in Int /\ w \in Int /\ lo \in Int /\ hi \in Int
  /\ xhi <= ylo /\ ylo < yhi /\ w >= 2 * (a * N) + 1 /\ lo < hi
  /\ lo >= ylo + a * m
  /\ lo >= (IF ylo + w <= yhi THEN ylo + w ELSE yhi) - a * m
  /\ \/ yhi - ylo >= 2 * (a * N) + 1
     \/ /\ hi <= yhi
        /\ N > 1 => \/ yhi - ylo <= a
                    \/ yhi - ylo >= (2 * N - 1) * a + h

LEMMA BridgesApart ==
  ASSUME NEW a, NEW h, NEW N, NEW n, NEW m, NEW xhi, NEW ylo, NEW yhi, NEW w, NEW lo, NEW hi,
         BridgeRoom(a, h, N, n, m, xhi, ylo, yhi, w, lo, hi)
  PROVE  xhi + a * n + h <= lo
<1> USE DEF BridgeRoom
<1> DEFINE an == a * n
           am == a * m
           aN == a * N
<1>1. an \in Nat /\ am \in Nat /\ am + a <= an
  BY TimesMonotone
<1>2. aN \in Nat /\ an <= aN
  <2>1. CASE n = N
    BY <1>1, <2>1
  <2>2. CASE n < N
    BY <2>2, TimesMonotone
  <2> QED
    BY <2>1, <2>2
<1>3. (2 * N - 1) * a = 2 * aN - a
  BY SMT
<1>4. m > 0 => am >= a
  <2>1. m > 0 => a * 0 + a <= a * m
    BY TimesMonotone
  <2> QED
    BY <2>1
<1>5. m = 0 => am = 0
  BY SMT
<1> HIDE DEF an, am, aN
<1>6. /\ w >= 2 * aN + 1
      /\ lo >= ylo + am
      /\ lo >= (IF ylo + w <= yhi THEN ylo + w ELSE yhi) - am
      /\ \/ yhi - ylo >= 2 * aN + 1
         \/ hi <= yhi /\ (N > 1 => yhi - ylo <= a \/ yhi - ylo >= 2 * aN - a + h)
  BY <1>3 DEF an, am, aN
<1>7. CASE yhi - ylo >= 2 * aN - a + h
  BY <1>1, <1>2, <1>6, <1>7
<1>8. CASE /\ hi <= yhi
           /\ N > 1 => yhi - ylo <= a \/ yhi - ylo >= 2 * aN - a + h
           /\ yhi - ylo < 2 * aN - a + h
  <2>1. yhi < ylo + w
    BY <1>1, <1>2, <1>6, <1>8
  <2>2. lo >= yhi - am
    BY <2>1, <1>6
  <2>3. CASE m = 0
    BY <1>5, <1>8, <2>2, <2>3
  <2>4. CASE m > 0
    BY <1>1, <1>2, <1>4, <1>6, <1>8, <2>4
  <2> QED
    BY <2>3, <2>4
<1>9. xhi + an + h <= lo
  BY <1>1, <1>2, <1>6, <1>7, <1>8
<1> QED
  BY <1>9 DEF an

-----------------------------------------------------------------------------
(* What the proof needs of a context: its temporal blocks have room for    *)
(* all their shifts.                                                       *)
TbFits(c, N, j) ==
  /\ c.max_halo[j] \in Nat /\ c.tb_angles[j] \in Nat /\ c.tb_widths[j] \in Nat
  /\ c.block[j] \in Nat \ {0} /\ c.region[j] \in Nat \ {0}
  /\ c.tb_steps > 0 /\ c.block[j] < c.region[j] =>
       /\ c.max_halo[j] <= c.tb_angles[j]
       /\ c.block[j] >= 2 * (c.tb_angles[j] * N) + 1
       /\ N > 0 => c.tb_widths[j] >= 2 * (c.tb_angles[j] * N) + 1

WideRemainder(c, N, base, j) ==
  LET remainder == (base[j].hi - base[j].lo) % c.block[j]
  IN N > 1 /\ c.block[j] < c.region[j] =>
       \/ remainder <= c.tb_angles[j]
       \/ remainder >= (2 * N - 1) * c.tb_angles[j] + c.max_halo[j]

TbContext(c, N, base) ==
  /\ N \in Nat
  /\ \A j \in Dims(c) : TbFits(c, N, j) /\ WideRemainder(c, N, base, j) /\ base[j] \in Spans

BlockOf(c, blk, base, j) == TileOf(blk[j], base[j], StrideIn(base, c.block, c.region)[j])

LEMMA StrideIs ==
  ASSUME NEW c, NEW N, NEW base, NEW j \in Dims(c), TbContext(c, N, base),
         DOMAIN base = Dims(c), NEW stride, stride = StrideIn(base, c.block, c.region)[j]
  PROVE  /\ stride \in Nat \ {0}
         /\ c.block[j] < c.region[j] => stride = c.block[j]
         /\ c.block[j] >= c.region[j] => stride >= base[j].hi - base[j].lo
<1>1. base[j].lo \in Int /\ base[j].hi \in Int /\ c.block[j] \in Nat \ {0} /\ c.region[j] \in Nat
  BY DEF TbContext, TbFits, Spans
<1>2. stride = IF c.block[j] >= c.region[j] THEN Max({1, base[j].hi - base[j].lo}) ELSE c.block[j]
  BY DEF StrideIn
<1> DEFINE size == base[j].hi - base[j].lo
<1>3. size \in Int
  BY <1>1
<1> HIDE DEF size
<1>4. Max({1, size}) = IF 1 >= size THEN 1 ELSE size
  BY <1>3, MaxOfTwo
<1>5. stride = IF c.block[j] >= c.region[j] THEN Max({1, size}) ELSE c.block[j]
  BY <1>2 DEF size
<1>6. /\ stride \in Nat \ {0}
      /\ c.block[j] < c.region[j] => stride = c.block[j]
      /\ c.block[j] >= c.region[j] => stride >= size
  BY <1>1, <1>3, <1>4, <1>5
<1> QED
  BY <1>6 DEF size

(* If a block has a neighbour in a dimension, blocks are smaller than      *)
(* regions in it.                                                          *)
LEMMA SomeBlocks ==
  ASSUME NEW c, NEW N, NEW base, NEW j \in Dims(c), TbContext(c, N, base),
         DOMAIN base = Dims(c), NEW blk, BlockOf(c, blk, base, j),
         \/ base[j].lo < blk[j].lo
         \/ blk[j].hi < base[j].hi
  PROVE  c.block[j] < c.region[j]
<1> DEFINE stride == StrideIn(base, c.block, c.region)[j]
<1>1. stride \in Nat \ {0} /\ (c.block[j] >= c.region[j] => stride >= base[j].hi - base[j].lo)
  BY StrideIs, Zenon
<1> HIDE DEF stride
<1>2. TileOf(blk[j], base[j], stride)
  BY DEF BlockOf, stride
<1>3. base[j] \in Spans /\ c.block[j] \in Nat \ {0} /\ c.region[j] \in Nat
  BY DEF TbContext, TbFits
<1>4. SUFFICES ASSUME c.block[j] >= c.region[j] PROVE FALSE
  BY <1>3
<1>5. PICK k \in Nat : blk[j].lo = base[j].lo + k * stride
  BY <1>2 DEF TileOf
<1>6. CASE k = 0
  BY <1>1, <1>2, <1>3, <1>4, <1>5, <1>6 DEF TileOf, Spans
<1>7. CASE k > 0
  <2>1. stride * 0 + stride <= stride * k
    BY <1>1, <1>7, TimesMonotone
  <2>2. k * stride >= stride /\ k * stride \in Nat
    BY <1>1, <2>1
  <2> QED
    BY <1>1, <1>2, <1>3, <1>4, <1>5, <2>2 DEF TileOf, Spans
<1> QED
  BY <1>6, <1>7

-----------------------------------------------------------------------------
(* Two shapes of a phase that are bridged in as many dimensions are apart  *)
(* in one dimension: by the halo if they are at different shifts.          *)
Apart(x, y, gap) == x.hi + gap <= y.lo \/ y.hi + gap <= x.lo
Gap(c, n, m, j) == IF n = m THEN 0 ELSE c.max_halo[j]

(* What lies within two spans apart is apart.                              *)
LEMMA WithinApart ==
  ASSUME NEW x, NEW y, NEW s, NEW t, s.lo >= x.lo /\ s.hi <= x.hi, t.lo >= y.lo /\ t.hi <= y.hi,
         x.hi <= y.lo \/ y.hi <= x.lo,
         /\ x.lo \in Int /\ x.hi \in Int /\ y.lo \in Int /\ y.hi \in Int
         /\ s.lo \in Int /\ s.hi \in Int /\ t.lo \in Int /\ t.hi \in Int
  PROVE  Apart(s, t, 0)
BY DEF Apart

(* Block "blk" of "base" in one of the shapes, after n shifts.             *)
ShapeOf(s, c, N, base, blk, n, bridged, box, nphases) ==
  /\ n \in Nat /\ n <= N
  /\ \A j \in Dims(c) :
       /\ BlockOf(c, blk, base, j)
       /\ box[j] \in Spans /\ box[j].hi <= base[j].hi
       /\ s[j] = Shape(c, blk, base, n, nphases, bridged, box, j)
       /\ s[j].lo < s[j].hi

LEMMA ShapeOfTypes ==
  ASSUME NEW c, NEW N, NEW base, DOMAIN base = Dims(c), TbContext(c, N, base),
         NEW s, NEW blk, NEW n, NEW bridged, NEW box, NEW nphases,
         ShapeOf(s, c, N, base, blk, n, bridged, box, nphases), NEW j \in Dims(c)
  PROVE  /\ ShapeTypes(c, blk, base, box, n, j)
         /\ s[j] = Shape(c, blk, base, n, nphases, bridged, box, j)
         /\ s[j] \in Spans /\ s[j].lo < s[j].hi
         /\ blk[j].lo < blk[j].hi /\ base[j].lo <= blk[j].lo /\ blk[j].hi <= base[j].hi
<1> DEFINE stride == StrideIn(base, c.block, c.region)[j]
<1>1. stride \in Nat \ {0}
  BY StrideIs, Zenon
<1>2. base[j] \in Spans /\ TileOf(blk[j], base[j], stride)
  BY DEF BlockOf, ShapeOf, TbContext
<1> HIDE DEF stride
<1>3. /\ blk[j] \in Spans /\ blk[j].lo < blk[j].hi
      /\ base[j].lo <= blk[j].lo /\ blk[j].hi <= base[j].hi
  BY <1>1, <1>2, TileBounds, Zenon
<1>4. ShapeTypes(c, blk, base, box, n, j)
  BY <1>2, <1>3 DEF ShapeOf, TbContext, TbFits, ShapeTypes
<1>5. s[j] = Shape(c, blk, base, n, nphases, bridged, box, j) /\ s[j].lo < s[j].hi
  BY DEF ShapeOf
<1>6. Shape(c, blk, base, n, nphases, bridged, box, j) \in Spans
  BY <1>4, ShapeIsSpan, Zenon
<1> QED
  BY <1>3, <1>4, <1>5, <1>6

(* In a dimension where one block is to the left of the other.             *)
LeftOf(c, x, y, base, j) == x[j].hi <= y[j].lo /\ x[j].hi < base[j].hi /\ base[j].lo < y[j].lo

LEMMA ApartBesides ==
  ASSUME NEW c, NEW N, NEW base, DOMAIN base = Dims(c), TbContext(c, N, base),
         NEW x, NEW s, NEW n, NEW A, NEW boxn, NEW y, NEW t, NEW m, NEW B, NEW boxm,
         NEW nphases \in Nat, nphases > 1, c.tb_steps > 0,
         ShapeOf(s, c, N, base, x, n, A, boxn, nphases),
         ShapeOf(t, c, N, base, y, m, B, boxm, nphases),
         NEW j \in Dims(c), LeftOf(c, x, y, base, j),
         j \notin A \/ (j \in B /\ m < n) \/ n <= m
  PROVE  s[j].hi + Gap(c, n, m, j) <= t[j].lo
<1>1. /\ ShapeTypes(c, x, base, boxn, n, j) /\ s[j] \in Spans
      /\ s[j] = Shape(c, x, base, n, nphases, A, boxn, j)
      /\ ShapeTypes(c, y, base, boxm, m, j) /\ t[j] \in Spans
      /\ t[j] = Shape(c, y, base, m, nphases, B, boxm, j)
      /\ y[j].lo < y[j].hi /\ y[j].hi <= base[j].hi /\ t[j].lo < t[j].hi
      /\ n \in Nat /\ n <= N /\ m \in Nat /\ m <= N /\ N \in Nat
  <2>1. /\ ShapeTypes(c, x, base, boxn, n, j) /\ s[j] \in Spans
        /\ s[j] = Shape(c, x, base, n, nphases, A, boxn, j)
    BY ShapeOfTypes
  <2>2. /\ ShapeTypes(c, y, base, boxm, m, j) /\ t[j] \in Spans
        /\ t[j] = Shape(c, y, base, m, nphases, B, boxm, j)
        /\ y[j].lo < y[j].hi /\ y[j].hi <= base[j].hi /\ t[j].lo < t[j].hi
    BY ShapeOfTypes
  <2> QED
    BY <2>1, <2>2 DEF ShapeOf, TbContext
<1>2. c.block[j] < c.region[j]
  <2>1. BlockOf(c, x, base, j) /\ x[j].hi < base[j].hi
    BY DEF ShapeOf, LeftOf
  <2> QED
    BY <2>1, SomeBlocks, Zenon
<1> DEFINE a == c.tb_angles[j]
           h == c.max_halo[j]
           w == c.tb_widths[j]
           xhi == x[j].hi
           ylo == y[j].lo
           yhi == y[j].hi
<1>3. /\ a \in Nat /\ h \in Nat /\ w \in Nat /\ xhi \in Int /\ ylo \in Int /\ yhi \in Int
      /\ s[j].hi \in Int /\ t[j].lo \in Int /\ t[j].hi \in Int /\ boxm[j].hi \in Int
      /\ base[j].hi \in Int /\ x[j].lo \in Int
  BY <1>1 DEF TbContext, TbFits, ShapeTypes, Spans
<1>4. /\ h <= a /\ c.block[j] >= 2 * (a * N) + 1
      /\ N > 0 => w >= 2 * (a * N) + 1
  BY <1>2 DEF TbContext, TbFits
<1>5. /\ j \notin A => s[j].hi = BaseHi(c, x[j], j) - a * n
      /\ j \in A => s[j].hi = xhi + a * n
  BY <1>1, ShapeBeforeNext DEF LeftOf
<1>6. /\ j \notin B => t[j].lo = ylo + a * m
      /\ j \in B => /\ t[j].lo >= ylo + a * m
                    /\ t[j].lo >= BaseHi(c, y[j], j) - a * m
                    /\ t[j].hi = IF yhi >= base[j].hi THEN boxm[j].hi ELSE yhi + a * m
  BY <1>1, ShapeAfterFirst DEF LeftOf
<1>7. BaseHi(c, x[j], j) <= xhi /\ BaseHi(c, x[j], j) \in Int
  BY <1>3 DEF BaseHi
<1>8. xhi <= ylo
  BY DEF LeftOf
<1>9. a * n \in Nat /\ a * m \in Nat
  BY <1>1, <1>3
<1>10. t[j].lo >= ylo + a * m
  BY <1>3, <1>6, <1>9
<1> DEFINE g == Gap(c, n, m, j)
<1>11. g \in Nat /\ g <= a /\ (n = m => g = 0) /\ (n # m => g = h)
  BY <1>1, <1>3, <1>4 DEF Gap
<1>12. n < m => a * n + a <= a * m
  BY <1>1, <1>3, TimesMonotone
<1>13. m < n => a * m + a <= a * n
  BY <1>1, <1>3, TimesMonotone
<1>14. CASE j \notin A
  <2>1. s[j].hi <= xhi - a * n
    BY <1>3, <1>5, <1>7, <1>9, <1>14
  <2>2. CASE n = m
    BY <1>3, <1>8, <1>9, <1>10, <1>11, <2>1, <2>2
  <2>3. CASE n # m
    <3>1. a * n >= a \/ a * m >= a
      BY <1>1, <1>3, <1>9, <1>12, <1>13, <2>3
    <3> QED
      BY <1>3, <1>8, <1>9, <1>10, <1>11, <2>1, <3>1
  <2> QED
    BY <2>2, <2>3
<1>15. CASE n <= m /\ j \in A
  <2>1. s[j].hi = xhi + a * n
    BY <1>5, <1>15
  <2>2. CASE n = m
    BY <1>3, <1>8, <1>9, <1>10, <1>11, <2>1, <2>2
  <2>3. CASE n < m
    BY <1>3, <1>8, <1>9, <1>10, <1>11, <1>12, <2>1, <2>3
  <2> QED
    BY <1>1, <1>15, <2>2, <2>3
<1>16. CASE j \in A /\ j \in B /\ m < n
  <2>1. g = h
    BY <1>1, <1>11, <1>16
  <2>2. s[j].hi = xhi + a * n
    BY <1>5, <1>16
  <2>3. w >= 2 * (a * N) + 1
    BY <1>1, <1>4, <1>16
  <2>4. t[j].lo >= (IF ylo + w <= yhi THEN ylo + w ELSE yhi) - a * m
    BY <1>6, <1>16 DEF BaseHi
  <2>5. \/ yhi - ylo >= 2 * (a * N) + 1
        \/ /\ t[j].hi <= yhi
           /\ N > 1 => yhi - ylo <= a \/ yhi - ylo >= (2 * N - 1) * a + h
    <3>1. /\ StrideIn(base, c.block, c.region)[j] = c.block[j]
          /\ c.block[j] \in Nat \ {0} /\ base[j] \in Spans
      BY <1>2, StrideIs DEF TbContext, TbFits
    <3>2. TileOf(y[j], base[j], c.block[j])
      BY <3>1 DEF ShapeOf, BlockOf
    <3>3. \/ yhi = ylo + c.block[j]
          \/ yhi = base[j].hi /\ yhi - ylo = (base[j].hi - base[j].lo) % c.block[j]
      BY <3>1, <3>2, LastTile, Zenon
    <3>4. CASE yhi = ylo + c.block[j]
      <4>1. a * N \in Nat
        BY <1>1, <1>3
      <4> QED
        BY <1>3, <1>4, <3>1, <3>4, <4>1
    <3>5. CASE yhi = base[j].hi /\ yhi - ylo = (base[j].hi - base[j].lo) % c.block[j]
      <4>1. t[j].hi = boxm[j].hi /\ boxm[j].hi <= base[j].hi
        BY <1>3, <1>6, <1>16, <3>5 DEF ShapeOf
      <4>2. N > 1 => yhi - ylo <= a \/ yhi - ylo >= (2 * N - 1) * a + h
        BY <1>2, <3>5 DEF TbContext, WideRemainder
      <4> QED
        BY <3>5, <4>1, <4>2
    <3> QED
      BY <3>3, <3>4, <3>5
  <2> HIDE DEF a, h, w, xhi, ylo, yhi
  <2>6. w \in Int
    BY <1>3
  <2>7. ylo < yhi /\ t[j].lo < t[j].hi
    BY <1>1 DEF ylo, yhi
  <2>8. xhi + a * n + h <= t[j].lo
    <3>1. /\ a \in Nat /\ h \in Nat /\ N \in Nat /\ n \in Nat /\ m \in Nat
          /\ m < n /\ n <= N /\ h <= a
          /\ xhi \in Int /\ ylo \in Int /\ yhi \in Int /\ t[j].lo \in Int /\ t[j].hi \in Int
      BY <1>1, <1>3, <1>4, <1>16
    <3>2. BridgeRoom(a, h, N, n, m, xhi, ylo, yhi, w, t[j].lo, t[j].hi)
      BY <3>1, <1>8, <1>10, <2>3, <2>4, <2>5, <2>6, <2>7, Zenon DEF BridgeRoom
    <3> QED
      BY <3>2, BridgesApart, Zenon
  <2> QED
    BY <2>1, <2>2, <2>8
<1>17. n <= m \/ m < n
  BY <1>1
<1> QED
  BY <1>14, <1>15, <1>16, <1>17, Zenon

LEMMA GapSymmetric ==
  ASSUME NEW c, NEW n, NEW m, NEW j
  PROVE  Gap(c, n, m, j) = Gap(c, m, n, j)
BY DEF Gap

LEMMA LeftOrRight ==
  ASSUME NEW c, NEW N, NEW base, DOMAIN base = Dims(c), TbContext(c, N, base),
         NEW x, NEW y, NEW j \in Dims(c), BlockOf(c, x, base, j), BlockOf(c, y, base, j),
         x[j] # y[j]
  PROVE  LeftOf(c, x, y, base, j) \/ LeftOf(c, y, x, base, j)
<1> DEFINE stride == StrideIn(base, c.block, c.region)[j]
<1>1. stride \in Nat \ {0} /\ base[j] \in Spans
  BY StrideIs, Zenon DEF TbContext
<1> HIDE DEF stride
<1>2. TileOf(x[j], base[j], stride) /\ TileOf(y[j], base[j], stride)
  BY DEF BlockOf, stride
<1>3. \/ x[j].lo + stride <= y[j].lo /\ x[j].hi = x[j].lo + stride /\ x[j].hi < base[j].hi /\ base[j].lo < y[j].lo
      \/ y[j].lo + stride <= x[j].lo /\ y[j].hi = y[j].lo + stride /\ y[j].hi < base[j].hi /\ base[j].lo < x[j].lo
  BY <1>1, <1>2, TilesDisjoint, Zenon
<1> QED
  BY <1>3 DEF LeftOf

(* In a dimension that the second block bridges and the first does not,    *)
(* with the first one further in its shifts.                               *)
LEMMA ApartInBridge ==
  ASSUME NEW c, NEW N, NEW base, DOMAIN base = Dims(c), TbContext(c, N, base),
         NEW x, NEW s, NEW n, NEW A, NEW boxn, NEW y, NEW t, NEW m, NEW B, NEW boxm,
         NEW nphases \in Nat, nphases > 1, c.tb_steps > 0,
         ShapeOf(s, c, N, base, x, n, A, boxn, nphases),
         ShapeOf(t, c, N, base, y, m, B, boxm, nphases),
         NEW k \in Dims(c), k \in B, k \notin A, m < n
  PROVE  Apart(s[k], t[k], Gap(c, n, m, k))
<1>1. /\ ShapeTypes(c, x, base, boxn, n, k) /\ s[k] \in Spans
      /\ s[k] = Shape(c, x, base, n, nphases, A, boxn, k)
  BY ShapeOfTypes
<1>2. /\ ShapeTypes(c, y, base, boxm, m, k) /\ t[k] \in Spans
      /\ t[k] = Shape(c, y, base, m, nphases, B, boxm, k)
      /\ t[k].lo < t[k].hi
  BY ShapeOfTypes
<1>3. BlockOf(c, x, base, k) /\ BlockOf(c, y, base, k) /\ n \in Nat /\ m \in Nat
  BY DEF ShapeOf
<1>4. CASE x[k] = y[k]
  <2>1. ~(y[k].lo <= base[k].lo /\ y[k].hi >= base[k].hi) /\ t[k].lo >= BaseHi(c, y[k], k) - c.tb_angles[k] * m
    <3>1. IF y[k].lo <= base[k].lo /\ y[k].hi >= base[k].hi THEN t[k].lo >= t[k].hi
          ELSE t[k].lo >= BaseHi(c, y[k], k) - c.tb_angles[k] * m
      BY <1>2, ShapeOfSame
    <3> QED
      BY <3>1, <1>2 DEF Spans
  <2>2. s[k].hi = BaseHi(c, y[k], k) - c.tb_angles[k] * n
    BY <1>1, <1>4, <2>1, ShapeOfSame
  <2>3. c.block[k] < c.region[k]
    <3>1. base[k].lo < y[k].lo \/ y[k].hi < base[k].hi
      BY <1>2, <2>1 DEF ShapeTypes, Spans
    <3> QED
      BY <1>3, <3>1, SomeBlocks, Zenon
  <2>4. c.max_halo[k] <= c.tb_angles[k] /\ c.max_halo[k] \in Nat /\ c.tb_angles[k] \in Nat
    BY <2>3 DEF TbContext, TbFits
  <2>5. /\ c.tb_angles[k] * m \in Nat /\ c.tb_angles[k] * n \in Nat
        /\ c.tb_angles[k] * m + c.tb_angles[k] <= c.tb_angles[k] * n
    BY <1>3, <2>4, TimesMonotone
  <2>6. BaseHi(c, y[k], k) \in Int
    BY <1>2 DEF BaseHi, ShapeTypes, Spans
  <2>7. s[k].hi + c.max_halo[k] <= t[k].lo
    BY <1>1, <1>2, <2>1, <2>2, <2>4, <2>5, <2>6 DEF Spans
  <2> QED
    BY <1>3, <2>7 DEF Apart, Gap
<1>5. CASE LeftOf(c, x, y, base, k)
  <2>1. s[k].hi + Gap(c, n, m, k) <= t[k].lo
    BY <1>5, ApartBesides
  <2> QED
    BY <2>1 DEF Apart
<1>6. CASE LeftOf(c, y, x, base, k)
  <2>1. m <= n
    BY <1>3
  <2>2. t[k].hi + Gap(c, m, n, k) <= s[k].lo
    BY <1>6, <2>1, ApartBesides
  <2> QED
    BY <2>2, GapSymmetric DEF Apart
<1> QED
  BY <1>3, <1>4, <1>5, <1>6, LeftOrRight

LEMMA OrderedShapesApart ==
  ASSUME NEW c, NEW N, NEW base, DOMAIN base = Dims(c), TbContext(c, N, base),
         NEW x, NEW s, NEW n, NEW A, NEW boxn, NEW y, NEW t, NEW m, NEW B, NEW boxm,
         NEW nphases \in Nat, nphases > 1, c.tb_steps > 0,
         ShapeOf(s, c, N, base, x, n, A, boxn, nphases),
         ShapeOf(t, c, N, base, y, m, B, boxm, nphases),
         B \subseteq Dims(c), A # B => B \ A # {},
         NEW j \in Dims(c), LeftOf(c, x, y, base, j)
  PROVE  \E i \in Dims(c) : Apart(s[i], t[i], Gap(c, n, m, i))
<1>1. CASE j \notin A \/ (j \in B /\ m < n) \/ n <= m
  <2>1. s[j].hi + Gap(c, n, m, j) <= t[j].lo
    BY <1>1, ApartBesides
  <2> QED
    BY <2>1 DEF Apart
<1>2. CASE j \in A /\ ~(j \in B /\ m < n) /\ ~(n <= m)
  <2>1. n \in Nat /\ m \in Nat
    BY DEF ShapeOf
  <2>2. m < n /\ j \notin B
    BY <1>2, <2>1
  <2>3. PICK k \in B : k \notin A
    BY <1>2, <2>2
  <2>4. Apart(s[k], t[k], Gap(c, n, m, k))
    BY <2>2, <2>3, ApartInBridge
  <2> QED
    BY <2>3, <2>4
<1> QED
  BY <1>1, <1>2

TwoShapes(c, N, base, x, s, n, A, boxn, y, t, m, B, boxm, nphases, j) ==
  /\ DOMAIN base = Dims(c) /\ TbContext(c, N, base)
  /\ nphases \in Nat /\ nphases > 1 /\ c.tb_steps > 0
  /\ ShapeOf(s, c, N, base, x, n, A, boxn, nphases)
  /\ ShapeOf(t, c, N, base, y, m, B, boxm, nphases)
  /\ A \subseteq Dims(c) /\ B \subseteq Dims(c)
  /\ A # B => A \ B # {} /\ B \ A # {}
  /\ j \in Dims(c) /\ x[j] # y[j]

LEMMA ShapesApart ==
  ASSUME NEW c, NEW N, NEW base, NEW x, NEW s, NEW n, NEW A, NEW boxn,
         NEW y, NEW t, NEW m, NEW B, NEW boxm, NEW nphases, NEW j,
         TwoShapes(c, N, base, x, s, n, A, boxn, y, t, m, B, boxm, nphases, j)
  PROVE  \E i \in Dims(c) : Apart(s[i], t[i], Gap(c, n, m, i))
<1>0. /\ DOMAIN base = Dims(c) /\ TbContext(c, N, base)
      /\ nphases \in Nat /\ nphases > 1 /\ c.tb_steps > 0
      /\ ShapeOf(s, c, N, base, x, n, A, boxn, nphases)
      /\ ShapeOf(t, c, N, base, y, m, B, boxm, nphases)
      /\ A \subseteq Dims(c) /\ B \subseteq Dims(c)
      /\ A # B => A \ B # {} /\ B \ A # {}
      /\ j \in Dims(c) /\ x[j] # y[j]
  BY Zenon DEF TwoShapes
<1>1. BlockOf(c, x, base, j) /\ BlockOf(c, y, base, j)
  BY <1>0 DEF ShapeOf
<1>2. CASE LeftOf(c, x, y, base, j)
  BY <1>0, <1>2, OrderedShapesApart
<1>3. CASE LeftOf(c, y, x, base, j)
  <2>1. \E i \in Dims(c) : Apart(t[i], s[i], Gap(c, m, n, i))
    BY <1>0, <1>3, OrderedShapesApart
  <2> QED
    BY <2>1, GapSymmetric DEF Apart
<1> QED
  BY <1>0, <1>1, <1>2, <1>3, LeftOrRight

-----------------------------------------------------------------------------
(* A finite set in the order of a strict total order.                      *)
StrictOrder(S, before) ==
  /\ \A x \in S : <<x, x>> \notin before
  /\ \A x, y \in S : x # y => <<x, y>> \in before \/ <<y, x>> \in before
  /\ \A x, y, z \in S : <<x, y>> \in before /\ <<y, z>> \in before => <<x, z>> \in before

LEMMA PositionIn ==
  ASSUME NEW S, IsFiniteSet(S), NEW before, StrictOrder(S, before), NEW x \in S
  PROVE  Position(S, before, x) \in 1 .. Cardinality(S)
<1> DEFINE T == {y \in S : <<y, x>> \in before}
<1>1. T \in SUBSET S /\ x \notin T
  BY DEF StrictOrder
<1> HIDE DEF T
<1>2. IsFiniteSet(T) /\ Cardinality(T) <= Cardinality(S) /\ (Cardinality(S) = Cardinality(T) => S = T)
  BY <1>1, FS_Subset
<1>3. Cardinality(T) \in Nat /\ Cardinality(S) \in Nat
  BY <1>2, FS_CardinalityType
<1>4. Cardinality(S) # Cardinality(T)
  BY <1>1, <1>2
<1>5. Position(S, before, x) = 1 + Cardinality(T)
  BY DEF Position, T
<1> QED
  BY <1>2, <1>3, <1>4, <1>5

LEMMA PositionGrows ==
  ASSUME NEW S, IsFiniteSet(S), NEW before, StrictOrder(S, before), NEW x \in S, NEW y \in S,
         <<x, y>> \in before
  PROVE  Position(S, before, x) < Position(S, before, y)
<1> DEFINE T == {z \in S : <<z, x>> \in before}
           U == {z \in S : <<z, y>> \in before}
<1>1. T \in SUBSET U /\ U \in SUBSET S /\ x \in U /\ x \notin T
  BY DEF StrictOrder
<1>2. Position(S, before, x) = 1 + Cardinality(T) /\ Position(S, before, y) = 1 + Cardinality(U)
  BY DEF Position
<1> HIDE DEF T, U
<1>3. IsFiniteSet(U)
  BY <1>1, FS_Subset
<1>4. IsFiniteSet(T) /\ Cardinality(T) <= Cardinality(U) /\ (Cardinality(U) = Cardinality(T) => U = T)
  BY <1>1, <1>3, FS_Subset
<1>5. Cardinality(T) \in Nat /\ Cardinality(U) \in Nat
  BY <1>3, <1>4, FS_CardinalityType
<1>6. Cardinality(U) # Cardinality(T)
  BY <1>1, <1>4
<1> QED
  BY <1>2, <1>4, <1>5, <1>6

LEMMA ListedIs ==
  ASSUME NEW S, IsFiniteSet(S), NEW before, StrictOrder(S, before)
  PROVE  /\ Cardinality(S) \in Nat
         /\ Listed(S, before) \in [1 .. Cardinality(S) -> S]
         /\ \A k \in 1 .. Cardinality(S) : Position(S, before, Listed(S, before)[k]) = k
         /\ \A x \in S : /\ Position(S, before, x) \in 1 .. Cardinality(S)
                         /\ Listed(S, before)[Position(S, before, x)] = x
<1> DEFINE N == Cardinality(S)
           place == [x \in S |-> Position(S, before, x)]
<1>1. N \in Nat
  BY FS_CardinalityType
<1>2. place \in [S -> 1 .. N]
  BY PositionIn
<1>3. \A x, y \in S : place[x] = place[y] => x = y
  <2> SUFFICES ASSUME NEW x \in S, NEW y \in S, x # y PROVE place[x] # place[y]
    OBVIOUS
  <2>1. <<x, y>> \in before \/ <<y, x>> \in before
    BY DEF StrictOrder
  <2>2. place[x] < place[y] \/ place[y] < place[x]
    BY <2>1, PositionGrows
  <2>3. place[x] \in Int /\ place[y] \in Int
    BY <1>2
  <2> QED
    BY <2>2, <2>3
<1>4. IsFiniteSet(1 .. N) /\ Cardinality(1 .. N) = N
  BY <1>1, FS_Interval
<1>5. place \in Injection(S, 1 .. N)
  BY <1>2, <1>3 DEF Injection, IsInjective
<1>6. place \in Surjection(S, 1 .. N)
  <2> HIDE DEF place
  <2> QED
    BY <1>4, <1>5, FS_Injection
<1>7. \A k \in 1 .. N : \E x \in S : place[x] = k
  <2> HIDE DEF place
  <2> QED
    BY <1>6 DEF Surjection
<1>8. ASSUME NEW k \in 1 .. N
      PROVE  Listed(S, before)[k] \in S /\ Position(S, before, Listed(S, before)[k]) = k
  <2>1. \E x \in S : Position(S, before, x) = k
    BY <1>7
  <2>2. Listed(S, before)[k] = CHOOSE x \in S : Position(S, before, x) = k
    BY DEF Listed
  <2> QED
    BY <2>1, <2>2
<1>9. Listed(S, before) \in [1 .. N -> S]
  <2>1. Listed(S, before) = [k \in 1 .. N |-> Listed(S, before)[k]]
    BY DEF Listed
  <2> QED
    BY <1>8, <2>1
<1>10. ASSUME NEW x \in S PROVE Listed(S, before)[Position(S, before, x)] = x
  <2>1. place[x] \in 1 .. N /\ place[x] = Position(S, before, x)
    BY <1>2
  <2>2. Listed(S, before)[place[x]] \in S /\ place[Listed(S, before)[place[x]]] = place[x]
    BY <1>8, <2>1
  <2> QED
    BY <1>3, <2>1, <2>2
<1> QED
  BY <1>1, <1>8, <1>9, <1>10, PositionIn

Along(box, stride, j) ==
  {[lo |-> x, hi |-> Min({x + stride[j], box[j].hi})] :
     x \in {box[j].lo + k * stride[j] :
              k \in 0..(CeilDiv(box[j].hi - box[j].lo, stride[j]) - 1)}}

LEMMA FiniteTiles ==
  ASSUME NEW box, NEW stride, IsFiniteSet(DOMAIN box),
         \A j \in DOMAIN box : box[j] \in Spans /\ stride[j] \in Nat \ {0}
  PROVE  IsFiniteSet(Tiles(box, stride))
<1> DEFINE D == DOMAIN box
           along == [j \in D |-> Along(box, stride, j)]
<1>1. ASSUME NEW j \in D PROVE IsFiniteSet(Along(box, stride, j))
  <2> DEFINE K == 0..(CeilDiv(box[j].hi - box[j].lo, stride[j]) - 1)
             tile == [k \in K |-> [lo |-> box[j].lo + k * stride[j],
                                   hi |-> Min({box[j].lo + k * stride[j] + stride[j], box[j].hi})]]
  <2>1. CeilDiv(box[j].hi - box[j].lo, stride[j]) \in Int
    BY DEF CeilDiv, Spans
  <2>2. IsFiniteSet(K)
    BY <2>1, FS_Interval
  <2>3. Along(box, stride, j) = {tile[k] : k \in K}
    BY DEF Along
  <2> HIDE DEF K
  <2>4. IsFiniteSet({tile[k] : k \in K})
    BY <2>2, FiniteImage
  <2> QED
    BY <2>3, <2>4
<1>2. IsFiniteSet({along[j] : j \in D})
  <2>1. DOMAIN along = D
    OBVIOUS
  <2> HIDE DEF along
  <2> QED
    BY <2>1, FiniteImage
<1>3. {along[j] : j \in D} = {Along(box, stride, j) : j \in D}
  OBVIOUS
<1>4. IsFiniteSet(UNION {Along(box, stride, j) : j \in D})
  BY <1>1, <1>2, <1>3, FS_UNION
<1>5. IsFiniteSet([D -> UNION {Along(box, stride, j) : j \in D}])
  BY <1>4, FiniteFunctions
<1>6. Tiles(box, stride) \in SUBSET [D -> UNION {Along(box, stride, j) : j \in D}]
  BY Zenon DEF Tiles, Along
<1> QED
  BY <1>5, <1>6, FS_Subset, Zenon

LEMMA TileIsFunction ==
  ASSUME NEW box, NEW stride, NEW t \in Tiles(box, stride)
  PROVE  DOMAIN t = DOMAIN box /\ t = [j \in DOMAIN box |-> t[j]]
BY DEF Tiles

LEMMA TilesInOrder ==
  ASSUME NEW d \in Nat, NEW box, NEW stride, DOMAIN box = 1 .. d,
         \A j \in DOMAIN box : box[j] \in Spans /\ stride[j] \in Nat \ {0},
         NEW tiles, tiles = Tiles(box, stride)
  PROVE  StrictOrder(tiles, {tu \in tiles \X tiles : TileBefore(tu[1], tu[2])})
<1> DEFINE before == {tu \in tiles \X tiles : TileBefore(tu[1], tu[2])}
<1>1. ASSUME NEW t \in tiles
      PROVE  /\ DOMAIN t = 1 .. d /\ t = [j \in 1 .. d |-> t[j]]
             /\ \A j \in 1 .. d : TileOf(t[j], box[j], stride[j]) /\ t[j].lo \in Int
  <2>1. DOMAIN t = 1 .. d /\ t = [j \in 1 .. d |-> t[j]]
    BY TileIsFunction
  <2>2. ASSUME NEW j \in 1 .. d PROVE TileOf(t[j], box[j], stride[j]) /\ t[j].lo \in Int
    <3>1. TileOf(t[j], box[j], stride[j])
      BY TilesAre
    <3> QED
      BY <3>1 DEF TileOf, Spans
  <2> QED
    BY <2>1, <2>2
<1>2. ASSUME NEW t \in tiles, NEW u \in tiles, NEW j \in 1 .. d, t[j].lo = u[j].lo
      PROVE  t[j] = u[j]
  <2>1. TileOf(t[j], box[j], stride[j]) /\ TileOf(u[j], box[j], stride[j])
    BY <1>1
  <2>2. t[j].hi = u[j].hi /\ t[j] \in Spans /\ u[j] \in Spans
    BY <1>2, <2>1 DEF TileOf
  <2> QED
    BY <1>2, <2>2 DEF Spans
<1>3. ASSUME NEW t \in tiles, NEW u \in tiles
      PROVE  <<t, u>> \in before <=>
               \E j \in 1 .. d : t[j].lo < u[j].lo /\ \A i \in 1..(j-1) : t[i] = u[i]
  <2>1. <<t, u>> \in before <=> TileBefore(t, u)
    OBVIOUS
  <2>2. DOMAIN t = 1 .. d
    BY <1>1
  <2> QED
    BY <2>1, <2>2 DEF TileBefore
<1> HIDE DEF before
<1>4. ASSUME NEW t \in tiles PROVE <<t, t>> \notin before
  BY <1>1, <1>3
<1>5. ASSUME NEW t \in tiles, NEW u \in tiles, t # u
      PROVE  <<t, u>> \in before \/ <<u, t>> \in before
  <2> DEFINE Diff == {j \in 1 .. d : t[j] # u[j]}
  <2>1. Diff \subseteq Nat /\ Diff # {}
    BY <1>1, <1>5
  <2> HIDE DEF Diff
  <2>2. PICK j \in Diff : \A i \in Diff : j <= i
    BY <2>1, LeastNat
  <2>3. j \in 1 .. d /\ t[j] # u[j]
    BY <2>2 DEF Diff
  <2>4. \A i \in 1 .. (j - 1) : t[i] = u[i]
    <3> SUFFICES ASSUME NEW i \in 1 .. (j - 1), t[i] # u[i] PROVE FALSE
      OBVIOUS
    <3>1. i \in Diff
      BY <2>3 DEF Diff
    <3> QED
      BY <2>2, <2>3, <3>1
  <2>5. t[j].lo \in Int /\ u[j].lo \in Int /\ t[j].lo # u[j].lo
    BY <1>1, <1>2, <2>3
  <2>6. t[j].lo < u[j].lo \/ u[j].lo < t[j].lo
    BY <2>5
  <2> QED
    BY <1>3, <2>3, <2>4, <2>6
<1>6. ASSUME NEW t \in tiles, NEW u \in tiles, NEW v \in tiles,
             <<t, u>> \in before, <<u, v>> \in before
      PROVE  <<t, v>> \in before
  <2>1. PICK j \in 1 .. d : t[j].lo < u[j].lo /\ \A i \in 1..(j-1) : t[i] = u[i]
    BY <1>3, <1>6
  <2>2. PICK k \in 1 .. d : u[k].lo < v[k].lo /\ \A i \in 1..(k-1) : u[i] = v[i]
    BY <1>3, <1>6
  <2>3. CASE j < k
    <3>1. t[j].lo < v[j].lo /\ \A i \in 1..(j-1) : t[i] = v[i]
      BY <2>1, <2>2, <2>3
    <3> QED
      BY <1>3, <3>1
  <2>4. CASE k < j
    <3>1. t[k].lo < v[k].lo /\ \A i \in 1..(k-1) : t[i] = v[i]
      BY <2>1, <2>2, <2>4
    <3> QED
      BY <1>3, <3>1
  <2>5. CASE j = k
    <3>1. t[j].lo \in Int /\ u[j].lo \in Int /\ v[j].lo \in Int
      BY <1>1
    <3>2. t[j].lo < v[j].lo /\ \A i \in 1..(j-1) : t[i] = v[i]
      BY <2>1, <2>2, <2>5, <3>1
    <3> QED
      BY <1>3, <3>2
  <2> QED
    BY <2>3, <2>4, <2>5
<1> QED
  BY <1>4, <1>5, <1>6 DEF StrictOrder, before

LEMMA ShapesInOrder ==
  ASSUME NEW shapes, \A A \in shapes : A \subseteq Nat
  PROVE  StrictOrder(shapes, {AB \in shapes \X shapes : ShapeBefore(AB[1], AB[2])})
<1> DEFINE before == {AB \in shapes \X shapes : ShapeBefore(AB[1], AB[2])}
<1>1. ASSUME NEW A \in shapes, NEW B \in shapes
      PROVE  <<A, B>> \in before <=> \E x \in A \ B : \A y \in B \ A : x < y
  BY DEF ShapeBefore
<1>2. ASSUME NEW A \in shapes, NEW B \in shapes, <<A, B>> \in before
      PROVE  \E x \in A \ B : (\A y \in B \ A : x < y) /\ \A y \in A \ B : x <= y
  <2>1. PICK x \in A \ B : \A y \in B \ A : x < y
    BY <1>1, <1>2
  <2>2. A \ B \subseteq Nat /\ A \ B # {} /\ A \subseteq Nat /\ B \subseteq Nat
    BY <2>1
  <2>3. PICK z \in A \ B : \A y \in A \ B : z <= y
    BY <2>2, LeastNat
  <2>4. ASSUME NEW y \in B \ A PROVE z < y
    <3>1. z <= x /\ x < y
      BY <2>1, <2>3
    <3>2. z \in Nat /\ x \in Nat /\ y \in Nat
      BY <2>2
    <3> QED
      BY <3>1, <3>2
  <2> QED
    BY <2>3, <2>4
<1> HIDE DEF before
<1>3. ASSUME NEW A \in shapes PROVE <<A, A>> \notin before
  BY <1>1
<1>4. ASSUME NEW A \in shapes, NEW B \in shapes, A # B
      PROVE  <<A, B>> \in before \/ <<B, A>> \in before
  <2> DEFINE Diff == (A \ B) \cup (B \ A)
  <2>1. Diff \subseteq Nat /\ Diff # {}
    BY <1>4
  <2> HIDE DEF Diff
  <2>2. PICK x \in Diff : \A y \in Diff : x <= y
    BY <2>1, LeastNat
  <2>3. CASE x \in A \ B
    <3>1. ASSUME NEW y \in B \ A PROVE x < y
      <4>1. y \in Diff /\ y # x
        BY <2>3 DEF Diff
      <4> QED
        BY <2>1, <2>2, <4>1
    <3> QED
      BY <1>1, <2>3, <3>1
  <2>4. CASE x \in B \ A
    <3>1. ASSUME NEW y \in A \ B PROVE x < y
      <4>1. y \in Diff /\ y # x
        BY <2>4 DEF Diff
      <4> QED
        BY <2>1, <2>2, <4>1
    <3> QED
      BY <1>1, <2>4, <3>1
  <2> QED
    BY <2>2, <2>3, <2>4 DEF Diff
<1>5. ASSUME NEW A \in shapes, NEW B \in shapes, NEW C \in shapes,
             <<A, B>> \in before, <<B, C>> \in before
      PROVE  <<A, C>> \in before
  <2>1. PICK x \in A \ B : (\A y \in B \ A : x < y) /\ \A y \in A \ B : x <= y
    BY <1>2, <1>5
  <2>2. PICK z \in B \ C : (\A y \in C \ B : z < y) /\ \A y \in B \ C : z <= y
    BY <1>2, <1>5
  <2>3. A \subseteq Nat /\ B \subseteq Nat /\ C \subseteq Nat /\ x \in Nat /\ z \in Nat /\ x # z
    BY <2>1, <2>2
  <2>4. CASE x < z
    <3>1. x \notin C
      <4>1. x \in C => z < x
        BY <2>1, <2>2
      <4> QED
        BY <2>3, <2>4, <4>1
    <3>2. ASSUME NEW y \in C \ A PROVE x < y
      <4>1. y \in B => x < y
        BY <2>1
      <4>2. y \notin B => z < y
        BY <2>2
      <4> QED
        BY <2>3, <2>4, <4>1, <4>2
    <3> QED
      BY <1>1, <3>1, <3>2
  <2>5. CASE z < x
    <3>1. z \in A
      <4>1. z \notin A => x < z
        BY <2>1, <2>2
      <4> QED
        BY <2>3, <2>5, <4>1
    <3>2. ASSUME NEW y \in C \ A PROVE z < y
      <4>1. y \in B => x < y
        BY <2>1
      <4>2. y \notin B => z < y
        BY <2>2
      <4> QED
        BY <2>3, <2>5, <4>1, <4>2
    <3> QED
      BY <1>1, <2>2, <3>1, <3>2
  <2> QED
    BY <2>3, <2>4, <2>5
<1> QED
  BY <1>3, <1>4, <1>5 DEF StrictOrder, before

-----------------------------------------------------------------------------
(* What is pending of a sequence of evaluations.                           *)
PendingRule(g, evals) ==
  g = [n \in 0 .. Len(evals) |->
         IF n = 0 THEN <<>>
         ELSE IF NonEmpty(evals[n].box) THEN Append(g[n - 1], evals[n])
         ELSE g[n - 1]]

PendingTo(f, evals, S) ==
  /\ f \in [0 .. Len(evals) -> Seq({e \in S : NonEmpty(e.box)})] /\ f[0] = << >>
  /\ \A i \in 1 .. Len(evals) :
       f[i] = IF NonEmpty(evals[i].box) THEN Append(f[i - 1], evals[i]) ELSE f[i - 1]
  /\ Pending(evals) = f[Len(evals)]

LEMMA PendingSteps ==
  ASSUME NEW S, NEW evals \in Seq(S)
  PROVE  \E f : PendingTo(f, evals, S)
<1> DEFINE T == Seq({e \in S : NonEmpty(e.box)})
           G == [i \in Nat |-> [y \in T |->
                  IF i + 1 \in 1 .. Len(evals) /\ NonEmpty(evals[i + 1].box)
                    THEN Append(y, evals[i + 1]) ELSE y]]
           g == CHOOSE h : PendingRule(h, evals)
<1>1. Len(evals) \in Nat /\ \A i \in 1 .. Len(evals) : evals[i] \in S
  OBVIOUS
<1>2. \A y \in T, i \in 1 .. Len(evals) : NonEmpty(evals[i].box) => Append(y, evals[i]) \in T
  BY <1>1
<1>3. << >> \in T
  OBVIOUS
<1>4. Pending(evals) = g[Len(evals)]
  BY Zenon DEF Pending, PendingRule
<1> HIDE DEF T
<1>5. G \in [Nat -> [T -> T]]
  BY <1>2
<1>6. PICK f : UpTo(Len(evals), f, T, << >>, G)
  <2> HIDE DEF G
  <2>1. \A n \in Nat : \E f : UpTo(n, f, T, << >>, G)
    BY <1>3, <1>5, RecursionUpTo, Zenon
  <2> QED
    BY <1>1, <2>1, Zenon
<1>7. f \in [0 .. Len(evals) -> T] /\ f[0] = << >>
  BY <1>6 DEF UpTo
<1>8. ASSUME NEW i \in 1 .. Len(evals)
      PROVE  f[i] = IF NonEmpty(evals[i].box) THEN Append(f[i - 1], evals[i]) ELSE f[i - 1]
  <2>1. i - 1 \in 0 .. Len(evals) - 1 /\ i - 1 \in Nat /\ (i - 1) + 1 = i
    BY <1>1
  <2>2. f[i] = G[i - 1][f[i - 1]] /\ f[i - 1] \in T
    <3> HIDE DEF G
    <3> QED
      BY <1>1, <1>6, <2>1 DEF UpTo
  <2> QED
    BY <2>1, <2>2
<1>9. PendingRule(f, evals)
  <2> DEFINE h == [n \in 0 .. Len(evals) |->
                     IF n = 0 THEN <<>>
                     ELSE IF NonEmpty(evals[n].box) THEN Append(f[n - 1], evals[n])
                     ELSE f[n - 1]]
  <2>1. f = [n \in 0 .. Len(evals) |-> f[n]]
    BY <1>7
  <2>2. ASSUME NEW n \in 0 .. Len(evals) PROVE f[n] = h[n]
    <3>1. CASE n = 0
      BY <1>7, <3>1
    <3>2. CASE n # 0
      <4>1. n \in 1 .. Len(evals)
        BY <1>1, <3>2
      <4> QED
        BY <1>8, <3>2, <4>1
    <3> QED
      BY <3>1, <3>2
  <2>3. f = h
    BY <2>1, <2>2
  <2> QED
    BY <2>3 DEF PendingRule
<1>10. PendingRule(g, evals)
  BY <1>9, Zenon
<1> HIDE DEF g, G
<1>11. \A n \in Nat : n \in 0 .. Len(evals) => g[n] \in T
  <2> DEFINE I == {n \in Nat : n \in 0 .. Len(evals) => g[n] \in T}
  <2>1. 0 \in I
    <3>1. g[0] = << >>
      BY <1>1, <1>10 DEF PendingRule
    <3> QED
      BY <1>3, <3>1
  <2>2. ASSUME NEW n \in Nat, n \in I PROVE n + 1 \in I
    <3> SUFFICES ASSUME n + 1 \in 0 .. Len(evals) PROVE g[n + 1] \in T
      OBVIOUS
    <3>1. g[n + 1] = IF NonEmpty(evals[n + 1].box) THEN Append(g[(n + 1) - 1], evals[n + 1])
                     ELSE g[(n + 1) - 1]
      <4>1. \A k \in 0 .. Len(evals) :
              g[k] = IF k = 0 THEN <<>>
                     ELSE IF NonEmpty(evals[k].box) THEN Append(g[k - 1], evals[k])
                     ELSE g[k - 1]
        BY <1>10 DEF PendingRule
      <4>2. n + 1 # 0
        OBVIOUS
      <4> QED
        BY <4>1, <4>2
    <3>2. n \in 0 .. Len(evals) /\ (n + 1) - 1 = n /\ n + 1 \in 1 .. Len(evals)
      BY <1>1
    <3>3. g[n] \in T
      BY <2>2, <3>2
    <3> QED
      BY <1>2, <3>1, <3>2, <3>3
  <2> HIDE DEF I
  <2>3. \A n \in Nat : n \in I
    BY <2>1, <2>2, NatSteps, Zenon
  <2> QED
    BY <2>3 DEF I
<1>12. g \in [0 .. Len(evals) -> T] /\ g[0] = << >>
  <2>1. DOMAIN g = 0 .. Len(evals) /\ g = [n \in 0 .. Len(evals) |-> g[n]] /\ g[0] = << >>
    BY <1>1, <1>10 DEF PendingRule
  <2>2. \A n \in 0 .. Len(evals) : g[n] \in T
    BY <1>1, <1>11
  <2> QED
    BY <2>1, <2>2
<1>13. ASSUME NEW i \in 1 .. Len(evals)
       PROVE  g[i] = IF NonEmpty(evals[i].box) THEN Append(g[i - 1], evals[i]) ELSE g[i - 1]
  <2>1. i \in 0 .. Len(evals) /\ i # 0
    BY <1>1
  <2> QED
    BY <1>10, <2>1 DEF PendingRule
<1>14. PendingTo(g, evals, S)
  BY <1>4, <1>12, <1>13, Zenon DEF PendingTo, T
<1> QED
  BY <1>14

LEMMA PendingInSeq ==
  ASSUME NEW S, NEW evals \in Seq(S)
  PROVE  Pending(evals) \in Seq({e \in S : NonEmpty(e.box)})
<1>1. PICK f : PendingTo(f, evals, S)
  BY PendingSteps
<1>2. Len(evals) \in 0 .. Len(evals)
  OBVIOUS
<1> QED
  BY <1>1, <1>2 DEF PendingTo

-----------------------------------------------------------------------------
(* From settings to a context.                                             *)
LEMMA RoundUpIs ==
  ASSUME NEW n \in Nat, NEW m \in Nat \ {0}
  PROVE  RoundUp(n, m) \in Nat /\ RoundUp(n, m) >= n /\ (n > 0 => RoundUp(n, m) >= m)
<1> DEFINE q == (n + m - 1) \div m
           r == (n + m - 1) % m
<1>1. q \in Nat /\ r \in Nat /\ r < m /\ n + m - 1 = r + m * q
  <2>1. n + m - 1 \in Nat
    OBVIOUS
  <2> QED
    BY <2>1, DivMod
<1>2. RoundUp(n, m) = q * m
  BY DEF RoundUp
<1> HIDE DEF q, r
<1>3. m * q \in Nat /\ q * m = m * q
  BY <1>1
<1>4. m * q >= n
  BY <1>1, <1>3
<1>5. n > 0 => q > 0
  BY <1>1
<1>6. q > 0 => m * q >= m
  <2>1. q > 0 => m * 0 + m <= m * q
    BY <1>1, TimesMonotone
  <2> QED
    BY <2>1
<1> QED
  BY <1>2, <1>3, <1>4, <1>5, <1>6

Sizes(d) == [1 .. d -> Nat \ {0}]

LEMMA FitSizesIs ==
  ASSUME NEW d \in Nat, NEW inner \in [1 .. d -> Nat], NEW outer \in Sizes(d), NEW mult \in Sizes(d)
  PROVE  /\ FitSizes(inner, outer, mult) \in Sizes(d)
         /\ \A j \in 1 .. d : FitSizes(inner, outer, mult)[j] >= mult[j]
<1>1. ASSUME NEW j \in 1 .. d
      PROVE  LET n == IF inner[j] = 0 THEN outer[j] ELSE inner[j]
             IN RoundUp(n, mult[j]) \in Nat \ {0} /\ RoundUp(n, mult[j]) >= mult[j]
  <2> DEFINE n == IF inner[j] = 0 THEN outer[j] ELSE inner[j]
  <2>1. n \in Nat /\ n > 0 /\ mult[j] \in Nat \ {0}
    BY DEF Sizes
  <2> HIDE DEF n
  <2>2. RoundUp(n, mult[j]) \in Nat /\ RoundUp(n, mult[j]) >= n /\ RoundUp(n, mult[j]) >= mult[j]
    BY <2>1, RoundUpIs
  <2>3. RoundUp(n, mult[j]) \in Nat \ {0} /\ RoundUp(n, mult[j]) >= mult[j]
    BY <2>1, <2>2
  <2> QED
    BY <2>3 DEF n
<1> QED
  BY <1>1 DEF FitSizes, Sizes

(* The settings after their sizes have been filled in.                     *)
SettingFields ==
  {"rank", "fold", "region", "block", "mini_block", "max_halo", "region_steps",
   "block_steps", "packs", "valid", "left", "right", "overlap", "min_exterior"}

StrideFits(a) ==
  /\ TupleSum(a.valid) > 0
  /\ Len(a.valid) <= 1 \/ Len(a.valid) <= a.region_steps \/ Len(a.valid) <= a.block_steps

Adjusted(a, d) ==
  /\ d \in Nat
  /\ a.rank \in Sizes(d) /\ a.fold \in Sizes(d) /\ a.region \in Sizes(d)
  /\ a.block \in Sizes(d) /\ a.mini_block \in Sizes(d)
  /\ \A j \in 1 .. d : a.block[j] >= a.fold[j]
  /\ a.max_halo \in [1 .. d -> Nat] /\ a.region_steps \in Nat /\ a.block_steps \in Nat
  /\ a.packs \in Nat \ {0} /\ a.valid \in Seq(Nat) /\ \A i \in DOMAIN a.valid : a.valid[i] <= a.packs
  /\ StrideFits(a)
  /\ a.left \in [1 .. d -> BOOLEAN] /\ a.right \in [1 .. d -> BOOLEAN]
  /\ a.overlap \in BOOLEAN /\ a.min_exterior \in Nat

GoodSettings(s, d) ==
  /\ d \in Nat /\ s \in RankSettings(d) /\ \A i \in DOMAIN s.valid : s.valid[i] <= s.packs
  /\ TupleSum(s.valid) > 0 /\ Len(s.valid) <= Max({1, s.region_steps, s.block_steps})

LEMMA AdjustedIs ==
  ASSUME NEW d, NEW s, GoodSettings(s, d)
  PROVE  Adjusted(AdjustSettings(s), d) /\ DOMAIN AdjustSettings(s) = SettingFields
<1> DEFINE rsize == FitSizes(s.region, s.rank, s.fold)
           block  == FitSizes(s.block, rsize, s.fold)
           mini   == FitSizes(s.mini_block, block, s.fold)
           a == AdjustSettings(s)
<1>1. /\ s.rank \in Sizes(d) /\ s.fold \in Sizes(d) /\ s.region \in [1 .. d -> Nat]
      /\ s.block \in [1 .. d -> Nat] /\ s.mini_block \in [1 .. d -> Nat]
      /\ s.region_steps \in Nat /\ s.block_steps \in Nat /\ d \in Nat
  BY DEF GoodSettings, RankSettings, Sizes
<1>2. rsize \in Sizes(d)
  BY <1>1, FitSizesIs
<1> HIDE DEF rsize
<1>3. block \in Sizes(d) /\ \A j \in 1 .. d : block[j] >= s.fold[j]
  BY <1>1, <1>2, FitSizesIs
<1> HIDE DEF block
<1>4. mini \in Sizes(d)
  BY <1>1, <1>3, FitSizesIs
<1> HIDE DEF mini
<1>5. a = [s EXCEPT !.region = rsize, !.block = block, !.mini_block = mini,
                    !.region_steps = IF @ = 0 THEN s.block_steps ELSE @]
  BY Zenon DEF AdjustSettings, rsize, block, mini
<1> HIDE DEF a
<1>6. s \in RankSettings(d) /\ (\A i \in DOMAIN s.valid : s.valid[i] <= s.packs)
      /\ TupleSum(s.valid) > 0
  BY DEF GoodSettings
<1>7. DOMAIN s = SettingFields
  BY <1>6 DEF RankSettings, SettingFields
<1>8. /\ DOMAIN a = DOMAIN s
      /\ a.region = rsize /\ a.block = block /\ a.mini_block = mini /\ a.region_steps \in Nat
      /\ a.rank = s.rank /\ a.fold = s.fold /\ a.max_halo = s.max_halo
      /\ a.block_steps = s.block_steps /\ a.packs = s.packs /\ a.valid = s.valid
      /\ a.left = s.left /\ a.right = s.right /\ a.overlap = s.overlap
      /\ a.min_exterior = s.min_exterior
  BY <1>1, <1>5, <1>7 DEF SettingFields
<1>9. /\ s.max_halo \in [1 .. d -> Nat] /\ s.packs \in Nat \ {0} /\ s.valid \in Seq(Nat)
      /\ s.left \in [1 .. d -> BOOLEAN] /\ s.right \in [1 .. d -> BOOLEAN]
      /\ s.overlap \in BOOLEAN /\ s.min_exterior \in Nat
  BY <1>6 DEF RankSettings
<1>10. StrideFits(a)
  <2>1. a.region_steps = IF s.region_steps = 0 THEN s.block_steps ELSE s.region_steps
    BY <1>5, <1>7 DEF SettingFields
  <2>2. Max({1, s.region_steps, s.block_steps}) \in {1, s.region_steps, s.block_steps}
    <3> DEFINE one == 1
    <3>1. one \in Int /\ s.region_steps \in Int /\ s.block_steps \in Int
      BY <1>1
    <3> HIDE DEF one
    <3>2. Max({one, s.region_steps, s.block_steps}) \in {one, s.region_steps, s.block_steps}
      BY <3>1, MaxOfThree
    <3> QED
      BY <3>2 DEF one
  <2>3. Len(s.valid) <= Max({1, s.region_steps, s.block_steps})
    BY DEF GoodSettings
  <2>4. Len(s.valid) <= 1 \/ Len(s.valid) <= s.region_steps \/ Len(s.valid) <= s.block_steps
    BY <2>2, <2>3
  <2>5. Len(s.valid) \in Nat
    BY <1>9
  <2> QED
    BY <1>1, <1>6, <1>8, <2>1, <2>4, <2>5 DEF StrideFits
<1>11. Adjusted(a, d)
  BY <1>1, <1>2, <1>3, <1>4, <1>6, <1>7, <1>8, <1>9, <1>10 DEF Adjusted
<1> QED
  BY <1>7, <1>8, <1>11 DEF a

LEMMA ExtendIs ==
  ASSUME NEW c, NEW g, DOMAIN c \cap DOMAIN g = {}
  PROVE  /\ DOMAIN Extend(c, g) = DOMAIN c \cup DOMAIN g
         /\ \A x \in DOMAIN c : Extend(c, g)[x] = c[x]
         /\ \A x \in DOMAIN g : Extend(c, g)[x] = g[x]
BY DEF Extend

LEMMA AdjustedExtends ==
  ASSUME NEW c, NEW d, Adjusted(c, d), SettingFields \subseteq DOMAIN c,
         NEW u, \A x \in DOMAIN c : u[x] = c[x]
  PROVE  Adjusted(u, d)
<1>1. /\ u.rank = c.rank /\ u.fold = c.fold /\ u.region = c.region /\ u.block = c.block
      /\ u.mini_block = c.mini_block /\ u.max_halo = c.max_halo
      /\ u.region_steps = c.region_steps /\ u.block_steps = c.block_steps
      /\ u.packs = c.packs /\ u.valid = c.valid /\ u.left = c.left /\ u.right = c.right
      /\ u.overlap = c.overlap /\ u.min_exterior = c.min_exterior
  BY DEF SettingFields
<1> QED
  BY <1>1 DEF Adjusted, StrideFits

LEMMA AngleIs ==
  ASSUME NEW c, NEW d, Adjusted(c, d), NEW j \in 1 .. d
  PROVE  /\ Angle(c, j) \in Nat /\ Angle(c, j) >= c.max_halo[j]
         /\ c.max_halo[j] = 0 => Angle(c, j) = 0
<1>1. c.max_halo[j] \in Nat /\ c.fold[j] \in Nat \ {0}
  BY DEF Adjusted, Sizes
<1>2. c.max_halo[j] = 0 => RoundUp(c.max_halo[j], c.fold[j]) = 0
  <2>1. \A m \in Nat \ {0} : (0 + m - 1) \div m = 0
    BY SMT
  <2>2. \A m \in Nat \ {0} : RoundUp(0, m) = 0
    BY <2>1 DEF RoundUp
  <2> QED
    BY <1>1, <2>2
<1> QED
  BY <1>1, <1>2, RoundUpIs DEF Angle

WfShifts(u) == IF u.wf_steps > 0 THEN u.packs * u.wf_steps - 1 ELSE 0

Fronted(u, j) ==
  /\ u.wf_shift_pts[j] = u.wf_angles[j] * WfShifts(u)
  /\ u.left_wf_exts[j] = (IF u.left[j] THEN u.wf_shift_pts[j] ELSE 0)
  /\ u.right_wf_exts[j] = (IF u.right[j] THEN u.wf_shift_pts[j] ELSE 0)
  /\ u.region[j] < u.rank[j] \/ u.left[j] \/ u.right[j] => u.max_halo[j] <= u.wf_angles[j]

Waved(u, d) ==
  /\ u.wf_steps \in Nat
  /\ u.wf_angles \in [1 .. d -> Nat] /\ u.wf_shift_pts \in [1 .. d -> Nat]
  /\ u.left_wf_exts \in [1 .. d -> Nat] /\ u.right_wf_exts \in [1 .. d -> Nat]
  /\ u.wf_steps > 0 => Len(u.valid) <= u.wf_steps
  /\ u.wf_steps = 0 => Len(u.valid) <= 1
  /\ WfShifts(u) \in Nat /\ \A j \in 1 .. d : Fronted(u, j)

WaveFields == {"wf_steps", "wf_angles", "wf_shift_pts", "left_wf_exts", "right_wf_exts"}

LEMMA DimsAre ==
  ASSUME NEW c, NEW d, Adjusted(c, d)
  PROVE  Dims(c) = 1 .. d
BY DEF Dims, Adjusted, Sizes

LEMMA WavedIs ==
  ASSUME NEW a, NEW d, Adjusted(a, d), DOMAIN a = SettingFields,
         NEW u, u = UpdateVarInfo(a)
  PROVE  Adjusted(u, d) /\ Waved(u, d) /\ DOMAIN u = SettingFields \cup WaveFields
<1> DEFINE wf_steps == Max({a.region_steps, a.block_steps})
           shifts == IF wf_steps > 0 THEN a.packs * wf_steps - 1 ELSE 0
           angles == [j \in Dims(a) |->
                        IF a.region[j] < a.rank[j] \/ a.left[j] \/ a.right[j]
                          THEN Angle(a, j) ELSE 0]
           pts == [j \in Dims(a) |-> angles[j] * shifts]
           lefts == [j \in Dims(a) |-> IF a.left[j] THEN pts[j] ELSE 0]
           rights == [j \in Dims(a) |-> IF a.right[j] THEN pts[j] ELSE 0]
           g == [wf_steps |-> wf_steps, wf_angles |-> angles, wf_shift_pts |-> pts,
                 left_wf_exts |-> lefts, right_wf_exts |-> rights]
<1>0. Dims(a) = 1 .. d
  BY DimsAre
<1>1. /\ wf_steps \in Nat
      /\ wf_steps > 0 => Len(a.valid) <= wf_steps
      /\ wf_steps = 0 => Len(a.valid) <= 1
  <2>1. a.region_steps \in Int /\ a.block_steps \in Int /\ a.region_steps \in Nat /\ a.block_steps \in Nat
        /\ StrideFits(a) /\ Len(a.valid) \in Nat
    BY DEF Adjusted
  <2>2. wf_steps = IF a.region_steps >= a.block_steps THEN a.region_steps ELSE a.block_steps
    BY <2>1, MaxOfTwo
  <2> HIDE DEF wf_steps
  <2> QED
    BY <2>1, <2>2 DEF StrideFits
<1>2. u = Extend(a, g)
  BY Zenon DEF UpdateVarInfo
<1> HIDE DEF wf_steps
<1>3. shifts \in Nat
  <2>1. a.packs \in Nat \ {0}
    BY DEF Adjusted
  <2>2. CASE wf_steps > 0
    <3>1. a.packs * 0 + a.packs <= a.packs * wf_steps /\ a.packs * wf_steps \in Nat
      BY <1>1, <2>1, <2>2, TimesMonotone
    <3>2. shifts = a.packs * wf_steps - 1
      BY <2>2
    <3> QED
      BY <2>1, <3>1, <3>2
  <2>3. CASE ~(wf_steps > 0)
    BY <2>3
  <2> QED
    BY <2>2, <2>3
<1> HIDE DEF shifts
<1>4. /\ angles \in [1 .. d -> Nat]
      /\ \A j \in 1 .. d : a.region[j] < a.rank[j] \/ a.left[j] \/ a.right[j] =>
                             a.max_halo[j] <= angles[j]
  <2>1. \A j \in 1 .. d : Angle(a, j) \in Nat /\ a.max_halo[j] <= Angle(a, j)
    <3>1. \A j \in 1 .. d : a.max_halo[j] \in Nat
      BY DEF Adjusted
    <3> QED
      BY <3>1, AngleIs
  <2> QED
    BY <1>0, <2>1
<1> HIDE DEF angles
<1>5. pts \in [1 .. d -> Nat] /\ \A j \in 1 .. d : pts[j] = angles[j] * shifts
  BY <1>0, <1>3, <1>4
<1> HIDE DEF pts
<1>6. /\ lefts \in [1 .. d -> Nat] /\ rights \in [1 .. d -> Nat]
      /\ \A j \in 1 .. d : /\ lefts[j] = (IF a.left[j] THEN pts[j] ELSE 0)
                            /\ rights[j] = (IF a.right[j] THEN pts[j] ELSE 0)
  BY <1>0, <1>5
<1> HIDE DEF lefts, rights
<1>7. DOMAIN g = WaveFields /\ DOMAIN a \cap DOMAIN g = {}
  BY DEF WaveFields, SettingFields
<1>8. g.wf_steps = wf_steps /\ g.wf_angles = angles /\ g.wf_shift_pts = pts
      /\ g.left_wf_exts = lefts /\ g.right_wf_exts = rights
  OBVIOUS
<1> HIDE DEF g
<1>9. /\ DOMAIN u = SettingFields \cup WaveFields
      /\ \A x \in DOMAIN a : u[x] = a[x]
      /\ \A x \in WaveFields : u[x] = g[x]
  <2>1. /\ DOMAIN Extend(a, g) = DOMAIN a \cup DOMAIN g
        /\ \A x \in DOMAIN a : Extend(a, g)[x] = a[x]
        /\ \A x \in DOMAIN g : Extend(a, g)[x] = g[x]
    BY <1>7, ExtendIs, Zenon
  <2> QED
    BY <1>2, <1>7, <2>1, Zenon
<1>10. Adjusted(u, d)
  BY <1>9, AdjustedExtends
<1>11. u.wf_steps = wf_steps /\ u.wf_angles = angles /\ u.wf_shift_pts = pts
       /\ u.left_wf_exts = lefts /\ u.right_wf_exts = rights
  BY <1>8, <1>9 DEF WaveFields
<1>12. /\ u.packs = a.packs /\ u.region = a.region /\ u.rank = a.rank /\ u.left = a.left
       /\ u.right = a.right /\ u.max_halo = a.max_halo /\ u.valid = a.valid
  BY <1>9 DEF SettingFields
<1>13. WfShifts(u) = shifts
  BY <1>11, <1>12 DEF WfShifts, shifts
<1>14. \A j \in 1 .. d : Fronted(u, j)
  BY <1>4, <1>5, <1>6, <1>11, <1>12, <1>13 DEF Fronted
<1>15. Waved(u, d)
  BY <1>1, <1>3, <1>4, <1>5, <1>6, <1>11, <1>12, <1>13, <1>14 DEF Waved
<1> QED
  BY <1>9, <1>10, <1>15

LEMMA WavedExtends ==
  ASSUME NEW c, NEW d, Waved(c, d), SettingFields \subseteq DOMAIN c, WaveFields \subseteq DOMAIN c,
         NEW u, \A x \in DOMAIN c : u[x] = c[x]
  PROVE  Waved(u, d)
<1>1. /\ u.wf_steps = c.wf_steps /\ u.wf_angles = c.wf_angles /\ u.wf_shift_pts = c.wf_shift_pts
      /\ u.left_wf_exts = c.left_wf_exts /\ u.right_wf_exts = c.right_wf_exts
  BY DEF WaveFields
<1>2. /\ u.packs = c.packs /\ u.region = c.region /\ u.rank = c.rank /\ u.left = c.left
      /\ u.right = c.right /\ u.max_halo = c.max_halo /\ u.valid = c.valid
  BY DEF SettingFields
<1>3. WfShifts(u) = WfShifts(c)
  BY <1>1, <1>2 DEF WfShifts
<1>4. ASSUME NEW j \in 1 .. d PROVE Fronted(u, j)
  <2>1. Fronted(c, j)
    BY DEF Waved
  <2> QED
    BY <1>1, <1>2, <1>3, <2>1 DEF Fronted
<1> QED
  BY <1>1, <1>2, <1>3, <1>4 DEF Waved

(* Temporal blocks: their steps are cut to what the block has room for.    *)
Shifts(c) == IF c.tb_steps > 0 THEN c.packs * c.tb_steps - 1 ELSE 0

MiniFits(t, j) ==
  t.tb_steps > 0 /\ t.mini_block[j] < t.block[j] => t.max_halo[j] <= t.mb_angles[j]

Tempered(t, d) ==
  /\ t.tb_steps \in Nat /\ t.tb_steps <= t.wf_steps
  /\ t.tb_angles \in [1 .. d -> Nat] /\ t.mb_angles \in [1 .. d -> Nat]
  /\ t.tb_widths \in [1 .. d -> Nat]
  /\ Shifts(t) \in Nat /\ \A j \in 1 .. d : TbFits(t, Shifts(t), j) /\ MiniFits(t, j)

TbFields == {"tb_steps", "tb_angles", "mb_angles", "tb_widths"}

LEMMA ShiftsAre ==
  ASSUME NEW packs \in Nat \ {0}, NEW steps \in Nat, steps > 0
  PROVE  packs * steps - 1 \in Nat
<1>1. packs * 0 + packs <= packs * steps /\ packs * steps \in Nat
  BY TimesMonotone
<1> QED
  BY <1>1

(* A block has room for two slopes of all shifts.                          *)
LEMMA RoomForSlopes ==
  ASSUME NEW blk \in Nat \ {0}, NEW fold \in Nat \ {0}, NEW a \in Nat \ {0},
         NEW packs \in Nat \ {0}, NEW steps \in Nat, blk >= fold,
         steps <= (blk - fold + a * 2) \div (a * 2 * packs)
  PROVE  blk >= 2 * (a * (packs * steps - 1)) + fold
<1> DEFINE k == a * 2 * packs
           room == blk - fold + a * 2
           q == room \div k
<1>1. k \in Nat \ {0} /\ room \in Nat
  BY SMT
<1>2. q \in Nat /\ k * q <= room
  <2> HIDE DEF k, room
  <2>1. q \in Nat /\ (room % k) \in Nat /\ room = (room % k) + k * q /\ k * q \in Nat
    BY <1>1, DivMod
  <2> QED
    BY <1>1, <2>1
<1>3. k * steps <= k * q /\ k * steps \in Nat
  <2>1. CASE steps = q
    BY <1>1, <2>1
  <2>2. CASE steps < q
    <3> HIDE DEF k, q
    <3>1. k * steps + k <= k * q /\ k * steps \in Nat /\ k * q \in Nat
      BY <1>1, <1>2, <2>2, TimesMonotone
    <3> QED
      BY <1>1, <3>1
  <2> QED
    BY <1>2, <2>1, <2>2
<1>4. k * steps = 2 * (a * (packs * steps - 1)) + a * 2
  <2> DEFINE n == packs * steps
  <2>1. k * steps = 2 * (a * n) /\ n \in Nat
    BY SMT
  <2>2. a * (n - 1) = a * n - a /\ a * n \in Nat
    BY <2>1, SMT
  <2> QED
    BY <2>1, <2>2
<1> DEFINE z == a * (packs * steps - 1)
           ks == k * steps
<1>5. z \in Int /\ ks <= room /\ ks = 2 * z + a * 2 /\ ks \in Nat
  <2>1. z \in Int
    BY SMT
  <2> HIDE DEF k, q, room, z
  <2>2. k * q \in Nat
    BY <1>1, <1>2
  <2> QED
    BY <1>1, <1>2, <1>3, <1>4, <2>1, <2>2 DEF z
<1> HIDE DEF z, ks
<1>6. blk >= 2 * z + fold
  BY <1>5
<1> QED
  BY <1>6 DEF z

LEMMA MaxTbStepsIs ==
  ASSUME NEW c, NEW d, Adjusted(c, d), NEW j \in 1 .. d, Angle(c, j) > 0
  PROVE  MaxTbSteps(c, j) \in Nat
<1> DEFINE k == Angle(c, j) * 2 * c.packs
           room == c.block[j] - c.fold[j] + Angle(c, j) * 2
<1>1. /\ Angle(c, j) \in Nat \ {0} /\ c.packs \in Nat \ {0}
      /\ c.block[j] \in Nat /\ c.fold[j] \in Nat /\ c.block[j] >= c.fold[j]
  <2>1. Angle(c, j) \in Nat
    BY AngleIs, SMT
  <2>2. /\ c.packs \in Nat \ {0}
        /\ c.block[j] \in Nat /\ c.fold[j] \in Nat /\ c.block[j] >= c.fold[j]
    BY SMT DEF Adjusted, Sizes
  <2> QED
    BY <2>1, <2>2
<1>2. k \in Nat \ {0} /\ room \in Nat
  BY <1>1, SMT
<1>3. room \div k \in Nat
  <2> HIDE DEF room, k
  <2> QED
    BY <1>2, DivMod
<1> QED
  BY <1>3 DEF MaxTbSteps

LEMMA TbWidthIs ==
  ASSUME NEW blk \in Nat, NEW fold \in Nat \ {0}, NEW sa \in Nat
  PROVE  TbWidth(blk, fold, sa) \in Nat /\ TbWidth(blk, fold, sa) >= fold + 2 * sa
<1> DEFINE x == RoundUp(CeilDiv(blk, 2) + sa, fold)
           y == fold + 2 * sa
<1>1. CeilDiv(blk, 2) + sa \in Nat
  BY DEF CeilDiv
<1>2. x \in Nat
  BY <1>1, RoundUpIs
<1>3. y \in Nat
  OBVIOUS
<1> HIDE DEF x, y
<1>4. Max({x, y}) \in Nat /\ Max({x, y}) >= y
  BY <1>2, <1>3, MaxOfTwo
<1> QED
  BY <1>4 DEF TbWidth, x, y

LEMMA TemperedIs ==
  ASSUME NEW u, NEW d, Adjusted(u, d), Waved(u, d), DOMAIN u = SettingFields \cup WaveFields,
         NEW t, t = UpdateTbInfo(u)
  PROVE  /\ Adjusted(t, d) /\ Waved(t, d) /\ Tempered(t, d)
         /\ DOMAIN t = SettingFields \cup WaveFields \cup TbFields
<1> DEFINE requested == u.block_steps
           angles == [j \in Dims(u) |-> IF requested > 0 /\ u.block[j] < u.region[j]
                                          THEN Angle(u, j) ELSE 0]
           minis == [j \in Dims(u) |-> IF requested > 0 /\ u.mini_block[j] < u.block[j]
                                         THEN Angle(u, j) ELSE 0]
           sloped == {i \in Dims(u) : angles[i] > 0}
           rooms == {MaxTbSteps(u, j) : j \in sloped}
           steps == Min({requested, u.wf_steps} \cup rooms)
           shifts == IF steps > 0 THEN u.packs * steps - 1 ELSE 0
           widths == [j \in Dims(u) |-> IF shifts > 0 /\ angles[j] > 0
                                          THEN TbWidth(u.block[j], u.fold[j], shifts * angles[j])
                                          ELSE u.block[j]]
           g == [tb_steps |-> steps, tb_angles |-> angles, mb_angles |-> minis, tb_widths |-> widths]
<1>0. Dims(u) = 1 .. d /\ d \in Nat
  BY DimsAre DEF Adjusted
<1>1. t = Extend(u, g)
  BY Zenon DEF UpdateTbInfo
<1>2. /\ u.packs \in Nat \ {0} /\ u.block \in Sizes(d) /\ u.region \in Sizes(d)
      /\ u.fold \in Sizes(d) /\ u.max_halo \in [1 .. d -> Nat] /\ requested \in Nat
      /\ u.wf_steps \in Nat /\ \A j \in 1 .. d : u.block[j] >= u.fold[j]
  BY DEF Adjusted, Waved
<1>3. \A j \in 1 .. d : /\ Angle(u, j) \in Nat /\ Angle(u, j) >= u.max_halo[j]
                        /\ u.max_halo[j] = 0 => Angle(u, j) = 0
  BY AngleIs
<1>4. angles \in [1 .. d -> Nat] /\ minis \in [1 .. d -> Nat]
  BY <1>0, <1>3
<1>5. \A j \in sloped : j \in 1 .. d /\ angles[j] = Angle(u, j) /\ Angle(u, j) > 0
  BY <1>0, <1>3
<1>6. \A j \in 1 .. d :
        /\ requested > 0 /\ u.block[j] < u.region[j] => angles[j] = Angle(u, j)
        /\ requested > 0 /\ u.mini_block[j] < u.block[j] => minis[j] = Angle(u, j)
  BY <1>0
<1> HIDE DEF requested, angles, minis
<1>7. rooms \subseteq Nat /\ IsFiniteSet(rooms)
  <2>1. rooms \subseteq Nat
    BY <1>5, MaxTbStepsIs
  <2>2. IsFiniteSet(sloped)
    <3>1. IsFiniteSet(1 .. d) /\ sloped \in SUBSET (1 .. d)
      BY <1>0, FS_Interval
    <3> QED
      BY <3>1, FS_Subset
  <2> DEFINE f == [j \in sloped |-> MaxTbSteps(u, j)]
  <2>3. rooms = {f[j] : j \in sloped} /\ DOMAIN f = sloped
    OBVIOUS
  <2> HIDE DEF rooms, sloped, f
  <2>4. IsFiniteSet({f[j] : j \in sloped})
    BY <2>2, <2>3, FiniteImage
  <2> QED
    BY <2>1, <2>3, <2>4
<1>8. /\ steps \in Nat /\ steps <= u.wf_steps /\ steps <= requested
      /\ \A j \in sloped : steps <= MaxTbSteps(u, j)
  <2> DEFINE S == {requested, u.wf_steps} \cup rooms
  <2>1. IsFiniteSet({requested, u.wf_steps})
    <3>1. IsFiniteSet({requested}) /\ IsFiniteSet({requested} \cup {u.wf_steps})
      BY FS_Singleton, FS_AddElement
    <3>2. {requested} \cup {u.wf_steps} = {requested, u.wf_steps}
      OBVIOUS
    <3> QED
      BY <3>1, <3>2
  <2>2. IsFiniteSet(S)
    <3> HIDE DEF rooms
    <3> QED
      BY <1>7, <2>1, FS_Union
  <2>3. S \subseteq Nat /\ S \subseteq Int /\ S # {} /\ requested \in S /\ u.wf_steps \in S
        /\ \A j \in sloped : MaxTbSteps(u, j) \in S
    BY <1>2, <1>7
  <2>4. steps = Min(S)
    OBVIOUS
  <2> HIDE DEF S, steps
  <2>5. steps \in S /\ \A x \in S : steps <= x
    BY <2>2, <2>3, <2>4, FiniteMin
  <2> QED
    BY <2>3, <2>5
<1> HIDE DEF steps, rooms
<1>9. shifts \in Nat /\ (steps > 0 => shifts = u.packs * steps - 1)
  BY <1>2, <1>8, ShiftsAre
<1>10. \A j \in 1 .. d : angles[j] > 0 /\ steps > 0 =>
          u.block[j] >= 2 * (angles[j] * shifts) + 1
  <2> SUFFICES ASSUME NEW j \in 1 .. d, angles[j] > 0, steps > 0
               PROVE  u.block[j] >= 2 * (angles[j] * shifts) + 1
    OBVIOUS
  <2>1. /\ angles[j] = Angle(u, j) /\ angles[j] \in Nat \ {0}
        /\ steps <= MaxTbSteps(u, j)
        /\ u.block[j] \in Nat \ {0} /\ u.fold[j] \in Nat \ {0} /\ u.block[j] >= u.fold[j]
    <3>2. j \in sloped
      BY <1>0
    <3> HIDE DEF sloped
    <3>1. /\ angles[j] = Angle(u, j) /\ angles[j] \in Nat \ {0}
      BY <1>4, <1>5, <3>2
    <3>3. steps <= MaxTbSteps(u, j)
      BY <1>8, <3>2
    <3>4. /\ u.block[j] \in Nat \ {0} /\ u.fold[j] \in Nat \ {0} /\ u.block[j] >= u.fold[j]
      BY <1>2 DEF Sizes
    <3> QED
      BY <3>1, <3>3, <3>4
  <2>2. u.block[j] >= 2 * (angles[j] * (u.packs * steps - 1)) + u.fold[j]
    BY <1>2, <1>8, <2>1, RoomForSlopes DEF MaxTbSteps
  <2>3. u.block[j] >= 2 * (angles[j] * shifts) + u.fold[j]
    BY <1>9, <2>2
  <2>4. angles[j] * shifts \in Nat
    BY <1>9, <2>1
  <2> QED
    BY <2>1, <2>3, <2>4
<1> HIDE DEF shifts
<1>11. ASSUME NEW j \in 1 .. d
       PROVE  /\ widths[j] \in Nat /\ widths[j] > 0
              /\ shifts > 0 /\ angles[j] > 0 => widths[j] >= 2 * (angles[j] * shifts) + 1
  <2>1. angles[j] \in Nat /\ u.fold[j] \in Nat \ {0} /\ u.block[j] \in Nat \ {0}
    BY <1>2, <1>4 DEF Sizes
  <2> DEFINE sa == shifts * angles[j]
  <2>2. sa \in Nat /\ angles[j] * shifts = sa
    BY <1>9, <2>1
  <2> HIDE DEF sa
  <2>3. TbWidth(u.block[j], u.fold[j], sa) \in Nat
        /\ TbWidth(u.block[j], u.fold[j], sa) >= u.fold[j] + 2 * sa
    BY <2>1, <2>2, TbWidthIs
  <2>4. widths[j] = IF shifts > 0 /\ angles[j] > 0 THEN TbWidth(u.block[j], u.fold[j], sa)
                    ELSE u.block[j]
    BY <1>0 DEF sa
  <2> QED
    BY <2>1, <2>2, <2>3, <2>4
<1>12. widths \in [1 .. d -> Nat]
  BY <1>0, <1>11
<1> HIDE DEF widths
<1>13. /\ DOMAIN g = TbFields /\ DOMAIN u \cap DOMAIN g = {}
       /\ g.tb_steps = steps /\ g.tb_angles = angles /\ g.mb_angles = minis /\ g.tb_widths = widths
  BY DEF TbFields, SettingFields, WaveFields
<1> HIDE DEF g
<1>14. /\ DOMAIN t = SettingFields \cup WaveFields \cup TbFields
       /\ \A x \in DOMAIN u : t[x] = u[x]
       /\ \A x \in TbFields : t[x] = g[x]
  <2>1. /\ DOMAIN Extend(u, g) = DOMAIN u \cup DOMAIN g
        /\ \A x \in DOMAIN u : Extend(u, g)[x] = u[x]
        /\ \A x \in DOMAIN g : Extend(u, g)[x] = g[x]
    BY <1>13, ExtendIs, Zenon
  <2> QED
    BY <1>1, <1>13, <2>1
<1>15. Adjusted(t, d) /\ Waved(t, d)
  BY <1>14, AdjustedExtends, WavedExtends
<1>16. /\ t.tb_steps = steps /\ t.tb_angles = angles /\ t.mb_angles = minis /\ t.tb_widths = widths
  BY <1>13, <1>14 DEF TbFields
<1>17. /\ t.packs = u.packs /\ t.block = u.block /\ t.region = u.region
       /\ t.max_halo = u.max_halo /\ t.wf_steps = u.wf_steps /\ t.mini_block = u.mini_block
  BY <1>14 DEF SettingFields, WaveFields
<1>18. Shifts(t) = shifts
  BY <1>16, <1>17 DEF Shifts, shifts
<1>19. ASSUME NEW j \in 1 .. d PROVE TbFits(t, shifts, j)
  <2>1. /\ t.max_halo[j] \in Nat /\ t.tb_angles[j] \in Nat /\ t.tb_widths[j] \in Nat
        /\ t.block[j] \in Nat \ {0} /\ t.region[j] \in Nat \ {0}
    BY <1>2, <1>4, <1>12, <1>16, <1>17 DEF Sizes
  <2>2. ASSUME steps > 0, u.block[j] < u.region[j]
        PROVE  /\ u.max_halo[j] <= angles[j]
               /\ u.block[j] >= 2 * (angles[j] * shifts) + 1
               /\ shifts > 0 => widths[j] >= 2 * (angles[j] * shifts) + 1
    <3>1. requested > 0
      BY <1>2, <1>8, <2>2
    <3>2. angles[j] = Angle(u, j)
      BY <1>6, <2>2, <3>1
    <3>3. CASE angles[j] > 0
      BY <1>3, <1>10, <1>11, <2>2, <3>2, <3>3
    <3>4. CASE ~(angles[j] > 0)
      <4>1. angles[j] = 0
        BY <1>4, <3>4
      <4>2. angles[j] * shifts = 0
        BY <1>9, <4>1
      <4>3. u.block[j] \in Nat \ {0} /\ widths[j] \in Nat /\ widths[j] > 0
        BY <1>2, <1>11 DEF Sizes
      <4>4. u.max_halo[j] <= 0
        BY <1>3, <3>2, <4>1
      <4>5. 2 * (angles[j] * shifts) + 1 = 1
        BY <4>2
      <4>6. u.block[j] >= 1 /\ widths[j] >= 1
        BY <4>3
      <4> QED
        BY <4>1, <4>4, <4>5, <4>6
    <3> QED
      BY <3>3, <3>4
  <2> QED
    BY <1>16, <1>17, <2>1, <2>2 DEF TbFits
<1>20. ASSUME NEW j \in 1 .. d PROVE MiniFits(t, j)
  <2>1. ASSUME steps > 0, u.mini_block[j] < u.block[j] PROVE u.max_halo[j] <= minis[j]
    <3>1. requested > 0
      BY <1>2, <1>8, <2>1
    <3>2. minis[j] = Angle(u, j)
      BY <1>6, <2>1, <3>1
    <3>3. u.max_halo[j] \in Nat
      BY <1>2
    <3> QED
      BY <1>3, <3>2, <3>3
  <2> QED
    BY <1>16, <1>17, <2>1 DEF MiniFits
<1>21. Tempered(t, d)
  BY <1>4, <1>8, <1>9, <1>12, <1>16, <1>17, <1>18, <1>19, <1>20 DEF Tempered
<1> QED
  BY <1>14, <1>15, <1>21

LEMMA TemperedExtends ==
  ASSUME NEW c, NEW d, Adjusted(c, d), Waved(c, d), Tempered(c, d),
         SettingFields \cup WaveFields \cup TbFields \subseteq DOMAIN c,
         NEW u, \A x \in DOMAIN c : u[x] = c[x]
  PROVE  Tempered(u, d)
<1>1. /\ u.tb_steps = c.tb_steps /\ u.tb_angles = c.tb_angles /\ u.mb_angles = c.mb_angles
      /\ u.tb_widths = c.tb_widths
  BY DEF TbFields
<1>2. /\ u.packs = c.packs /\ u.block = c.block /\ u.region = c.region
      /\ u.max_halo = c.max_halo /\ u.wf_steps = c.wf_steps /\ u.mini_block = c.mini_block
  BY DEF SettingFields, WaveFields
<1>3. Shifts(u) = Shifts(c)
  BY <1>1, <1>2 DEF Shifts
<1>4. ASSUME NEW j \in 1 .. d PROVE TbFits(u, Shifts(u), j)
  <2>1. TbFits(c, Shifts(c), j)
    BY DEF Tempered
  <2> QED
    BY <1>1, <1>2, <1>3, <2>1 DEF TbFits
<1>5. ASSUME NEW j \in 1 .. d PROVE MiniFits(u, j)
  <2>1. MiniFits(c, j)
    BY DEF Tempered
  <2> QED
    BY <1>1, <1>2, <2>1 DEF MiniFits
<1> QED
  BY <1>1, <1>2, <1>3, <1>4, <1>5 DEF Tempered

(* Boxes of the rank.                                                      *)
LEMMA CapIs ==
  ASSUME NEW a \in Spans, NEW b \in Spans
  PROVE  /\ Cap(a, b) \in Spans
         /\ Cap(a, b).lo >= a.lo /\ Cap(a, b).lo >= b.lo
         /\ Cap(a, b).hi <= a.hi /\ Cap(a, b).hi <= b.hi
<1>1. a.lo \in Int /\ a.hi \in Int /\ b.lo \in Int /\ b.hi \in Int
  BY DEF Spans
<1>2. /\ Max({a.lo, b.lo}) = IF a.lo >= b.lo THEN a.lo ELSE b.lo
      /\ Min({a.hi, b.hi}) = IF a.hi <= b.hi THEN a.hi ELSE b.hi
  BY <1>1, MaxOfTwo, MinOfTwo
<1> QED
  BY <1>1, <1>2 DEF Cap, Spans

Within(x, y) == y.lo <= x.lo /\ x.hi <= y.hi

Edges(c, j) ==
  /\ c.ext_bb[j].lo = 0 - c.left_wf_exts[j] /\ c.ext_bb[j].hi = c.rank[j] + c.right_wf_exts[j]
  /\ Within(c.mpi_interior[j], c.ext_bb[j])
  /\ c.mpi_interior[j].lo > c.ext_bb[j].lo => c.left[j]
  /\ c.mpi_interior[j].hi < c.ext_bb[j].hi => c.right[j]
  /\ c.overlap /\ c.left[j] => c.mpi_interior[j].lo >= c.max_halo[j] + c.wf_shift_pts[j]
  /\ c.overlap /\ c.right[j] =>
       c.mpi_interior[j].hi <= c.rank[j] - (c.max_halo[j] + c.wf_shift_pts[j])

Bounded(c, d) ==
  /\ c.ext_bb \in [1 .. d -> Spans] /\ c.mpi_interior \in [1 .. d -> Spans]
  /\ \A j \in 1 .. d : c.ext_bb[j].lo < c.ext_bb[j].hi /\ Edges(c, j)
BoundFields == {"ext_bb", "mpi_interior"}

Sound(c, d) == Adjusted(c, d) /\ Waved(c, d) /\ Tempered(c, d) /\ Bounded(c, d)

LEMMA BoundedIs ==
  ASSUME NEW c, NEW d, Adjusted(c, d), Waved(c, d), Tempered(c, d),
         DOMAIN c = SettingFields \cup WaveFields \cup TbFields,
         NEW t, t = FindBoundingBoxes(c)
  PROVE  /\ Sound(t, d)
         /\ DOMAIN t = SettingFields \cup WaveFields \cup TbFields \cup BoundFields
<1> DEFINE bb == [j \in Dims(c) |-> [lo |-> 0 - c.left_wf_exts[j],
                                    hi |-> c.rank[j] + c.right_wf_exts[j]]]
           limit(j) == [lo |-> IF c.left[j] THEN RoundUp(ExteriorWidth(c, j), c.fold[j]) ELSE bb[j].lo,
                        hi |-> IF c.right[j] THEN RoundDown(c.rank[j] - ExteriorWidth(c, j), c.fold[j])
                                             ELSE bb[j].hi]
           int == IF c.overlap THEN [j \in Dims(c) |-> Cap(bb[j], limit(j))] ELSE bb
           g == [ext_bb |-> bb, mpi_interior |-> int]
<1>0. Dims(c) = 1 .. d
  BY DimsAre
<1>1. t = Extend(c, g)
  BY Zenon DEF FindBoundingBoxes
<1>2. ASSUME NEW j \in 1 .. d
      PROVE  /\ c.left_wf_exts[j] \in Nat /\ c.right_wf_exts[j] \in Nat /\ c.rank[j] \in Nat
             /\ c.fold[j] \in Nat \ {0} /\ c.min_exterior \in Nat /\ c.max_halo[j] \in Nat
             /\ c.wf_shift_pts[j] \in Nat
  BY DEF Adjusted, Waved, Sizes
<1>3. bb \in [1 .. d -> Spans] /\ \A j \in 1 .. d : bb[j].lo < bb[j].hi
  <2>1. ASSUME NEW j \in 1 .. d PROVE c.rank[j] > 0
    <3>1. c.rank \in [1 .. d -> Nat \ {0}]
      BY DEF Adjusted, Sizes
    <3>2. c.rank[j] \in Nat \ {0}
      BY <3>1, Zenon
    <3> QED
      BY <3>2
  <2>2. bb \in [1 .. d -> Spans]
    BY <1>0, <1>2 DEF Spans
  <2>3. ASSUME NEW j \in 1 .. d PROVE bb[j].lo < bb[j].hi
    BY <1>0, <1>2, <2>1
  <2> QED
    BY <2>2, <2>3
<1> HIDE DEF bb
<1>4. ASSUME NEW j \in 1 .. d PROVE limit(j) \in Spans
  <2>1. ExteriorWidth(c, j) \in Nat
    <3>1. c.max_halo[j] + c.wf_shift_pts[j] \in Nat /\ c.min_exterior \in Nat
      BY <1>2
    <3> HIDE DEF limit
    <3>2. \A a, b \in Nat : Max({a, b}) \in Nat
      BY MaxOfTwo
    <3> QED
      BY <3>1, <3>2 DEF ExteriorWidth
  <2> DEFINE w == ExteriorWidth(c, j)
  <2> HIDE DEF w
  <2>2. RoundUp(w, c.fold[j]) \in Int
    BY <1>2, <2>1, RoundUpIs DEF w
  <2>3. RoundDown(c.rank[j] - w, c.fold[j]) \in Int
    <3>1. c.rank[j] - w \in Int /\ c.fold[j] \in Nat \ {0}
      BY <1>2, <2>1 DEF w
    <3>2. \A n \in Int, m \in Nat \ {0} : (n \div m) * m \in Int
      BY SMT
    <3> QED
      BY <3>1, <3>2 DEF RoundDown
  <2>4. bb[j].lo \in Int /\ bb[j].hi \in Int
    BY <1>3 DEF Spans
  <2> QED
    BY <2>2, <2>3, <2>4 DEF Spans, w
<1>5. int \in [1 .. d -> Spans]
  <2> HIDE DEF limit
  <2>1. \A j \in 1 .. d : Cap(bb[j], limit(j)) \in Spans
    BY <1>3, <1>4, CapIs
  <2> QED
    BY <1>0, <1>3, <2>1
<1> HIDE DEF int
<1>6. DOMAIN g = BoundFields /\ DOMAIN c \cap DOMAIN g = {} /\ g.ext_bb = bb /\ g.mpi_interior = int
  BY DEF BoundFields, SettingFields, WaveFields, TbFields
<1> HIDE DEF g
<1>7. /\ DOMAIN t = DOMAIN c \cup BoundFields
      /\ \A x \in DOMAIN c : t[x] = c[x]
      /\ \A x \in BoundFields : t[x] = g[x]
  <2>1. /\ DOMAIN Extend(c, g) = DOMAIN c \cup DOMAIN g
        /\ \A x \in DOMAIN c : Extend(c, g)[x] = c[x]
        /\ \A x \in DOMAIN g : Extend(c, g)[x] = g[x]
    BY <1>6, ExtendIs, Zenon
  <2> QED
    BY <1>1, <1>6, <2>1
<1>8. Adjusted(t, d) /\ Waved(t, d) /\ Tempered(t, d)
  BY <1>7, AdjustedExtends, WavedExtends, TemperedExtends
<1>9. t.ext_bb = bb /\ t.mpi_interior = int
  BY <1>6, <1>7 DEF BoundFields
<1>10. ASSUME NEW j \in 1 .. d PROVE Edges(t, j)
  <2>1. /\ t.left_wf_exts = c.left_wf_exts /\ t.right_wf_exts = c.right_wf_exts /\ t.rank = c.rank
        /\ t.left = c.left /\ t.right = c.right /\ t.overlap = c.overlap
        /\ t.max_halo = c.max_halo /\ t.wf_shift_pts = c.wf_shift_pts
    BY <1>7 DEF SettingFields, WaveFields
  <2>2. bb[j].lo = 0 - c.left_wf_exts[j] /\ bb[j].hi = c.rank[j] + c.right_wf_exts[j]
    BY <1>0 DEF bb
  <2>3. bb[j] \in Spans /\ bb[j].lo \in Int /\ bb[j].hi \in Int
    BY <1>3 DEF Spans
  <2>4. limit(j) \in Spans
    BY <1>4
  <2> DEFINE w == c.max_halo[j] + c.wf_shift_pts[j]
  <2>5. /\ ~c.left[j] => limit(j).lo = bb[j].lo
        /\ ~c.right[j] => limit(j).hi = bb[j].hi
    OBVIOUS
  <2>6. /\ c.left[j] => limit(j).lo >= w
        /\ c.right[j] => limit(j).hi <= c.rank[j] - w
    <3> DEFINE e == ExteriorWidth(c, j)
    <3>1. limit(j).lo = (IF c.left[j] THEN RoundUp(e, c.fold[j]) ELSE bb[j].lo)
          /\ limit(j).hi = (IF c.right[j] THEN RoundDown(c.rank[j] - e, c.fold[j]) ELSE bb[j].hi)
      OBVIOUS
    <3> HIDE DEF limit
    <3>2. e = (IF c.min_exterior >= w THEN c.min_exterior ELSE w) /\ w \in Nat
      <4>1. w \in Nat /\ c.min_exterior \in Nat
        BY <1>2
      <4> HIDE DEF w
      <4>2. Max({c.min_exterior, w}) = IF c.min_exterior >= w THEN c.min_exterior ELSE w
        BY <4>1, MaxOfTwo
      <4> QED
        BY <4>1, <4>2 DEF ExteriorWidth, w
    <3> HIDE DEF e, w
    <3>3. e \in Nat /\ e >= w
      BY <1>2, <3>2
    <3>4. RoundUp(e, c.fold[j]) >= e /\ RoundUp(e, c.fold[j]) \in Nat
      BY <1>2, <3>3, RoundUpIs
    <3>5. RoundDown(c.rank[j] - e, c.fold[j]) <= c.rank[j] - e
          /\ RoundDown(c.rank[j] - e, c.fold[j]) \in Int
      <4>1. \A n \in Int, m \in Nat \ {0} : (n \div m) * m <= n /\ (n \div m) * m \in Int
        BY SMT
      <4>2. c.rank[j] - e \in Int
        BY <1>2, <3>3
      <4> QED
        BY <1>2, <4>1, <4>2 DEF RoundDown
    <3> QED
      BY <1>2, <3>1, <3>2, <3>3, <3>4, <3>5
  <2>7. int[j] = IF c.overlap THEN Cap(bb[j], limit(j)) ELSE bb[j]
    <3> HIDE DEF limit
    <3> QED
      BY <1>0, <1>3 DEF int
  <2> HIDE DEF limit
  <2>8. /\ Cap(bb[j], limit(j)).lo = IF bb[j].lo >= limit(j).lo THEN bb[j].lo ELSE limit(j).lo
        /\ Cap(bb[j], limit(j)).hi = IF bb[j].hi <= limit(j).hi THEN bb[j].hi ELSE limit(j).hi
    <3>1. limit(j).lo \in Int /\ limit(j).hi \in Int
      BY <2>4 DEF Spans
    <3>2. /\ Max({bb[j].lo, limit(j).lo}) = IF bb[j].lo >= limit(j).lo THEN bb[j].lo ELSE limit(j).lo
          /\ Min({bb[j].hi, limit(j).hi}) = IF bb[j].hi <= limit(j).hi THEN bb[j].hi ELSE limit(j).hi
      BY <2>3, <3>1, MaxOfTwo, MinOfTwo
    <3> QED
      BY <3>2 DEF Cap
  <2>9. c.overlap \in BOOLEAN /\ w \in Nat
    <3>1. c.max_halo[j] + c.wf_shift_pts[j] \in Nat
      BY <1>2
    <3>2. c.overlap \in BOOLEAN
      BY DEF Adjusted
    <3> QED
      BY <3>1, <3>2
  <2>10. limit(j).lo \in Int /\ limit(j).hi \in Int
    BY <2>4 DEF Spans
  <2>11. c.rank[j] \in Nat
    BY <1>2
  <2> DEFINE lo == IF c.overlap THEN Cap(bb[j], limit(j)).lo ELSE bb[j].lo
             hi == IF c.overlap THEN Cap(bb[j], limit(j)).hi ELSE bb[j].hi
  <2>12. int[j].lo = lo /\ int[j].hi = hi
    BY <2>7
  <2> HIDE DEF w
  <2>14. Within(int[j], bb[j])
    <3>1. bb[j].lo <= lo /\ hi <= bb[j].hi
      BY <2>3, <2>8, <2>9, <2>10
    <3> HIDE DEF lo, hi
    <3> QED
      BY <2>12, <3>1 DEF Within
  <2>13. /\ lo > bb[j].lo => c.left[j]
         /\ hi < bb[j].hi => c.right[j]
         /\ c.overlap /\ c.left[j] => lo >= w
         /\ c.overlap /\ c.right[j] => hi <= c.rank[j] - w
    BY <2>3, <2>5, <2>6, <2>8, <2>9, <2>10, <2>11
  <2> HIDE DEF lo, hi
  <2> QED
    BY <1>9, <2>1, <2>2, <2>12, <2>13, <2>14 DEF Edges, w
<1> QED
  BY <1>3, <1>5, <1>7, <1>8, <1>9, <1>10 DEF Sound, Bounded

LEMMA PreparedIs ==
  ASSUME NEW d, NEW s, GoodSettings(s, d)
  PROVE  /\ Sound(PrepareSolution(s), d)
         /\ DOMAIN PrepareSolution(s) = SettingFields \cup WaveFields \cup TbFields \cup BoundFields
<1> DEFINE a == AdjustSettings(s)
           u == UpdateVarInfo(a)
           t == UpdateTbInfo(u)
           c == FindBoundingBoxes(t)
<1>1. Adjusted(a, d) /\ DOMAIN a = SettingFields
  BY AdjustedIs
<1> HIDE DEF a
<1>2. Adjusted(u, d) /\ Waved(u, d) /\ DOMAIN u = SettingFields \cup WaveFields
  BY <1>1, WavedIs
<1> HIDE DEF u
<1>3. /\ Adjusted(t, d) /\ Waved(t, d) /\ Tempered(t, d)
      /\ DOMAIN t = SettingFields \cup WaveFields \cup TbFields
  BY <1>2, TemperedIs
<1> HIDE DEF t
<1>4. /\ Sound(c, d)
      /\ DOMAIN c = SettingFields \cup WaveFields \cup TbFields \cup BoundFields
  BY <1>3, BoundedIs
<1>5. c = PrepareSolution(s)
  BY Zenon DEF PrepareSolution, c, t, u, a
<1> HIDE DEF c
<1> QED
  BY <1>4, <1>5

(* The context, with what every point reads.                               *)
LEMMA ContextIs ==
  ASSUME NEW d, NEW s, GoodSettings(s, d)
  PROVE  Sound(Context(s), d)
<1> DEFINE c == PrepareSolution(s)
<1>4. /\ Sound(c, d)
      /\ DOMAIN c = SettingFields \cup WaveFields \cup TbFields \cup BoundFields
  BY PreparedIs
<1>5. c = PrepareSolution(s)
  OBVIOUS
<1> HIDE DEF c
<1> DEFINE g == [reads |-> Reads(c)]
           x == Extend(c, g)
<1>6. Context(s) = x
  BY <1>5, Zenon DEF Context
<1>7. DOMAIN g = {"reads"} /\ DOMAIN c \cap DOMAIN g = {}
  BY <1>4 DEF SettingFields, WaveFields, TbFields, BoundFields
<1>8. \A f \in DOMAIN c : x[f] = c[f]
  BY <1>7, ExtendIs
<1> HIDE DEF x
<1>9. Adjusted(x, d) /\ Waved(x, d) /\ Tempered(x, d)
  BY <1>4, <1>8, AdjustedExtends, WavedExtends, TemperedExtends DEF Sound
<1>10. x.ext_bb = c.ext_bb /\ x.mpi_interior = c.mpi_interior
  BY <1>4, <1>8 DEF BoundFields
<1>11. ASSUME NEW j \in 1 .. d PROVE Edges(x, j)
  <2>1. Edges(c, j)
    BY <1>4 DEF Sound, Bounded
  <2>2. /\ x.left_wf_exts = c.left_wf_exts /\ x.right_wf_exts = c.right_wf_exts /\ x.rank = c.rank
        /\ x.left = c.left /\ x.right = c.right /\ x.overlap = c.overlap
        /\ x.max_halo = c.max_halo /\ x.wf_shift_pts = c.wf_shift_pts
    BY <1>4, <1>8 DEF SettingFields, WaveFields
  <2> QED
    BY <1>10, <2>1, <2>2 DEF Edges
<1>12. Bounded(x, d)
  BY <1>4, <1>10, <1>11 DEF Sound, Bounded
<1> QED
  BY <1>6, <1>9, <1>12 DEF Sound

-----------------------------------------------------------------------------
(* Regions, their shifts and their layers.                                 *)
LEMMA ShiftedIs ==
  ASSUME NEW c, NEW d, Sound(c, d), NEW rgn \in [1 .. d -> Spans], NEW n \in Int
  PROVE  /\ Shifted(c, rgn, n) \in [1 .. d -> Spans]
         /\ \A j \in 1 .. d : /\ Shifted(c, rgn, n)[j].lo = rgn[j].lo - c.wf_angles[j] * n
                              /\ Shifted(c, rgn, n)[j].hi = rgn[j].hi - c.wf_angles[j] * n
<1>1. Dims(c) = 1 .. d
  BY DimsAre DEF Sound
<1>2. ASSUME NEW j \in 1 .. d
      PROVE  /\ rgn[j].lo - c.wf_angles[j] * n \in Int
             /\ rgn[j].hi - c.wf_angles[j] * n \in Int
  <2>1. rgn[j].lo \in Int /\ rgn[j].hi \in Int /\ c.wf_angles[j] \in Nat
    BY DEF Sound, Waved, Spans
  <2>2. c.wf_angles[j] * n \in Int
    BY <2>1
  <2> QED
    BY <2>1, <2>2
<1> QED
  BY <1>1, <1>2 DEF Shifted, Spans

LEMMA TrimToRankIs ==
  ASSUME NEW c, NEW d, Sound(c, d), NEW box \in [1 .. d -> Spans], NEW n \in Int
  PROVE  /\ TrimToRank(c, n, box) \in [1 .. d -> Spans]
         /\ \A j \in 1 .. d : TrimToRank(c, n, box)[j].hi <= box[j].hi
<1>1. Dims(c) = 1 .. d
  BY DimsAre DEF Sound
<1> DEFINE s(j) == Cap(box[j], c.ext_bb[j])
           slope(j) == c.wf_angles[j] * n
           lo(j) == IF s(j).lo < 0 /\ c.left_wf_exts[j] > 0
                      THEN Max({s(j).lo, slope(j) - c.left_wf_exts[j]}) ELSE s(j).lo
           hi(j) == IF s(j).hi > c.rank[j] /\ c.right_wf_exts[j] > 0
                      THEN Min({s(j).hi, c.rank[j] + c.right_wf_exts[j] - slope(j)}) ELSE s(j).hi
<1>2. ASSUME NEW j \in 1 .. d PROVE lo(j) \in Int /\ hi(j) \in Int /\ hi(j) <= box[j].hi
  <2>1. /\ c.left_wf_exts[j] \in Nat /\ c.right_wf_exts[j] \in Nat /\ c.rank[j] \in Nat
        /\ c.wf_angles[j] \in Nat /\ box[j] \in Spans /\ c.ext_bb[j] \in Spans
    BY DEF Sound, Adjusted, Waved, Bounded, Sizes
  <2>2. s(j) \in Spans /\ s(j).hi <= box[j].hi
    BY <2>1, CapIs
  <2>3. slope(j) \in Int
    BY <2>1
  <2> HIDE DEF s, slope
  <2>4. s(j).lo \in Int /\ s(j).hi \in Int /\ box[j].hi \in Int
    BY <2>1, <2>2 DEF Spans
  <2>5. /\ slope(j) - c.left_wf_exts[j] \in Int
        /\ c.rank[j] + c.right_wf_exts[j] - slope(j) \in Int
    <3> DEFINE L == c.left_wf_exts[j]
               R == c.right_wf_exts[j]
               N == c.rank[j]
    <3>1. L \in Nat /\ R \in Nat /\ N \in Nat
      BY <2>1
    <3> HIDE DEF L, R, N
    <3>2. slope(j) - L \in Int /\ N + R - slope(j) \in Int
      BY <2>3, <3>1
    <3> QED
      BY <3>2 DEF L, R, N
  <2>6. Max({s(j).lo, slope(j) - c.left_wf_exts[j]}) \in Int
    BY <2>4, <2>5, MaxOfTwo
  <2>7. /\ Min({s(j).hi, c.rank[j] + c.right_wf_exts[j] - slope(j)}) \in Int
        /\ Min({s(j).hi, c.rank[j] + c.right_wf_exts[j] - slope(j)}) <= s(j).hi
    BY <2>4, <2>5, MinOfTwo
  <2> QED
    BY <2>2, <2>4, <2>6, <2>7
<1>3. TrimToRank(c, n, box) = [j \in Dims(c) |-> [lo |-> lo(j), hi |-> hi(j)]]
  BY Zenon DEF TrimToRank
<1> HIDE DEF lo, hi, s, slope
<1> QED
  BY <1>1, <1>2, <1>3 DEF Spans

LEMMA TrimToSectionIs ==
  ASSUME NEW c, NEW d, Sound(c, d), NEW box \in [1 .. d -> Spans], NEW n \in Int, NEW sec
  PROVE  /\ TrimToSection(c, n, sec, box) \in [1 .. d -> Spans]
         /\ \A j \in 1 .. d : TrimToSection(c, n, sec, box)[j].hi <= box[j].hi
<1>1. Dims(c) = 1 .. d
  BY DimsAre DEF Sound
<1> DEFINE trim(j) ==
             LET s == box[j]
                 int == InteriorSpan(c, n, j)
             IN CASE sec.part = "whole" -> s
                  [] sec.part = "interior" \/ j < sec.dim -> Cap(s, int)
                  [] sec.part = "left" /\ j = sec.dim -> [s EXCEPT !.hi = Min({@, int.lo})]
                  [] sec.part = "right" /\ j = sec.dim -> [s EXCEPT !.lo = Max({@, int.hi, int.lo})]
                  [] OTHER -> s
<1>2. ASSUME NEW j \in 1 .. d PROVE trim(j) \in Spans /\ trim(j).hi <= box[j].hi
  <2> DEFINE s == box[j]
             int == InteriorSpan(c, n, j)
             left == [s EXCEPT !.hi = Min({@, int.lo})]
             right == [s EXCEPT !.lo = Max({@, int.hi, int.lo})]
  <2>1. int \in Spans
    <3>1. /\ c.wf_shift_pts[j] \in Nat /\ c.wf_angles[j] \in Nat
          /\ c.mpi_interior[j].lo \in Int /\ c.mpi_interior[j].hi \in Int
      BY DEF Sound, Waved, Bounded, Spans
    <3>2. c.wf_angles[j] * n \in Int
      BY <3>1
    <3>3. c.wf_shift_pts[j] - c.wf_angles[j] * n \in Int
      BY <3>1, <3>2
    <3> DEFINE widen == IF c.wf_steps > 0 THEN c.wf_shift_pts[j] - c.wf_angles[j] * n ELSE 0
               below == IF DoesExteriorExist(c, j, TRUE) THEN widen ELSE 0
               above == IF DoesExteriorExist(c, j, FALSE) THEN widen ELSE 0
    <3>4. widen \in Int
      BY <3>3
    <3> HIDE DEF widen
    <3>5. below \in Int /\ above \in Int
      BY <3>4
    <3>6. int = [lo |-> c.mpi_interior[j].lo + below, hi |-> c.mpi_interior[j].hi - above]
      BY Zenon DEF InteriorSpan, widen
    <3> HIDE DEF below, above, int
    <3>7. c.mpi_interior[j].lo + below \in Int /\ c.mpi_interior[j].hi - above \in Int
      BY <3>1, <3>5, SMT
    <3>8. \A x, y \in Int : [lo |-> x, hi |-> y] \in Spans
      BY DEF Spans
    <3> QED
      BY <3>6, <3>7, <3>8
  <2> HIDE DEF int
  <2>2. s \in Spans /\ s.lo \in Int /\ s.hi \in Int /\ int.lo \in Int /\ int.hi \in Int
    BY <2>1 DEF Spans
  <2> HIDE DEF s
  <2>3. Cap(s, int) \in Spans /\ Cap(s, int).hi <= s.hi
    BY <2>1, <2>2, CapIs
  <2>4. left \in Spans /\ left.hi <= s.hi
    <3>1. Min({s.hi, int.lo}) \in Int /\ Min({s.hi, int.lo}) <= s.hi
      BY <2>2, MinOfTwo
    <3> QED
      BY <2>2, <3>1 DEF Spans
  <2>5. right \in Spans /\ right.hi <= s.hi
    <3> DEFINE most == Max({s.lo, int.hi, int.lo})
    <3>0. most \in {s.lo, int.hi, int.lo}
      BY <2>2, MaxOfThree
    <3> HIDE DEF most
    <3>1. most \in Int
      BY <2>2, <3>0
    <3> USE DEF most
    <3> QED
      BY <2>2, <3>1 DEF Spans
  <2>6. trim(j) \in {s, Cap(s, int), left, right}
    BY Zenon DEF s, int
  <2> HIDE DEF trim, left, right
  <2>7. s.hi <= s.hi
    BY <2>2
  <2>8. s = box[j]
    BY DEF s
  <2> QED
    BY <2>2, <2>3, <2>4, <2>5, <2>6, <2>7, <2>8
<1>3. TrimToSection(c, n, sec, box) = [j \in Dims(c) |-> trim(j)]
  BY Zenon DEF TrimToSection
<1> HIDE DEF trim
<1> QED
  BY <1>1, <1>2, <1>3

(* A region is never wider on the right than what its shift leaves of it.  *)
LEMMA ShiftRegionIs ==
  ASSUME NEW c, NEW d, Sound(c, d), NEW rgn \in [1 .. d -> Spans], NEW n \in Int, NEW sec
  PROVE  /\ ShiftRegion(c, sec, rgn, n) \in [1 .. d -> Spans]
         /\ \A j \in 1 .. d :
              ShiftRegion(c, sec, rgn, n)[j].hi <= rgn[j].hi - c.wf_angles[j] * n
<1> DEFINE a == Shifted(c, rgn, n)
           b == TrimToRank(c, n, a)
           r == TrimToSection(c, n, sec, b)
<1>0. \A x \in [1 .. d -> Spans] :
        /\ TrimToSection(c, n, sec, x) \in [1 .. d -> Spans]
        /\ \A j \in 1 .. d : TrimToSection(c, n, sec, x)[j].hi <= x[j].hi
  BY TrimToSectionIs
<1>1. a \in [1 .. d -> Spans] /\ \A j \in 1 .. d : a[j].hi = rgn[j].hi - c.wf_angles[j] * n
  <2>1. a \in [1 .. d -> Spans]
    BY ShiftedIs, SMT
  <2>2. ASSUME NEW j \in 1 .. d PROVE a[j].hi = rgn[j].hi - c.wf_angles[j] * n
    BY DimsAre DEF Shifted, Sound
  <2> QED
    BY <2>1, <2>2, Zenon
<1> HIDE DEF a
<1>2. b \in [1 .. d -> Spans] /\ \A j \in 1 .. d : b[j].hi <= a[j].hi
  BY <1>1, TrimToRankIs
<1> HIDE DEF b
<1>3. r \in [1 .. d -> Spans] /\ \A j \in 1 .. d : r[j].hi <= b[j].hi
  BY <1>0, <1>2
<1>4. ShiftRegion(c, sec, rgn, n) = r
  BY Zenon DEF ShiftRegion, r, b, a
<1> HIDE DEF r
<1>5. \A j \in 1 .. d : a[j].hi \in Int /\ b[j].hi \in Int /\ r[j].hi \in Int
  BY <1>1, <1>2, <1>3 DEF Spans
<1>6. ASSUME NEW j \in 1 .. d PROVE r[j].hi <= a[j].hi
  BY <1>2, <1>3, <1>5
<1> QED
  BY <1>1, <1>3, <1>4, <1>6

LEMMA StrideInIs ==
  ASSUME NEW box, NEW size, NEW outer, NEW j \in DOMAIN box,
         box[j] \in Spans, size[j] \in Nat \ {0}
  PROVE  StrideIn(box, size, outer)[j] \in Nat \ {0}
<1> DEFINE w == box[j].hi - box[j].lo
<1>1. w \in Int
  BY DEF Spans
<1> HIDE DEF w
<1>2. Max({1, w}) \in Nat \ {0}
  BY <1>1, MaxOfTwo
<1>3. StrideIn(box, size, outer)[j] = IF size[j] >= outer[j] THEN Max({1, w}) ELSE size[j]
  BY Zenon DEF StrideIn, w
<1> QED
  BY <1>2, <1>3

(* The scan of a box by its strides lists the tiles.                       *)
LEMMA InOrderIs ==
  ASSUME NEW d \in Nat, NEW box, NEW stride, DOMAIN box = 1 .. d,
         \A j \in 1 .. d : box[j] \in Spans /\ stride[j] \in Nat \ {0}
  PROVE  /\ Cardinality(Tiles(box, stride)) \in Nat
         /\ InOrder(Tiles(box, stride))
              \in [1 .. Cardinality(Tiles(box, stride)) -> Tiles(box, stride)]
<1> DEFINE T == Tiles(box, stride)
           before == {tu \in T \X T : TileBefore(tu[1], tu[2])}
<1>1. IsFiniteSet(T)
  <2>1. IsFiniteSet(DOMAIN box)
    BY FS_Interval
  <2> QED
    BY <2>1, FiniteTiles
<1>2. StrictOrder(T, before)
  BY TilesInOrder
<1>3. InOrder(T) = Listed(T, before)
  BY Zenon DEF InOrder
<1> HIDE DEF T, before
<1>4. Cardinality(T) \in Nat /\ Listed(T, before) \in [1 .. Cardinality(T) -> T]
  BY <1>1, <1>2, ListedIs
<1> QED
  BY <1>3, <1>4 DEF T

LEMMA TileSpans ==
  ASSUME NEW d \in Nat, NEW box, NEW stride, DOMAIN box = 1 .. d,
         \A j \in 1 .. d : box[j] \in Spans /\ stride[j] \in Nat \ {0},
         NEW t \in Tiles(box, stride)
  PROVE  t \in [1 .. d -> Spans] /\ \A j \in 1 .. d : TileOf(t[j], box[j], stride[j])
<1>1. \A j \in 1 .. d : TileOf(t[j], box[j], stride[j])
  BY TilesAre
<1>2. t = [j \in 1 .. d |-> t[j]]
  BY TileIsFunction
<1> QED
  BY <1>1, <1>2 DEF TileOf

(* What the rank loop scans, and its regions.                              *)
ScanBox(c) ==
  [j \in Dims(c) |->
     [c.ext_bb[j] EXCEPT !.hi =
        @ + IF c.wf_steps > 0 /\ c.right_wf_exts[j] = 0 THEN c.wf_shift_pts[j] ELSE 0]]

LEMMA ScanBoxIs ==
  ASSUME NEW c, NEW d, Sound(c, d)
  PROVE  /\ DOMAIN ScanBox(c) = 1 .. d
         /\ \A j \in 1 .. d : /\ ScanBox(c)[j] \in Spans
                              /\ StrideIn(ScanBox(c), c.region, c.rank)[j] \in Nat \ {0}
<1>1. DOMAIN ScanBox(c) = 1 .. d /\ Dims(c) = 1 .. d
  BY DimsAre DEF Sound, ScanBox
<1>2. ASSUME NEW j \in 1 .. d PROVE ScanBox(c)[j] \in Spans
  <2> DEFINE more == IF c.wf_steps > 0 /\ c.right_wf_exts[j] = 0 THEN c.wf_shift_pts[j] ELSE 0
  <2>1. more \in Int /\ c.ext_bb[j] \in Spans
    <3>1. c.wf_shift_pts[j] \in Nat /\ c.ext_bb[j] \in Spans
      BY DEF Sound, Waved, Bounded
    <3> QED
      BY <3>1
  <2>2. ScanBox(c)[j] = [c.ext_bb[j] EXCEPT !.hi = @ + more]
    BY <1>1 DEF ScanBox
  <2> HIDE DEF more
  <2> QED
    BY <2>1, <2>2 DEF Spans
<1>3. ASSUME NEW j \in 1 .. d PROVE StrideIn(ScanBox(c), c.region, c.rank)[j] \in Nat \ {0}
  <2>1. c.region[j] \in Nat \ {0}
    BY DEF Sound, Adjusted, Sizes
  <2>2. j \in DOMAIN ScanBox(c) /\ ScanBox(c)[j] \in Spans
    BY <1>1, <1>2
  <2> DEFINE box == ScanBox(c)
             size == c.region
             outer == c.rank
  <2>3. size[j] \in Nat \ {0} /\ j \in DOMAIN box /\ box[j] \in Spans
    BY <2>1, <2>2
  <2> HIDE DEF box, size, outer
  <2>4. StrideIn(box, size, outer)[j] \in Nat \ {0}
    BY <2>3, StrideInIs
  <2> QED
    BY <2>4 DEF box, size, outer
<1> QED
  BY <1>1, <1>2, <1>3

LEMMA RegionsAre ==
  ASSUME NEW c, NEW d, Sound(c, d)
  PROVE  LET tiles == Tiles(ScanBox(c), StrideIn(ScanBox(c), c.region, c.rank))
         IN /\ Cardinality(tiles) \in Nat
            /\ Regions(c) \in [1 .. Cardinality(tiles) -> tiles]
            /\ DOMAIN Regions(c) = 1 .. Len(Regions(c))
            /\ \A r \in DOMAIN Regions(c) : Regions(c)[r] \in [1 .. d -> Spans]
<1> DEFINE box == ScanBox(c)
           stride == StrideIn(box, c.region, c.rank)
           tiles == Tiles(box, stride)
<1>0. d \in Nat
  BY DEF Sound, Adjusted
<1>1. DOMAIN box = 1 .. d /\ \A j \in 1 .. d : box[j] \in Spans /\ stride[j] \in Nat \ {0}
  BY ScanBoxIs
<1>2. Regions(c) = InOrder(tiles)
  BY Zenon DEF Regions, ScanBox
<1> HIDE DEF box, stride
<1>3. Cardinality(tiles) \in Nat /\ Regions(c) \in [1 .. Cardinality(tiles) -> tiles]
  BY <1>0, <1>1, <1>2, InOrderIs
<1>4. \A t \in tiles : t \in [1 .. d -> Spans]
  BY <1>0, <1>1, TileSpans
<1> HIDE DEF tiles
<1>5. DOMAIN Regions(c) = 1 .. Len(Regions(c))
  BY <1>3
<1>6. \A r \in DOMAIN Regions(c) : Regions(c)[r] \in [1 .. d -> Spans]
  BY <1>3, <1>4
<1> QED
  BY <1>3, <1>5, <1>6 DEF tiles, stride, box

(* A layer has at most the packs of tb_steps steps.                        *)
ChunkOf(c, i) == SubSeq(c.valid, (i-1) * c.tb_steps + 1, Min({i * c.tb_steps, Len(c.valid)}))

LEMMA ChunkIs ==
  ASSUME NEW c, NEW d, Sound(c, d), c.tb_steps > 0, NEW i \in Nat \ {0}
  PROVE  TupleSum(ChunkOf(c, i)) \in Nat /\ TupleSum(ChunkOf(c, i)) <= c.packs * c.tb_steps
<1> DEFINE tb == c.tb_steps
           T == Len(c.valid)
           m == (i - 1) * tb + 1
           n == Min({i * tb, T})
<1>1. tb \in Nat \ {0} /\ c.valid \in Seq(Nat) /\ T \in Nat /\ c.packs \in Nat \ {0}
      /\ \A k \in 1 .. T : c.valid[k] <= c.packs
  BY DEF Sound, Adjusted, Tempered
<1> HIDE DEF tb
<1>2. i * tb \in Nat /\ (i - 1) * tb \in Nat /\ i * tb = (i - 1) * tb + tb
  BY <1>1
<1> HIDE DEF T
<1>3. m \in Nat \ {0} /\ n \in Nat /\ n <= T /\ n <= m + tb - 1
  BY <1>1, <1>2, MinOfTwo
<1>4. ChunkOf(c, i) = SubSeq(c.valid, m, n)
  BY Zenon DEF ChunkOf, tb, T
<1> HIDE DEF m, n
<1> DEFINE s == SubSeq(c.valid, m, n)
<1>5. s \in Seq(Nat) /\ Len(s) <= tb /\ \A k \in 1 .. Len(s) : s[k] <= c.packs
  <2>1. s = [k \in 1 .. (1 + n - m) |-> c.valid[k + m - 1]]
    BY <1>1, <1>3
  <2>2. ASSUME NEW k \in 1 .. (1 + n - m)
        PROVE  c.valid[k + m - 1] \in Nat /\ c.valid[k + m - 1] <= c.packs
    <3>1. k + m - 1 \in 1 .. T
      BY <1>1, <1>3
    <3> QED
      BY <1>1, <3>1 DEF T
  <2>3. CASE 1 + n - m >= 0
    <3> DEFINE w == 1 + n - m
    <3>1. w \in Nat /\ w <= tb
      BY <1>1, <1>3, <2>3
    <3>2. s = [k \in 1 .. w |-> c.valid[k + m - 1]]
      BY <2>1
    <3> HIDE DEF s
    <3>3. \A k \in 1 .. w : s[k] \in Nat /\ s[k] <= c.packs
      BY <2>2, <3>2
    <3> HIDE DEF w
    <3>4. DOMAIN s = 1 .. w /\ s = [k \in 1 .. w |-> s[k]]
      BY <3>2
    <3>5. s \in [1 .. w -> Nat]
      BY <3>3, <3>4
    <3>6. s \in Seq(Nat) /\ Len(s) = w
      BY <3>1, <3>5
    <3> QED
      BY <3>1, <3>3, <3>6
  <2>4. CASE ~(1 + n - m >= 0)
    <3>1. 1 .. (1 + n - m) = {}
      BY <1>3, <2>4
    <3>2. s = << >>
      BY <2>1, <3>1
    <3> HIDE DEF s
    <3> QED
      BY <1>1, <3>2
  <2> QED
    BY <2>3, <2>4
<1> HIDE DEF s
<1>6. TupleSum(s) \in Nat /\ TupleSum(s) <= c.packs * Len(s)
  BY <1>1, <1>5, SumBound
<1>7. c.packs * Len(s) <= c.packs * tb
  <2> DEFINE k == Len(s)
             p == c.packs
  <2>1. k \in Nat /\ p \in Nat /\ tb \in Nat /\ k <= tb
    BY <1>1, <1>5
  <2> HIDE DEF k, p
  <2>4. p * k <= p * tb
    <3>1. k = tb => p * k <= p * tb
      BY <2>1
    <3>2. k < tb => p * k \in Nat /\ p * tb \in Nat /\ p * k + p <= p * tb
      BY <2>1, TimesMonotone
    <3>3. k < tb => p * k <= p * tb
      BY <2>1, <3>2
    <3> QED
      BY <2>1, <3>1, <3>3
  <2> QED
    BY <2>4 DEF k, p
<1>8. Len(s) \in Nat /\ c.packs * Len(s) \in Nat /\ c.packs * tb \in Nat
  BY <1>1, <1>5
<1>9. TupleSum(s) <= c.packs * tb
  BY <1>6, <1>7, <1>8
<1> QED
  BY <1>4, <1>6, <1>9 DEF tb, s

LEMMA LayersAre ==
  ASSUME NEW c, NEW d, Sound(c, d)
  PROVE  /\ Layers(c) \in Seq(Nat)
         /\ \A l \in 1 .. Len(Layers(c)) :
              /\ c.tb_steps > 0 => Layers(c)[l] <= c.packs * c.tb_steps
              /\ c.tb_steps = 0 => Layers(c)[l] = 1
<1> DEFINE T == Len(c.valid)
           N == TupleSum(c.valid)
           K == CeilDiv(T, c.tb_steps)
<1>1. c.valid \in Seq(Nat) /\ T \in Nat /\ c.tb_steps \in Nat /\ c.wf_steps \in Nat
      /\ c.tb_steps <= c.wf_steps /\ c.packs \in Nat /\ \A i \in 1 .. T : c.valid[i] <= c.packs
  BY DEF Sound, Adjusted, Waved, Tempered
<1> DEFINE ones == [i \in 1 .. N |-> 1]
           chunks == [i \in 1 .. K |-> TupleSum(ChunkOf(c, i))]
<1>2. Layers(c) = CASE c.wf_steps = 0 -> <<1>>
                    [] c.wf_steps > 0 /\ c.tb_steps = 0 -> ones
                    [] OTHER -> chunks
  BY Zenon DEF Layers, ChunkOf
<1>3. N \in Nat
  BY <1>1, SumBound
<1> HIDE DEF N
<1>4. CASE c.wf_steps = 0
  <2>1. Layers(c) = <<1>> /\ c.tb_steps = 0
    BY <1>1, <1>2, <1>4
  <2>2. <<1>> \in Seq(Nat) /\ Len(<<1>>) = 1 /\ \A l \in 1 .. 1 : <<1>>[l] = 1
    OBVIOUS
  <2> QED
    BY <2>1, <2>2
<1>5. CASE c.wf_steps > 0 /\ c.tb_steps = 0
  <2>1. Layers(c) = ones
    <3>1. c.wf_steps # 0
      BY <1>5, <1>1
    <3> HIDE DEF ones, chunks
    <3> QED
      BY <1>2, <1>5, <3>1
  <2>2. ones \in Seq(Nat) /\ Len(ones) = N /\ \A l \in 1 .. N : ones[l] = 1
    BY <1>3
  <2> HIDE DEF ones
  <2> QED
    BY <1>5, <2>1, <2>2
<1>6. CASE c.tb_steps > 0
  <2>1. Layers(c) = chunks
    <3>1. c.wf_steps # 0 /\ c.tb_steps # 0
      BY <1>1, <1>6
    <3> HIDE DEF ones, chunks
    <3> QED
      BY <1>2, <3>1
  <2>2. K \in Nat
    <3>1. T + c.tb_steps - 1 \in Nat /\ c.tb_steps \in Nat \ {0}
      BY <1>1, <1>6
    <3> HIDE DEF T
    <3>2. K = (T + c.tb_steps - 1) \div c.tb_steps
      BY DEF CeilDiv
    <3> HIDE DEF K
    <3> QED
      BY <3>1, <3>2, DivMod
  <2> HIDE DEF K
  <2>3. \A i \in 1 .. K : /\ TupleSum(ChunkOf(c, i)) \in Nat
                          /\ TupleSum(ChunkOf(c, i)) <= c.packs * c.tb_steps
    BY <1>6, <2>2, ChunkIs
  <2>4. chunks \in Seq(Nat) /\ Len(chunks) = K /\ \A l \in 1 .. K : chunks[l] = TupleSum(ChunkOf(c, l))
    BY <2>2, <2>3
  <2> HIDE DEF chunks
  <2> QED
    BY <1>1, <1>6, <2>1, <2>3, <2>4
<1>7. c.wf_steps = 0 \/ (c.wf_steps > 0 /\ c.tb_steps = 0) \/ c.tb_steps > 0
  <2>1. c.tb_steps \in Nat /\ c.wf_steps \in Nat
    BY <1>1
  <2> QED
    BY <2>1
<1> QED
  BY <1>4, <1>5, <1>6, <1>7, Zenon

(* The shifts before a layer.                                              *)
LEMMA RegionShiftIs ==
  ASSUME NEW c, NEW d, Sound(c, d), NEW l \in 1 .. Len(Layers(c))
  PROVE  RegionShiftNum(c, l) \in Nat
<1> DEFINE L == Layers(c)
           s == SubSeq(L, 1, l - 1)
           M == c.packs * c.tb_steps + 1
<1>1. L \in Seq(Nat) /\ c.packs \in Nat /\ c.tb_steps \in Nat
  BY LayersAre DEF Sound, Adjusted, Tempered
<1>2. \A k \in 1 .. Len(L) : L[k] <= M
  <2>1. c.packs * c.tb_steps \in Nat
    BY <1>1
  <2> QED
    BY <1>1, <2>1, LayersAre
<1>3. RegionShiftNum(c, l) = TupleSum(s)
  BY Zenon DEF RegionShiftNum
<1>4. s \in Seq(Nat) /\ Len(s) = l - 1 /\ \A k \in 1 .. l - 1 : s[k] = L[k]
  <2> HIDE DEF L
  <2> QED
    BY <1>1 DEF L
<1>5. M \in Nat
  <2>1. c.packs * c.tb_steps \in Nat
    BY <1>1
  <2> QED
    BY <2>1
<1> HIDE DEF s, M
<1>6. ASSUME NEW k \in 1 .. Len(s) PROVE s[k] <= M
  <2>1. Len(L) \in Nat /\ l \in 1 .. Len(L) /\ k \in 1 .. l - 1
    BY <1>1, <1>4
  <2> HIDE DEF L
  <2>2. k \in 1 .. Len(L) /\ s[k] = L[k]
    BY <1>4, <2>1
  <2> QED
    BY <1>2, <2>2
<1>7. TupleSum(s) \in Nat
  BY <1>4, <1>5, <1>6, SumBound
<1> QED
  BY <1>3, <1>7

-----------------------------------------------------------------------------
(* What calc_region() scans, and the boxes of its later levels.            *)
SameWidths(a, b, d) == \A j \in 1 .. d : a[j].hi - a[j].lo = b[j].hi - b[j].lo

LEMMA BaseSpans ==
  ASSUME NEW c, NEW d, Sound(c, d), NEW rgn \in [1 .. d -> Spans], NEW shift \in Nat,
         NEW sec
  PROVE  /\ RegionBase(c, sec, rgn, shift) \in [1 .. d -> Spans]
         /\ c.tb_steps > 0 => SameWidths(RegionBase(c, sec, rgn, shift), rgn, d)
<1> DEFINE base == RegionBase(c, sec, rgn, shift)
<1>0. base = RegionBase(c, sec, rgn, shift)
  OBVIOUS
<1> SUFFICES /\ base \in [1 .. d -> Spans]
             /\ c.tb_steps > 0 => SameWidths(base, rgn, d)
  OBVIOUS
<1> HIDE DEF base
<1>1. shift \in Int
  OBVIOUS
<1>2. CASE c.tb_steps = 0
  <2>1. base = ShiftRegion(c, sec, rgn, shift) /\ ~(c.tb_steps > 0)
    BY <1>0, <1>2 DEF RegionBase
  <2> QED
    <3>1. \A x \in Int : ShiftRegion(c, sec, rgn, x) \in [1 .. d -> Spans]
      BY ShiftRegionIs
    <3> QED
      BY <1>1, <2>1, <3>1
<1>3. CASE c.tb_steps # 0
  <2>1. base = Shifted(c, rgn, shift)
    BY <1>0, <1>3 DEF RegionBase
  <2>2. base \in [1 .. d -> Spans]
    BY <1>1, <2>1, ShiftedIs
  <2>3. Dims(c) = 1 .. d
    BY DimsAre DEF Sound
  <2>4. ASSUME NEW j \in 1 .. d PROVE base[j].hi - base[j].lo = rgn[j].hi - rgn[j].lo
    <3> DEFINE z == c.wf_angles[j] * shift
    <3>1. base[j].lo = rgn[j].lo - z /\ base[j].hi = rgn[j].hi - z
      BY <2>1, <2>3 DEF Shifted
    <3>2. c.wf_angles[j] \in Nat /\ rgn[j].lo \in Int /\ rgn[j].hi \in Int
      BY DEF Sound, Waved, Spans
    <3>3. z \in Nat
      BY <3>2
    <3> HIDE DEF z
    <3> QED
      BY <3>1, <3>2, <3>3
  <2> QED
    BY <2>2, <2>4 DEF SameWidths
<1> QED
  BY <1>2, <1>3

BoxFits(c, d, base, box) ==
  /\ base \in [1 .. d -> Spans] /\ box \in [1 .. d -> Spans]
  /\ \A j \in 1 .. d : box[j].hi <= base[j].hi
  /\ c.tb_steps = 0 => box = base

LEMMA BaseIs ==
  ASSUME NEW c, NEW d, Sound(c, d), NEW rgn \in [1 .. d -> Spans], NEW shift \in Nat,
         NEW n \in Nat, c.tb_steps = 0 => n = 0, NEW sec
  PROVE  BoxFits(c, d, RegionBase(c, sec, rgn, shift), ShiftRegion(c, sec, rgn, shift + n))
<1> DEFINE base == RegionBase(c, sec, rgn, shift)
           box == ShiftRegion(c, sec, rgn, shift + n)
<1>0. base = RegionBase(c, sec, rgn, shift) /\ box = ShiftRegion(c, sec, rgn, shift + n)
  OBVIOUS
<1> SUFFICES /\ base \in [1 .. d -> Spans] /\ box \in [1 .. d -> Spans]
             /\ \A j \in 1 .. d : box[j].hi <= base[j].hi
             /\ c.tb_steps = 0 => box = base
  BY Zenon DEF BoxFits
<1> HIDE DEF base, box
<1>1. \A x \in Int : /\ ShiftRegion(c, sec, rgn, x) \in [1 .. d -> Spans]
                     /\ \A j \in 1 .. d :
                          ShiftRegion(c, sec, rgn, x)[j].hi <= rgn[j].hi - c.wf_angles[j] * x
  BY ShiftRegionIs
<1>2. shift \in Int /\ shift + n \in Int
  OBVIOUS
<1>3. box \in [1 .. d -> Spans]
      /\ \A j \in 1 .. d : box[j].hi <= rgn[j].hi - c.wf_angles[j] * (shift + n)
  BY <1>0, <1>1, <1>2
<1>4. CASE c.tb_steps = 0
  <2>1. base = box
    BY <1>0, <1>4 DEF RegionBase
  <2>2. ASSUME NEW j \in 1 .. d PROVE box[j].hi <= box[j].hi
    <3>1. box[j].hi \in Int
      BY <1>3 DEF Spans
    <3> QED
      BY <3>1
  <2> QED
    BY <1>3, <2>1, <2>2
<1>5. CASE c.tb_steps # 0
  <2>1. base = Shifted(c, rgn, shift)
    BY <1>0, <1>5 DEF RegionBase
  <2>2. base \in [1 .. d -> Spans]
    BY <1>2, <2>1, ShiftedIs
  <2>3. Dims(c) = 1 .. d
    BY DimsAre DEF Sound
  <2>4. ASSUME NEW j \in 1 .. d PROVE box[j].hi <= base[j].hi
    <3> DEFINE a == c.wf_angles[j]
    <3>1. /\ base[j].lo = rgn[j].lo - a * shift /\ base[j].hi = rgn[j].hi - a * shift
      BY <2>1, <2>3 DEF Shifted
    <3>2. a \in Nat /\ rgn[j].lo \in Int /\ rgn[j].hi \in Int /\ box[j].hi \in Int
      BY <1>3 DEF Sound, Waved, Spans
    <3>3. box[j].hi <= rgn[j].hi - a * (shift + n)
      BY <1>3
    <3> HIDE DEF a
    <3>4. a * (shift + n) = a * shift + a * n /\ a * shift \in Nat /\ a * n \in Nat
      BY <3>2
    <3> QED
      BY <3>1, <3>2, <3>3, <3>4
  <2> QED
    BY <1>3, <1>5, <2>2, <2>4
<1> QED
  BY <1>4, <1>5

LEMMA TbContextIs ==
  ASSUME NEW c, NEW d, Sound(c, d), WideRemainders(c), NEW r \in DOMAIN Regions(c),
         NEW rgn, rgn = Regions(c)[r], NEW shift \in Nat, NEW sec,
         NEW base, base = RegionBase(c, sec, rgn, shift)
  PROVE  TbContext(c, Shifts(c), base)
<1> DEFINE N == Shifts(c)
<1>1. Dims(c) = 1 .. d
  BY DimsAre DEF Sound
<1>2. N \in Nat /\ \A j \in 1 .. d : TbFits(c, N, j)
  BY DEF Sound, Tempered
<1>3. rgn \in [1 .. d -> Spans]
  BY RegionsAre
<1>4. /\ base \in [1 .. d -> Spans]
      /\ c.tb_steps > 0 =>
           \A j \in 1 .. d : base[j].hi - base[j].lo = rgn[j].hi - rgn[j].lo
  <2>1. /\ RegionBase(c, sec, rgn, shift) \in [1 .. d -> Spans]
        /\ c.tb_steps > 0 => SameWidths(RegionBase(c, sec, rgn, shift), rgn, d)
    BY <1>3, BaseSpans
  <2> QED
    BY <2>1 DEF SameWidths
<1>5. ASSUME NEW j \in 1 .. d PROVE WideRemainder(c, N, base, j)
  <2> DEFINE remainder == (base[j].hi - base[j].lo) % c.block[j]
  <2> SUFFICES ASSUME N > 1, c.block[j] < c.region[j]
               PROVE  \/ remainder <= c.tb_angles[j]
                      \/ remainder >= (2 * N - 1) * c.tb_angles[j] + c.max_halo[j]
    BY DEF WideRemainder
  <2>1. c.tb_steps > 0 /\ N = c.packs * c.tb_steps - 1
    BY DEF Shifts
  <2>2. base[j].hi - base[j].lo = rgn[j].hi - rgn[j].lo
    BY <1>4, <2>1
  <2>3. c.tb_angles[j] > 0 =>
           \/ remainder <= c.tb_angles[j]
           \/ remainder >= (2 * N - 1) * c.tb_angles[j] + c.max_halo[j]
    BY <1>1, <2>1, <2>2 DEF WideRemainders
  <2>4. c.tb_angles[j] \in Nat /\ c.max_halo[j] \in Nat /\ c.max_halo[j] <= c.tb_angles[j]
        /\ c.block[j] \in Nat \ {0}
    BY <1>2, <2>1 DEF TbFits
  <2>5. remainder \in Nat
    <3>1. base[j].hi - base[j].lo \in Int
      BY <1>4 DEF Spans
    <3>2. \A x \in Int, m \in Nat \ {0} : x % m \in Nat
      BY SMT
    <3> QED
      BY <2>4, <3>1, <3>2
  <2> HIDE DEF remainder
  <2>6. c.tb_angles[j] = 0 => (2 * N - 1) * c.tb_angles[j] + c.max_halo[j] = 0
    <3>1. N \in Nat
      BY <1>2
    <3> HIDE DEF N
    <3>2. \A x \in Int : x * 0 = 0
      BY SMT
    <3>3. 2 * N - 1 \in Int
      BY <3>1
    <3>4. c.tb_angles[j] = 0 => c.max_halo[j] = 0 /\ (2 * N - 1) * c.tb_angles[j] = 0
      BY <2>4, <3>2, <3>3
    <3> QED
      BY <3>4
  <2> QED
    BY <2>3, <2>4, <2>5, <2>6
<1> QED
  BY <1>1, <1>2, <1>4, <1>5 DEF TbContext

-----------------------------------------------------------------------------
(* Inside a block: its mini-blocks, its shapes and its evaluations.        *)
LEMMA BlocksAre ==
  ASSUME NEW c, NEW d, Sound(c, d), NEW base \in [1 .. d -> Spans], NEW blk \in Blocks(c, base)
  PROVE  /\ NonEmpty(base)
         /\ blk \in [1 .. d -> Spans]
         /\ \A j \in 1 .. d : /\ BlockOf(c, blk, base, j)
                              /\ StrideIn(base, c.block, c.region)[j] \in Nat \ {0}
<1> DEFINE stride == StrideIn(base, c.block, c.region)
<1>1. NonEmpty(base) /\ blk \in Tiles(base, stride)
  BY DEF Blocks
<1>2. DOMAIN base = 1 .. d /\ d \in Nat
  BY DEF Sound, Adjusted
<1>3. \A j \in 1 .. d : base[j] \in Spans /\ c.block[j] \in Nat \ {0}
  BY DEF Sound, Adjusted, Sizes
<1>4. ASSUME NEW j \in 1 .. d PROVE stride[j] \in Nat \ {0}
  <2> DEFINE size == c.block
             outer == c.region
  <2>1. j \in DOMAIN base /\ base[j] \in Spans /\ size[j] \in Nat \ {0}
    BY <1>2, <1>3
  <2> HIDE DEF size, outer
  <2>2. StrideIn(base, size, outer)[j] \in Nat \ {0}
    BY <2>1, StrideInIs
  <2> QED
    BY <2>2 DEF size, outer
<1> HIDE DEF stride
<1>5. blk \in [1 .. d -> Spans] /\ \A j \in 1 .. d : TileOf(blk[j], base[j], stride[j])
  BY <1>1, <1>2, <1>3, <1>4, TileSpans
<1> QED
  BY <1>1, <1>4, <1>5 DEF BlockOf, stride

LEMMA AdjBlockIs ==
  ASSUME NEW c, NEW d, Sound(c, d), NEW blk \in [1 .. d -> Spans]
  PROVE  AdjBlock(c, blk) \in [1 .. d -> Spans]
<1>1. Dims(c) = 1 .. d
  BY DimsAre DEF Sound
<1>2. ASSUME NEW j \in 1 .. d
      PROVE  [blk[j] EXCEPT !.hi = @ + (@ - blk[j].lo)] \in Spans
  BY DEF Spans
<1> QED
  BY <1>1, <1>2 DEF AdjBlock

(* The mini-blocks of a block, in the order of their loop.                 *)
MiniStride(c, adj) ==
  IF c.tb_steps = 0 THEN c.mini_block ELSE StrideIn(adj, c.mini_block, c.block)
MiniTiles(c, blk) == Tiles(AdjBlock(c, blk), MiniStride(c, AdjBlock(c, blk)))

LEMMA MiniStrideIs ==
  ASSUME NEW c, NEW d, Sound(c, d), NEW adj \in [1 .. d -> Spans], NEW j \in 1 .. d
  PROVE  MiniStride(c, adj)[j] \in Nat \ {0}
<1> DEFINE size == c.mini_block
           outer == c.block
<1>1. size[j] \in Nat \ {0} /\ j \in DOMAIN adj /\ adj[j] \in Spans
  BY DEF Sound, Adjusted, Sizes
<1>2. MiniStride(c, adj) \in {size, StrideIn(adj, size, outer)}
  BY DEF MiniStride
<1> HIDE DEF size, outer
<1>3. StrideIn(adj, size, outer)[j] \in Nat \ {0}
  BY <1>1, StrideInIs
<1> QED
  BY <1>1, <1>2, <1>3

LEMMA MiniBlocksAre ==
  ASSUME NEW c, NEW d, Sound(c, d), NEW blk \in [1 .. d -> Spans]
  PROVE  /\ Cardinality(MiniTiles(c, blk)) \in Nat
         /\ MiniBlocks(c, blk) \in [1 .. Cardinality(MiniTiles(c, blk)) -> MiniTiles(c, blk)]
         /\ \A mb \in MiniTiles(c, blk) : mb \in [1 .. d -> Spans]
<1> DEFINE adj == AdjBlock(c, blk)
           stride == MiniStride(c, adj)
           tiles == MiniTiles(c, blk)
<1>0. d \in Nat
  BY DEF Sound, Adjusted
<1>1. adj \in [1 .. d -> Spans]
  BY AdjBlockIs
<1>2. tiles = Tiles(adj, stride) /\ MiniBlocks(c, blk) = InOrder(Tiles(adj, stride))
  BY Zenon DEF MiniBlocks, MiniTiles, MiniStride
<1> HIDE DEF adj, tiles
<1>3. DOMAIN adj = 1 .. d /\ \A j \in 1 .. d : adj[j] \in Spans /\ stride[j] \in Nat \ {0}
  BY <1>1, MiniStrideIs
<1> HIDE DEF stride
<1>4. Cardinality(tiles) \in Nat /\ InOrder(tiles) \in [1 .. Cardinality(tiles) -> tiles]
  BY <1>0, <1>2, <1>3, InOrderIs
<1>5. \A mb \in tiles : mb \in [1 .. d -> Spans]
  BY <1>0, <1>2, <1>3, TileSpans
<1> QED
  BY <1>2, <1>4, <1>5 DEF tiles

(* The shapes of a phase are sets of as many dimensions as its number.     *)
LEMMA KSubsetIs ==
  ASSUME NEW d \in Nat, NEW k, NEW A \in kSubset(k, 1 .. d), NEW B \in kSubset(k, 1 .. d)
  PROVE  /\ A \subseteq 1 .. d /\ IsFiniteSet(A) /\ Cardinality(A) = k
         /\ A # B => A \ B # {} /\ B \ A # {}
<1>1. /\ A \subseteq 1 .. d /\ Cardinality(A) = k
      /\ B \subseteq 1 .. d /\ Cardinality(B) = k
  BY DEF kSubset
<1>2. IsFiniteSet(1 .. d)
  BY FS_Interval
<1>3. IsFiniteSet(A) /\ IsFiniteSet(B)
  BY <1>1, <1>2, FS_Subset
<1>4. A \subseteq B => A = B
  BY <1>1, <1>3, FS_Subset
<1>5. B \subseteq A => A = B
  BY <1>1, <1>3, FS_Subset
<1> QED
  BY <1>1, <1>3, <1>4, <1>5

LEMMA ShapesAre ==
  ASSUME NEW c, NEW d, Sound(c, d), NEW ph
  PROVE  /\ Cardinality(kSubset(ph, 1 .. d)) \in Nat
         /\ Shapes(c, ph) \in [1 .. Cardinality(kSubset(ph, 1 .. d)) -> kSubset(ph, 1 .. d)]
<1> DEFINE S == kSubset(ph, 1 .. d)
           before == {AB \in S \X S : ShapeBefore(AB[1], AB[2])}
<1>0. Dims(c) = 1 .. d /\ d \in Nat
  BY DimsAre DEF Sound, Adjusted
<1>1. IsFiniteSet(S)
  <2>1. IsFiniteSet(1 .. d)
    BY <1>0, FS_Interval
  <2>2. IsFiniteSet(SUBSET (1 .. d))
    BY <2>1, FS_SUBSET
  <2>3. S \subseteq SUBSET (1 .. d)
    BY DEF kSubset
  <2> QED
    BY <2>2, <2>3, FS_Subset
<1>2. StrictOrder(S, before)
  <2>1. \A A \in S : A \subseteq Nat
    BY <1>0 DEF kSubset
  <2> HIDE DEF S
  <2> QED
    BY <2>1, ShapesInOrder
<1>3. Shapes(c, ph) = Listed(S, before)
  BY <1>0, Zenon DEF Shapes
<1> HIDE DEF S, before
<1>4. Cardinality(S) \in Nat /\ Listed(S, before) \in [1 .. Cardinality(S) -> S]
  BY <1>1, <1>2, ListedIs
<1> QED
  BY <1>3, <1>4 DEF S

(* A mini-block's box stays within the shape and within the region.        *)
ShapeBox(c, blk, base, n, bridged, box) ==
  [j \in Dims(c) |-> Shape(c, blk, base, n, NumPhases(c), bridged, box, j)]

MiniBounds(c, adj, mb, n, j, x) ==
  /\ adj[j].lo < mb[j].lo => mb[j].lo - c.mb_angles[j] * n <= x.lo
  /\ mb[j].hi < adj[j].hi => x.hi <= mb[j].hi - c.mb_angles[j] * n

LEMMA ShiftMiniBlockIs ==
  ASSUME NEW c, NEW d, Sound(c, d), NEW mb \in [1 .. d -> Spans], NEW blk \in [1 .. d -> Spans],
         NEW base \in [1 .. d -> Spans], NEW n \in Nat, NEW bridged,
         NEW box \in [1 .. d -> Spans],
         NEW s, s = ShapeBox(c, blk, base, n, bridged, box),
         NEW e, e = ShiftMiniBlock(c, mb, AdjBlock(c, blk), blk, base, n, NumPhases(c), bridged, box)
  PROVE  /\ s \in [1 .. d -> Spans] /\ e \in [1 .. d -> Spans]
         /\ \A j \in 1 .. d : /\ s[j].lo <= e[j].lo /\ e[j].hi <= s[j].hi
                              /\ Within(e[j], box[j])
                              /\ MiniBounds(c, AdjBlock(c, blk), mb, n, j, e[j])
<1>0. Dims(c) = 1 .. d
  BY DimsAre DEF Sound
<1>1. s \in [1 .. d -> Spans]
  <2>1. ASSUME NEW j \in 1 .. d
        PROVE  Shape(c, blk, base, n, NumPhases(c), bridged, box, j) \in Spans
    <3>1. ShapeTypes(c, blk, base, box, n, j)
      BY DEF ShapeTypes, Sound, Tempered
    <3> QED
      BY <3>1, ShapeIsSpan
  <2> QED
    BY <1>0, <2>1 DEF ShapeBox
<1> DEFINE adj == AdjBlock(c, blk)
           first(j) == mb[j].lo <= adj[j].lo
           last(j) == mb[j].hi >= adj[j].hi
           shift(j) == IF first(j) /\ last(j) THEN 0 ELSE c.mb_angles[j] * n
           moved(j) == [lo |-> IF first(j) THEN s[j].lo ELSE mb[j].lo - shift(j),
                        hi |-> IF last(j) THEN s[j].hi ELSE mb[j].hi - shift(j)]
<1>2. e = [j \in Dims(c) |-> Cap(Cap(moved(j), box[j]), s[j])]
  BY Zenon DEF ShiftMiniBlock, ShapeBox
<1>3. ASSUME NEW j \in 1 .. d
      PROVE  /\ moved(j) \in Spans
             /\ adj[j].lo < mb[j].lo => moved(j).lo = mb[j].lo - c.mb_angles[j] * n
             /\ mb[j].hi < adj[j].hi => moved(j).hi = mb[j].hi - c.mb_angles[j] * n
  <2>1. c.mb_angles[j] \in Nat
    BY DEF Sound, Tempered
  <2>2. c.mb_angles[j] * n \in Nat
    BY <2>1
  <2>3. shift(j) \in Int
    BY <2>2
  <2>6. ~(first(j) /\ last(j)) => shift(j) = c.mb_angles[j] * n
    OBVIOUS
  <2> HIDE DEF shift
  <2>7. adj \in [1 .. d -> Spans]
    BY AdjBlockIs
  <2>4. /\ s[j].lo \in Int /\ s[j].hi \in Int /\ mb[j].lo \in Int /\ mb[j].hi \in Int
        /\ adj[j].lo \in Int /\ adj[j].hi \in Int
    BY <1>1, <2>7 DEF Spans
  <2> HIDE DEF adj
  <2>8. (adj[j].lo < mb[j].lo => ~first(j)) /\ (mb[j].hi < adj[j].hi => ~last(j))
    BY <2>4
  <2> HIDE DEF first, last
  <2>5. mb[j].lo - shift(j) \in Int /\ mb[j].hi - shift(j) \in Int
    BY <2>3, <2>4
  <2>9. moved(j) \in Spans
    BY <2>4, <2>5 DEF Spans
  <2>10. /\ ~first(j) => moved(j).lo = mb[j].lo - shift(j)
         /\ ~last(j) => moved(j).hi = mb[j].hi - shift(j)
    OBVIOUS
  <2> QED
    BY <2>6, <2>8, <2>9, <2>10
<1> HIDE DEF moved
<1>4. ASSUME NEW j \in 1 .. d
      PROVE  /\ e[j] \in Spans
             /\ s[j].lo <= e[j].lo /\ e[j].hi <= s[j].hi
             /\ Within(e[j], box[j])
             /\ MiniBounds(c, adj, mb, n, j, e[j])
  <2> DEFINE x == Cap(moved(j), box[j])
             y == Cap(x, s[j])
  <2>1. moved(j) \in Spans /\ box[j] \in Spans /\ s[j] \in Spans
    BY <1>1, <1>3
  <2>2. /\ x \in Spans /\ x.lo >= box[j].lo /\ x.hi <= box[j].hi
        /\ x.lo >= moved(j).lo /\ x.hi <= moved(j).hi
    BY <2>1, CapIs
  <2> HIDE DEF x
  <2>3. y \in Spans /\ y.lo >= x.lo /\ y.lo >= s[j].lo /\ y.hi <= x.hi /\ y.hi <= s[j].hi
    BY <2>1, <2>2, CapIs
  <2>4. e[j] = y
    BY <1>0, <1>2 DEF x
  <2> HIDE DEF y
  <2>5. /\ x.lo \in Int /\ x.hi \in Int /\ y.lo \in Int /\ y.hi \in Int
        /\ box[j].lo \in Int /\ box[j].hi \in Int /\ s[j].lo \in Int /\ s[j].hi \in Int
        /\ moved(j).lo \in Int /\ moved(j).hi \in Int
    BY <2>1, <2>2, <2>3 DEF Spans
  <2>6. Within(e[j], box[j]) /\ s[j].lo <= e[j].lo /\ e[j].hi <= s[j].hi
    BY <2>2, <2>3, <2>4, <2>5 DEF Within
  <2>7. moved(j).lo <= e[j].lo /\ e[j].hi <= moved(j).hi
    BY <2>2, <2>3, <2>4, <2>5
  <2>8. MiniBounds(c, adj, mb, n, j, e[j])
    <3> HIDE DEF adj
    <3> QED
      BY <1>3, <2>7 DEF MiniBounds
  <2> QED
    BY <2>3, <2>4, <2>6, <2>8
<1>5. DOMAIN e = 1 .. d /\ e = [j \in 1 .. d |-> e[j]]
  BY <1>0, <1>2
<1>6. e \in [1 .. d -> Spans]
  BY <1>4, <1>5
<1> QED
  BY <1>1, <1>4, <1>6

(* Everything that a block may evaluate in a phase.                        *)
EvaluationsOf(c, sec, rgn, base, shift, nlevels, ph, blk) ==
  {Evaluation(c, sec, rgn, base, shift, blk, x[1], x[2], x[3]) :
     x \in kSubset(ph, Dims(c)) \X MiniTiles(c, blk) \X (0 .. nlevels - 1)}

LEMMA EvaluationsAre ==
  ASSUME NEW c, NEW d, Sound(c, d), NEW sec, NEW rgn, NEW base, NEW shift, NEW nlevels \in Nat,
         NEW ph, NEW blk \in [1 .. d -> Spans]
  PROVE  Evaluations(c, sec, rgn, base, shift, nlevels, ph, blk)
           \in Seq({e \in EvaluationsOf(c, sec, rgn, base, shift, nlevels, ph, blk) : NonEmpty(e.box)})
<1> DEFINE S == EvaluationsOf(c, sec, rgn, base, shift, nlevels, ph, blk)
           mbs == MiniBlocks(c, blk)
           shapes == Shapes(c, ph)
           ev(A, mb, n) == Evaluation(c, sec, rgn, base, shift, blk, A, mb, n)
           steps(A, mb) == [n \in 1 .. nlevels |-> ev(A, mb, n - 1)]
           rows(A) == [k \in 1 .. Len(mbs) |-> steps(A, mbs[k])]
           scan(A) == FlattenSeq(rows(A))
           all == [k \in 1 .. Len(shapes) |-> scan(shapes[k])]
<1>0. Dims(c) = 1 .. d
  BY DimsAre DEF Sound
<1>1. Evaluations(c, sec, rgn, base, shift, nlevels, ph, blk) = Pending(FlattenSeq(all))
  BY Zenon DEF Evaluations
<1>2. \A A \in kSubset(ph, 1 .. d) : \A mb \in MiniTiles(c, blk) : \A n \in 0 .. nlevels - 1 :
        ev(A, mb, n) \in S
  <2> SUFFICES ASSUME NEW A \in kSubset(ph, 1 .. d), NEW mb \in MiniTiles(c, blk),
                      NEW n \in 0 .. nlevels - 1
               PROVE  ev(A, mb, n) \in S
    OBVIOUS
  <2> DEFINE x == <<A, mb, n>>
  <2>1. x \in kSubset(ph, Dims(c)) \X MiniTiles(c, blk) \X (0 .. nlevels - 1)
    BY <1>0
  <2>2. x[1] = A /\ x[2] = mb /\ x[3] = n
    OBVIOUS
  <2> HIDE DEF x
  <2>3. Evaluation(c, sec, rgn, base, shift, blk, x[1], x[2], x[3]) \in S
    BY <2>1, Zenon DEF EvaluationsOf
  <2> QED
    BY <2>2, <2>3
<1> HIDE DEF ev, S
<1>3. /\ mbs \in Seq(MiniTiles(c, blk)) /\ Len(mbs) \in Nat
      /\ \A k \in 1 .. Len(mbs) : mbs[k] \in MiniTiles(c, blk)
  BY MiniBlocksAre
<1>4. /\ shapes \in Seq(kSubset(ph, 1 .. d)) /\ Len(shapes) \in Nat
      /\ \A k \in 1 .. Len(shapes) : shapes[k] \in kSubset(ph, 1 .. d)
  BY ShapesAre
<1> HIDE DEF mbs, shapes
<1>5. ASSUME NEW A \in kSubset(ph, 1 .. d), NEW mb \in MiniTiles(c, blk)
      PROVE  steps(A, mb) \in Seq(S)
  <2>1. ASSUME NEW n \in 1 .. nlevels PROVE ev(A, mb, n - 1) \in S
    BY <1>2
  <2> QED
    BY <2>1
<1> HIDE DEF steps
<1>6. ASSUME NEW A \in kSubset(ph, 1 .. d) PROVE scan(A) \in Seq(S)
  <2>1. rows(A) \in Seq(Seq(S))
    BY <1>3, <1>5
  <2> HIDE DEF rows
  <2> QED
    BY <2>1, FlattenInSeq
<1> HIDE DEF scan
<1>7. all \in Seq(Seq(S))
  BY <1>4, <1>6
<1> HIDE DEF all
<1>8. FlattenSeq(all) \in Seq(S)
  BY <1>7, FlattenInSeq
<1>9. Pending(FlattenSeq(all)) \in Seq({e \in S : NonEmpty(e.box)})
  BY <1>8, PendingInSeq
<1> QED
  BY <1>1, <1>9 DEF S

(* Where a block, a phase and a layer are in the loops.                    *)
LoopsAt(c, d, sec, r, l, ph, rgn, shift, base) ==
  /\ Sound(c, d) /\ r \in DOMAIN Regions(c) /\ l \in 1 .. Len(Layers(c))
  /\ ph \in 0 .. NumPhases(c) - 1
  /\ rgn = Regions(c)[r] /\ shift = RegionShiftNum(c, l)
  /\ base = RegionBase(c, sec, rgn, shift)

(* An evaluation lies in the shape of its block after n shifts.            *)
InShape(e, c, d, base, shift, blk, A, n, box, s) ==
  /\ e.level = shift + n
  /\ c.tb_steps = 0 => n = 0 /\ box = base
  /\ ShapeOf(s, c, Shifts(c), base, blk, n, A, box, NumPhases(c))
  /\ e.box \in [1 .. d -> Spans] /\ s \in [1 .. d -> Spans]
  /\ \A j \in 1 .. d : /\ s[j].lo <= e.box[j].lo /\ e.box[j].lo < e.box[j].hi
                       /\ e.box[j].hi <= s[j].hi

(* ... and within its region and its mini-block.                           *)
Made(e, c, d, sec, rgn, base, shift, blk, A, mb, n) ==
  LET box == ShiftRegion(c, sec, rgn, shift + n)
  IN /\ InShape(e, c, d, base, shift, blk, A, n, box, ShapeBox(c, blk, base, n, A, box))
     /\ box \in [1 .. d -> Spans]
     /\ \A j \in 1 .. d : /\ Within(e.box[j], box[j])
                          /\ MiniBounds(c, AdjBlock(c, blk), mb, n, j, e.box[j])

LEMMA EvaluationMade ==
  ASSUME NEW c, NEW d, NEW sec, NEW r, NEW l, NEW ph, NEW rgn, NEW shift, NEW base,
         LoopsAt(c, d, sec, r, l, ph, rgn, shift, base), NEW blk \in Blocks(c, base),
         NEW A \in kSubset(ph, 1 .. d), NEW mb \in MiniTiles(c, blk),
         NEW n \in 0 .. Layers(c)[l] - 1,
         NEW e, e = Evaluation(c, sec, rgn, base, shift, blk, A, mb, n), NonEmpty(e.box)
  PROVE  Made(e, c, d, sec, rgn, base, shift, blk, A, mb, n)
<1> DEFINE nlevels == Layers(c)[l]
<1>0. Sound(c, d) /\ Dims(c) = 1 .. d
  BY DimsAre DEF Sound, LoopsAt
<1> DEFINE box == ShiftRegion(c, sec, rgn, shift + n)
           s == ShapeBox(c, blk, base, n, A, box)
           moved == ShiftMiniBlock(c, mb, AdjBlock(c, blk), blk, base, n, NumPhases(c), A, box)
<1>2. A \in kSubset(ph, 1 .. d) /\ mb \in MiniTiles(c, blk) /\ n \in 0 .. nlevels - 1
  OBVIOUS
<1>3. e = [level |-> shift + n, box |-> IF NonEmpty(box) THEN moved ELSE box]
  BY Zenon DEF Evaluation
<1>4. e.level = shift + n /\ e.box = moved /\ NonEmpty(moved)
  <2> HIDE DEF moved, box
  <2> QED
    BY <1>3
<1>5. n \in Nat /\ n <= Shifts(c) /\ (c.tb_steps = 0 => n = 0) /\ Shifts(c) \in Nat
  <2>1. /\ nlevels \in Nat
        /\ c.tb_steps > 0 => nlevels <= c.packs * c.tb_steps
        /\ c.tb_steps = 0 => nlevels = 1
    <3>1. l \in 1 .. Len(Layers(c)) /\ Layers(c) \in Seq(Nat)
      BY <1>0, LayersAre DEF LoopsAt
    <3>2. nlevels \in Nat
      BY <3>1
    <3> QED
      BY <1>0, <3>1, <3>2, LayersAre
  <2>2. c.tb_steps \in Nat /\ Shifts(c) \in Nat /\ c.packs \in Nat
    BY <1>0 DEF Sound, Adjusted, Tempered
  <2> HIDE DEF nlevels
  <2>3. n \in Nat /\ n <= nlevels - 1
    BY <1>2, <2>1
  <2>4. CASE c.tb_steps = 0
    BY <2>1, <2>2, <2>3, <2>4
  <2>5. CASE c.tb_steps > 0
    <3>1. Shifts(c) = c.packs * c.tb_steps - 1
      BY <2>5 DEF Shifts
    <3> DEFINE most == c.packs * c.tb_steps
    <3>2. most \in Nat /\ nlevels <= most /\ Shifts(c) = most - 1
      BY <2>1, <2>2, <2>5, <3>1
    <3> HIDE DEF most
    <3> QED
      BY <2>1, <2>2, <2>3, <2>5, <3>2
  <2> QED
    BY <2>2, <2>4, <2>5
<1>6. rgn \in [1 .. d -> Spans] /\ shift \in Nat
  <2>1. rgn \in [1 .. d -> Spans]
    BY <1>0, RegionsAre DEF LoopsAt
  <2>2. shift \in Nat
    BY <1>0, RegionShiftIs DEF LoopsAt
  <2> QED
    BY <2>1, <2>2
<1>7. base = RegionBase(c, sec, rgn, shift)
  BY DEF LoopsAt
<1>8. /\ base \in [1 .. d -> Spans] /\ box \in [1 .. d -> Spans]
      /\ \A j \in 1 .. d : box[j].hi <= base[j].hi
      /\ c.tb_steps = 0 => box = base
  <2>1. BoxFits(c, d, RegionBase(c, sec, rgn, shift), ShiftRegion(c, sec, rgn, shift + n))
    BY <1>0, <1>5, <1>6, BaseIs
  <2> QED
    BY <1>7, <2>1 DEF BoxFits
<1> HIDE DEF box
<1>9. mb \in [1 .. d -> Spans] /\ blk \in [1 .. d -> Spans]
      /\ \A j \in 1 .. d : BlockOf(c, blk, base, j)
  <2>1. blk \in [1 .. d -> Spans] /\ \A j \in 1 .. d : BlockOf(c, blk, base, j)
    BY <1>0, <1>8, BlocksAre
  <2>2. mb \in [1 .. d -> Spans]
    BY <1>0, <1>2, <2>1, MiniBlocksAre
  <2> QED
    BY <2>1, <2>2
<1>10. /\ s \in [1 .. d -> Spans] /\ moved \in [1 .. d -> Spans]
       /\ \A j \in 1 .. d : /\ s[j].lo <= moved[j].lo /\ moved[j].hi <= s[j].hi
                            /\ Within(moved[j], box[j])
                            /\ MiniBounds(c, AdjBlock(c, blk), mb, n, j, moved[j])
  <2>1. /\ n \in Nat /\ box \in [1 .. d -> Spans] /\ mb \in [1 .. d -> Spans]
        /\ blk \in [1 .. d -> Spans] /\ base \in [1 .. d -> Spans] /\ Sound(c, d)
    BY <1>0, <1>5, <1>8, <1>9
  <2> QED
    BY <2>1, ShiftMiniBlockIs
<1>11. \A j \in 1 .. d : s[j] = Shape(c, blk, base, n, NumPhases(c), A, box, j)
  BY <1>0 DEF ShapeBox
<1> HIDE DEF s, moved
<1>12. \A j \in 1 .. d : moved[j].lo < moved[j].hi
  BY <1>4, <1>10 DEF NonEmpty
<1>13. ASSUME NEW j \in 1 .. d PROVE s[j].lo < s[j].hi
  <2>1. s[j].lo \in Int /\ s[j].hi \in Int /\ moved[j].lo \in Int /\ moved[j].hi \in Int
    BY <1>10 DEF Spans
  <2> QED
    BY <1>10, <1>12, <2>1
<1>14. ShapeOf(s, c, Shifts(c), base, blk, n, A, box, NumPhases(c))
  BY <1>0, <1>5, <1>8, <1>9, <1>11, <1>13 DEF ShapeOf
<1>15. InShape(e, c, d, base, shift, blk, A, n, box, s)
  BY <1>4, <1>5, <1>8, <1>10, <1>12, <1>14 DEF InShape
<1> QED
  BY <1>4, <1>8, <1>10, <1>15, Zenon DEF Made, box, s

LEMMA EvaluationIs ==
  ASSUME NEW c, NEW d, NEW sec, NEW r, NEW l, NEW ph, NEW rgn, NEW shift, NEW base,
         LoopsAt(c, d, sec, r, l, ph, rgn, shift, base), NEW blk \in Blocks(c, base),
         NEW e \in EvaluationsOf(c, sec, rgn, base, shift, Layers(c)[l], ph, blk),
         NonEmpty(e.box)
  PROVE  \E A \in kSubset(ph, 1 .. d), mb \in MiniTiles(c, blk), n \in 0 .. Layers(c)[l] - 1 :
            /\ e = Evaluation(c, sec, rgn, base, shift, blk, A, mb, n)
            /\ Made(e, c, d, sec, rgn, base, shift, blk, A, mb, n)
<1> DEFINE nlevels == Layers(c)[l]
<1>0. Dims(c) = 1 .. d
  BY DimsAre DEF Sound, LoopsAt
<1>1. PICK x \in kSubset(ph, Dims(c)) \X MiniTiles(c, blk) \X (0 .. nlevels - 1) :
        e = Evaluation(c, sec, rgn, base, shift, blk, x[1], x[2], x[3])
  BY Zenon DEF EvaluationsOf
<1> DEFINE A == x[1]
           mb == x[2]
           n == x[3]
<1>2. A \in kSubset(ph, 1 .. d) /\ mb \in MiniTiles(c, blk) /\ n \in 0 .. nlevels - 1
  BY <1>0
<1>3. e = Evaluation(c, sec, rgn, base, shift, blk, A, mb, n)
  BY <1>1
<1> HIDE DEF A, mb, n
<1>4. Made(e, c, d, sec, rgn, base, shift, blk, A, mb, n)
  BY <1>2, <1>3, EvaluationMade
<1> QED
  BY <1>2, <1>3, <1>4

LEMMA EvaluationInShape ==
  ASSUME NEW c, NEW d, NEW sec, NEW r, NEW l, NEW ph, NEW rgn, NEW shift, NEW base,
         LoopsAt(c, d, sec, r, l, ph, rgn, shift, base), NEW blk \in Blocks(c, base),
         NEW e \in EvaluationsOf(c, sec, rgn, base, shift, Layers(c)[l], ph, blk),
         NonEmpty(e.box)
  PROVE  \E A \in kSubset(ph, 1 .. d), n \in Nat : \E box, s :
            InShape(e, c, d, base, shift, blk, A, n, box, s)
<1>1. PICK A \in kSubset(ph, 1 .. d), mb \in MiniTiles(c, blk), n \in 0 .. Layers(c)[l] - 1 :
        Made(e, c, d, sec, rgn, base, shift, blk, A, mb, n)
  BY EvaluationIs
<1>2. n \in Nat
  OBVIOUS
<1>3. \E box, s : InShape(e, c, d, base, shift, blk, A, n, box, s)
  BY <1>1, Zenon DEF Made
<1> QED
  BY <1>2, <1>3

(* Without temporal blocking a block keeps to itself.                      *)
LEMMA ShapeInBlock ==
  ASSUME NEW c, NEW base, NEW blk, NEW j, blk[j] \in Spans, base[j] \in Spans,
         c.tb_angles[j] \in Nat, c.tb_widths[j] \in Nat,
         NEW s, s = Shape(c, blk, base, 0, 1, {}, base, j)
  PROVE  s.lo >= blk[j].lo /\ s.hi <= blk[j].hi
<1> DEFINE first == blk[j].lo <= base[j].lo
           last == blk[j].hi >= base[j].hi
<1>1. /\ blk[j].lo \in Int /\ blk[j].hi \in Int /\ base[j].lo \in Int /\ base[j].hi \in Int
  BY DEF Spans
<1>2. c.tb_angles[j] * 0 = 0
  BY SMT
<1>3. s = [lo |-> IF first THEN base[j].lo ELSE blk[j].lo + c.tb_angles[j] * 0,
           hi |-> IF last THEN base[j].hi ELSE blk[j].hi - c.tb_angles[j] * 0]
  BY DEF Shape
<1> QED
  BY <1>1, <1>2, <1>3

LEMMA BoxesApart ==
  ASSUME NEW s \in Spans, NEW t \in Spans, NEW x \in Spans, NEW y \in Spans,
         s.lo <= x.lo, x.hi <= s.hi, t.lo <= y.lo, y.hi <= t.hi,
         NEW gap \in Nat, Apart(s, t, gap)
  PROVE  Apart(x, y, gap)
<1>1. /\ s.lo \in Int /\ s.hi \in Int /\ t.lo \in Int /\ t.hi \in Int
      /\ x.lo \in Int /\ x.hi \in Int /\ y.lo \in Int /\ y.hi \in Int
  BY DEF Spans
<1>2. s.hi + gap <= t.lo \/ t.hi + gap <= s.lo
  BY DEF Apart
<1>3. x.hi + gap <= y.lo \/ y.hi + gap <= x.lo
  BY <1>1, <1>2
<1> QED
  BY <1>3 DEF Apart

(* What two blocks of a phase still have to evaluate is apart.             *)
LEMMA EvaluationsApart ==
  ASSUME NEW c, NEW d, NEW sec, NEW r, NEW l, NEW ph, NEW rgn, NEW shift, NEW base,
         LoopsAt(c, d, sec, r, l, ph, rgn, shift, base), WideRemainders(c),
         NEW x \in Blocks(c, base), NEW y \in Blocks(c, base), x # y,
         NEW e \in EvaluationsOf(c, sec, rgn, base, shift, Layers(c)[l], ph, x),
         NEW f \in EvaluationsOf(c, sec, rgn, base, shift, Layers(c)[l], ph, y),
         NonEmpty(e.box), NonEmpty(f.box)
  PROVE  \E i \in 1 .. d :
            Apart(e.box[i], f.box[i], IF e.level = f.level THEN 0 ELSE c.max_halo[i])
<1> DEFINE N == Shifts(c)
<1>0. Sound(c, d) /\ Dims(c) = 1 .. d /\ d \in Nat /\ d = Len(c.rank)
      /\ \A i \in 1 .. d : c.max_halo[i] \in Nat
  <2>1. Sound(c, d) /\ Adjusted(c, d)
    BY DEF Sound, LoopsAt
  <2>2. Dims(c) = 1 .. d
    BY <2>1, DimsAre
  <2>3. d \in Nat /\ c.rank \in [1 .. d -> Nat \ {0}] /\ c.max_halo \in [1 .. d -> Nat]
    BY <2>1 DEF Adjusted, Sizes
  <2> QED
    BY <2>1, <2>2, <2>3
<1>1. PICK A \in kSubset(ph, 1 .. d), n \in Nat : \E box, s :
        InShape(e, c, d, base, shift, x, A, n, box, s)
  BY EvaluationInShape
<1>2. PICK boxn, s : InShape(e, c, d, base, shift, x, A, n, boxn, s)
  BY <1>1
<1>3. PICK B \in kSubset(ph, 1 .. d), m \in Nat : \E box, t :
        InShape(f, c, d, base, shift, y, B, m, box, t)
  BY EvaluationInShape
<1>4. PICK boxm, t : InShape(f, c, d, base, shift, y, B, m, boxm, t)
  BY <1>3
<1>5. rgn \in [1 .. d -> Spans] /\ shift \in Nat
  <2>1. rgn \in [1 .. d -> Spans]
    BY <1>0, RegionsAre DEF LoopsAt
  <2>2. shift \in Nat
    BY <1>0, RegionShiftIs DEF LoopsAt
  <2> QED
    BY <2>1, <2>2
<1>6. base \in [1 .. d -> Spans]
  <2>1. RegionBase(c, sec, rgn, shift) \in [1 .. d -> Spans]
    BY <1>0, <1>5, BaseSpans
  <2> QED
    BY <2>1 DEF LoopsAt
<1>7. /\ x \in [1 .. d -> Spans] /\ \A j \in 1 .. d : BlockOf(c, x, base, j)
      /\ y \in [1 .. d -> Spans] /\ \A j \in 1 .. d : BlockOf(c, y, base, j)
      /\ \A j \in 1 .. d : StrideIn(base, c.block, c.region)[j] \in Nat \ {0}
  BY <1>0, <1>6, BlocksAre
<1>8. PICK j \in 1 .. d : x[j] # y[j]
  <2> SUFFICES ASSUME \A j \in 1 .. d : x[j] = y[j] PROVE x = y
    OBVIOUS
  <2>1. x = [j \in 1 .. d |-> x[j]] /\ y = [j \in 1 .. d |-> y[j]]
    BY <1>7
  <2> QED
    BY <2>1
<1>9. \E i \in 1 .. d : Apart(s[i], t[i], Gap(c, n, m, i))
  <2>1. CASE c.tb_steps > 0
    <3>1. TbContext(c, N, base)
      BY <1>0, <1>5, TbContextIs DEF LoopsAt
    <3>2. NumPhases(c) \in Nat /\ NumPhases(c) > 1
      BY <1>0, <2>1 DEF NumPhases
    <3>3. /\ ShapeOf(s, c, N, base, x, n, A, boxn, NumPhases(c))
          /\ ShapeOf(t, c, N, base, y, m, B, boxm, NumPhases(c))
      BY <1>2, <1>4 DEF InShape
    <3>4. A \subseteq Dims(c) /\ B \subseteq Dims(c) /\ (A # B => A \ B # {} /\ B \ A # {})
      <4>1. A \subseteq 1 .. d /\ IsFiniteSet(A) /\ Cardinality(A) = ph
            /\ (A # B => A \ B # {} /\ B \ A # {})
        BY <1>0, KSubsetIs
      <4>2. B \subseteq 1 .. d
        BY DEF kSubset
      <4> QED
        BY <1>0, <4>1, <4>2
    <3>5. DOMAIN base = Dims(c) /\ j \in Dims(c)
      BY <1>0, <1>6
    <3> HIDE DEF N
    <3> DEFINE P == NumPhases(c)
    <3> HIDE DEF P
    <3>6. P \in Nat /\ P > 1 /\ ShapeOf(s, c, N, base, x, n, A, boxn, P)
          /\ ShapeOf(t, c, N, base, y, m, B, boxm, P)
      BY <3>2, <3>3 DEF P
    <3>7. \E i \in Dims(c) : Apart(s[i], t[i], Gap(c, n, m, i))
      <4>1. TwoShapes(c, N, base, x, s, n, A, boxn, y, t, m, B, boxm, P, j)
        BY <1>8, <2>1, <3>1, <3>4, <3>5, <3>6, Zenon DEF TwoShapes
      <4> QED
        BY <4>1, ShapesApart, Zenon
    <3> QED
      BY <1>0, <3>7
  <2>2. CASE ~(c.tb_steps > 0)
    <3>1. c.tb_steps = 0
      BY <1>0, <2>2 DEF Sound, Tempered
    <3>2. NumPhases(c) = 1 /\ ph = 0
      BY <3>1 DEF NumPhases, LoopsAt
    <3>3. A = {} /\ B = {}
      <4>1. IsFiniteSet(A) /\ Cardinality(A) = 0
        BY <1>0, <3>2, KSubsetIs
      <4>2. IsFiniteSet(B) /\ Cardinality(B) = 0
        BY <1>0, <3>2, KSubsetIs
      <4> QED
        BY <4>1, <4>2, FS_EmptySet
    <3>4. n = 0 /\ m = 0 /\ boxn = base /\ boxm = base
      BY <1>2, <1>4, <3>1 DEF InShape
    <3>5. /\ s[j] = Shape(c, x, base, 0, 1, {}, base, j)
          /\ t[j] = Shape(c, y, base, 0, 1, {}, base, j)
      BY <1>0, <1>2, <1>4, <3>2, <3>3, <3>4 DEF InShape, ShapeOf
    <3>6. /\ x[j] \in Spans /\ y[j] \in Spans /\ base[j] \in Spans
          /\ c.tb_angles[j] \in Nat /\ c.tb_widths[j] \in Nat
      BY <1>0, <1>6, <1>7 DEF Sound, Tempered
    <3>7. s[j].lo >= x[j].lo /\ s[j].hi <= x[j].hi
      BY <3>5, <3>6, ShapeInBlock
    <3>8. t[j].lo >= y[j].lo /\ t[j].hi <= y[j].hi
      BY <3>5, <3>6, ShapeInBlock
    <3>9. x[j].hi <= y[j].lo \/ y[j].hi <= x[j].lo
      <4> DEFINE stride == StrideIn(base, c.block, c.region)[j]
      <4>1. stride \in Nat \ {0} /\ TileOf(x[j], base[j], stride) /\ TileOf(y[j], base[j], stride)
        BY <1>7 DEF BlockOf
      <4> HIDE DEF stride
      <4>2. \/ x[j].lo + stride <= y[j].lo /\ x[j].hi = x[j].lo + stride
            \/ y[j].lo + stride <= x[j].lo /\ y[j].hi = y[j].lo + stride
        BY <1>8, <3>6, <4>1, TilesDisjoint
      <4> QED
        BY <4>2
    <3>10. /\ x[j].lo \in Int /\ x[j].hi \in Int /\ y[j].lo \in Int /\ y[j].hi \in Int
           /\ s[j].lo \in Int /\ s[j].hi \in Int /\ t[j].lo \in Int /\ t[j].hi \in Int
      BY <1>2, <1>4, <3>6 DEF InShape, Spans
    <3>11. Apart(s[j], t[j], 0)
      BY Zenon, <3>7, <3>8, <3>9, <3>10, WithinApart
    <3>12. Gap(c, n, m, j) = 0
      BY <3>4 DEF Gap
    <3> QED
      BY <3>11, <3>12
  <2> QED
    BY <2>1, <2>2
<1>10. PICK i \in 1 .. d : Apart(s[i], t[i], Gap(c, n, m, i))
  BY <1>9
<1>11. Gap(c, n, m, i) = IF e.level = f.level THEN 0 ELSE c.max_halo[i]
  <2>1. e.level = shift + n /\ f.level = shift + m
    BY <1>2, <1>4 DEF InShape
  <2>2. e.level = f.level <=> n = m
    BY <1>5, <2>1
  <2> QED
    BY <2>2 DEF Gap
<1> DEFINE gap == Gap(c, n, m, i)
<1>12. gap \in Nat
  BY <1>0, <1>11
<1>13. gap = IF e.level = f.level THEN 0 ELSE c.max_halo[i]
  BY <1>11
<1> HIDE DEF gap
<1> DEFINE u == e.box
           v == f.box
<1>14. /\ s[i] \in Spans /\ u[i] \in Spans /\ s[i].lo <= u[i].lo /\ u[i].hi <= s[i].hi
       /\ t[i] \in Spans /\ v[i] \in Spans /\ t[i].lo <= v[i].lo /\ v[i].hi <= t[i].hi
  BY <1>2, <1>4 DEF InShape
<1>15. Apart(s[i], t[i], gap)
  BY <1>10 DEF gap
<1> HIDE DEF u, v
<1>16. Apart(u[i], v[i], gap)
  BY <1>12, <1>14, <1>15, BoxesApart
<1> QED
  BY <1>13, <1>16 DEF u, v

-----------------------------------------------------------------------------
(* The tiles of a box cover it.                                            *)
LEMMA CeilDivReach ==
  ASSUME NEW n \in Nat, NEW m \in Nat \ {0}, NEW k \in Nat, k * m < n
  PROVE  k \in 0 .. CeilDiv(n, m) - 1
<1> DEFINE q == CeilDiv(n, m)
<1>1. n + m - 1 \in Nat
  OBVIOUS
<1>2. q \in Nat /\ m * q \in Nat /\ n - 1 < m * q
  <2> DEFINE x == n + m - 1
  <2>1. x \in Nat /\ q = x \div m
    BY <1>1 DEF CeilDiv
  <2> HIDE DEF x, q
  <2>2. q \in Nat /\ (x % m) \in Nat /\ (x % m) < m /\ x = (x % m) + m * q
    BY <2>1, DivMod
  <2>3. m * q \in Nat
    BY <2>2
  <2> QED
    BY <2>2, <2>3 DEF x
<1> HIDE DEF q
<1>3. k < q
  <2> SUFFICES ASSUME q <= k PROVE FALSE
    BY <1>2
  <2>1. q < k => m * q + m <= m * k /\ m * k \in Nat
    BY <1>2, TimesMonotone
  <2>2. m * k = k * m /\ k * m \in Nat
    OBVIOUS
  <2>3. m * q <= m * k
    <3>1. q = k => m * q = m * k
      OBVIOUS
    <3>2. q < k => m * q <= m * k
      BY <1>2, <2>1
    <3> QED
      BY <1>2, <2>2, <3>1, <3>2
  <2> QED
    BY <1>2, <2>2, <2>3
<1> QED
  BY <1>2, <1>3 DEF q

Holds(span, x) == span.lo <= x /\ x < span.hi

LEMMA AlongCovers ==
  ASSUME NEW box, NEW stride, NEW j \in DOMAIN box, box[j] \in Spans, stride[j] \in Nat \ {0},
         NEW x \in Int, Holds(box[j], x)
  PROVE  \E t \in Along(box, stride, j) : Holds(t, x)
<1> DEFINE lo == box[j].lo
           hi == box[j].hi
           m == stride[j]
           k == (x - lo) \div m
           y == lo + k * m
           t == [lo |-> y, hi |-> Min({y + m, hi})]
<1>1. lo \in Int /\ hi \in Int /\ m \in Nat \ {0} /\ lo <= x /\ x < hi
  BY DEF Spans, Holds
<1> HIDE DEF lo, hi, m
<1>2. k \in Nat /\ k * m \in Nat /\ k * m <= x - lo /\ x - lo < k * m + m
  <2> DEFINE n == x - lo
  <2>1. n \in Nat /\ k = n \div m
    BY <1>1
  <2> HIDE DEF n, k
  <2>2. k \in Nat /\ (n % m) \in Nat /\ (n % m) < m /\ n = (n % m) + m * k
    BY <1>1, <2>1, DivMod
  <2>3. m * k = k * m /\ k * m \in Nat
    BY <1>1, <2>2
  <2> QED
    BY <1>1, <2>1, <2>2, <2>3 DEF n
<1> HIDE DEF k
<1>3. k \in 0 .. CeilDiv(hi - lo, m) - 1
  <2>1. hi - lo \in Nat /\ k * m < hi - lo
    BY <1>1, <1>2
  <2> QED
    BY <1>1, <1>2, <2>1, CeilDivReach
<1>4. t \in Along(box, stride, j)
  BY <1>3, Zenon DEF Along, lo, hi, m
<1>5. Holds(t, x)
  <2>1. y \in Int /\ y <= x /\ x < y + m
    BY <1>1, <1>2
  <2> HIDE DEF y
  <2>2. Min({y + m, hi}) = IF y + m <= hi THEN y + m ELSE hi
    BY <1>1, <2>1, MinOfTwo
  <2> QED
    BY <1>1, <2>1, <2>2 DEF Holds
<1> QED
  BY <1>4, <1>5

LEMMA TilesCover ==
  ASSUME NEW box, NEW stride, NEW p,
         \A j \in DOMAIN box : /\ box[j] \in Spans /\ stride[j] \in Nat \ {0}
                               /\ p[j] \in Int /\ Holds(box[j], p[j])
  PROVE  \E t \in Tiles(box, stride) : \A j \in DOMAIN box : Holds(t[j], p[j])
<1> DEFINE t == [j \in DOMAIN box |-> CHOOSE u \in Along(box, stride, j) : Holds(u, p[j])]
<1>1. \A j \in DOMAIN box : t[j] \in Along(box, stride, j) /\ Holds(t[j], p[j])
  BY AlongCovers
<1>2. Tiles(box, stride)
        = {u \in [DOMAIN box -> UNION {Along(box, stride, j) : j \in DOMAIN box}] :
             \A j \in DOMAIN box : u[j] \in Along(box, stride, j)}
  BY Zenon DEF Tiles, Along
<1> HIDE DEF t
<1>3. t \in [DOMAIN box -> UNION {Along(box, stride, j) : j \in DOMAIN box}]
  <2>1. t = [j \in DOMAIN box |-> t[j]]
    BY DEF t
  <2> QED
    BY <1>1, <2>1
<1>4. t \in Tiles(box, stride)
  BY <1>1, <1>2, <1>3
<1> QED
  BY <1>1, <1>4

LEMMA SomeRegion ==
  ASSUME NEW c, NEW d, Sound(c, d)
  PROVE  1 \in DOMAIN Regions(c)
<1> DEFINE box == ScanBox(c)
           stride == StrideIn(box, c.region, c.rank)
           tiles == Tiles(box, stride)
           p == [j \in 1 .. d |-> box[j].lo]
<1>0. Dims(c) = 1 .. d
  BY DimsAre DEF Sound
<1>1. DOMAIN box = 1 .. d /\ \A j \in 1 .. d : box[j] \in Spans /\ stride[j] \in Nat \ {0}
  BY ScanBoxIs
<1>2. ASSUME NEW j \in 1 .. d PROVE Holds(box[j], box[j].lo) /\ box[j].lo \in Int
  <2> DEFINE more == IF c.wf_steps > 0 /\ c.right_wf_exts[j] = 0 THEN c.wf_shift_pts[j] ELSE 0
  <2>1. c.wf_shift_pts[j] \in Nat /\ c.ext_bb[j] \in Spans /\ c.ext_bb[j].lo < c.ext_bb[j].hi
    BY DEF Sound, Waved, Bounded
  <2>2. more \in Nat
    BY <2>1
  <2>3. box[j] = [c.ext_bb[j] EXCEPT !.hi = @ + more]
    BY <1>0 DEF ScanBox
  <2> HIDE DEF more, box
  <2>4. box[j].lo = c.ext_bb[j].lo /\ box[j].hi = c.ext_bb[j].hi + more
        /\ c.ext_bb[j].lo \in Int /\ c.ext_bb[j].hi \in Int
    BY <2>1, <2>3 DEF Spans
  <2> QED
    BY <2>1, <2>2, <2>4 DEF Holds
<1> HIDE DEF box, stride
<1>3. \E t \in tiles : TRUE
  <2>1. \A j \in DOMAIN box : /\ box[j] \in Spans /\ stride[j] \in Nat \ {0}
                              /\ p[j] \in Int /\ Holds(box[j], p[j])
    BY <1>1, <1>2
  <2> HIDE DEF p
  <2>2. \E t \in Tiles(box, stride) : \A j \in DOMAIN box : Holds(t[j], p[j])
    BY <2>1, TilesCover
  <2> QED
    BY <2>2
<1>4. Cardinality(tiles) \in Nat /\ Regions(c) \in [1 .. Cardinality(tiles) -> tiles]
  BY RegionsAre DEF box, stride
<1>5. IsFiniteSet(tiles)
  <2>1. IsFiniteSet(DOMAIN box)
    BY <1>1, FS_Interval DEF Sound, Adjusted
  <2> QED
    BY <1>1, <2>1, FiniteTiles
<1> HIDE DEF tiles
<1>6. Cardinality(tiles) # 0
  BY <1>3, <1>5, FS_EmptySet
<1> QED
  BY <1>4, <1>6

LEMMA SomeLayer ==
  ASSUME NEW c, NEW d, Sound(c, d)
  PROVE  1 \in 1 .. Len(Layers(c))
<1> DEFINE T == Len(c.valid)
           N == TupleSum(c.valid)
           K == CeilDiv(T, c.tb_steps)
           ones == [i \in 1 .. N |-> 1]
           chunks == [i \in 1 .. K |-> TupleSum(ChunkOf(c, i))]
<1>1. c.valid \in Seq(Nat) /\ T \in Nat /\ c.tb_steps \in Nat /\ c.wf_steps \in Nat
      /\ c.tb_steps <= c.wf_steps /\ c.packs \in Nat
      /\ (\A i \in 1 .. T : c.valid[i] <= c.packs) /\ N > 0
  BY DEF Sound, Adjusted, StrideFits, Waved, Tempered
<1>2. Layers(c) = CASE c.wf_steps = 0 -> <<1>>
                    [] c.wf_steps > 0 /\ c.tb_steps = 0 -> ones
                    [] OTHER -> chunks
  BY Zenon DEF Layers, ChunkOf
<1>3. N \in Nat /\ N <= c.packs * T
  BY <1>1, SumBound
<1>4. T > 0
  <2> SUFFICES ASSUME T = 0 PROVE FALSE
    BY <1>1
  <2>1. c.packs * 0 = 0
    BY <1>1
  <2> QED
    BY <1>1, <1>3, <2>1
<1> HIDE DEF N, T
<1>5. CASE c.wf_steps = 0
  <2>1. Layers(c) = <<1>>
    BY <1>2, <1>5
  <2> QED
    BY <2>1
<1>6. CASE c.wf_steps > 0 /\ c.tb_steps = 0
  <2>1. Layers(c) = ones
    <3>1. c.wf_steps # 0
      BY <1>1, <1>6
    <3> HIDE DEF ones, chunks
    <3> QED
      BY <1>2, <1>6, <3>1
  <2>2. Len(ones) = N
    BY <1>3
  <2> HIDE DEF ones
  <2> QED
    BY <1>1, <1>3, <2>1, <2>2
<1>7. CASE c.tb_steps > 0
  <2>1. Layers(c) = chunks
    <3>1. c.wf_steps # 0 /\ c.tb_steps # 0
      BY <1>1, <1>7
    <3> HIDE DEF ones, chunks
    <3> QED
      BY <1>2, <3>1
  <2>2. 0 \in 0 .. K - 1
    <3> DEFINE none == 0
    <3>1. none \in Nat /\ none * c.tb_steps < T
      BY <1>1, <1>4
    <3>2. T \in Nat /\ c.tb_steps \in Nat \ {0}
      BY <1>1, <1>7
    <3> HIDE DEF none
    <3>3. none \in 0 .. K - 1
      BY <3>1, <3>2, CeilDivReach
    <3> QED
      BY <3>3 DEF none
  <2>3. K \in Nat
    <3>1. T + c.tb_steps - 1 \in Nat /\ c.tb_steps \in Nat \ {0}
      BY <1>1, <1>7
    <3>2. K = (T + c.tb_steps - 1) \div c.tb_steps
      BY DEF CeilDiv
    <3> HIDE DEF K
    <3> QED
      BY <3>1, <3>2, DivMod
  <2> HIDE DEF K
  <2>4. Len(chunks) = K
    BY <2>3
  <2> HIDE DEF chunks
  <2> QED
    BY <2>1, <2>2, <2>3, <2>4
<1> QED
  BY <1>1, <1>5, <1>6, <1>7

-----------------------------------------------------------------------------
(* The inductive invariant: the loops are where some layer of some region  *)
(* is, and what the threads have left is of that layer's evaluations.      *)
InLoops ==
  /\ ctx \in {Context(s) : s \in Settings}
  /\ region \in 1 .. Len(Regions(ctx))
  /\ layer \in 1 .. Len(Layers(ctx))
  /\ phase \in 0 .. NumPhases(ctx) - 1

WorkLeft ==
  ~ThreadsSynced =>
    LET work == Work(ctx, section, region, layer, phase)
    IN /\ DOMAIN todo = DOMAIN work
       /\ \A b \in DOMAIN todo : todo[b] \in Seq({work[b][i] : i \in DOMAIN work[b]})

TilingInv == InLoops /\ WorkLeft

(* What is left of layer "l" of region "r" in section "s".                 *)
BaseOf(c, s, r, l) == RegionBase(c, Sections(c)[s], Regions(c)[r], RegionShiftNum(c, l))
Share(c, s, r, l, ph, blk) ==
  {e \in EvaluationsOf(c, Sections(c)[s], Regions(c)[r], BaseOf(c, s, r, l),
                       RegionShiftNum(c, l), Layers(c)[l], ph, blk) : NonEmpty(e.box)}

LEMMA WorkIs ==
  ASSUME NEW c, NEW d, Sound(c, d), NEW s, NEW r \in DOMAIN Regions(c),
         NEW l \in 1 .. Len(Layers(c)), NEW ph
  PROVE  /\ DOMAIN Work(c, s, r, l, ph) = Blocks(c, BaseOf(c, s, r, l))
         /\ \A b \in Blocks(c, BaseOf(c, s, r, l)) :
              Work(c, s, r, l, ph)[b] \in Seq(Share(c, s, r, l, ph, b))
<1> DEFINE sec == Sections(c)[s]
           rgn == Regions(c)[r]
           shift == RegionShiftNum(c, l)
           base == BaseOf(c, s, r, l)
           nlevels == Layers(c)[l]
<1>1. Work(c, s, r, l, ph)
        = [blk \in Blocks(c, base) |-> Evaluations(c, sec, rgn, base, shift, nlevels, ph, blk)]
  BY Zenon DEF Work, BaseOf
<1>2. rgn \in [1 .. d -> Spans] /\ shift \in Nat
  <2>1. rgn \in [1 .. d -> Spans]
    BY RegionsAre
  <2>2. shift \in Nat
    BY RegionShiftIs
  <2> QED
    BY <2>1, <2>2
<1>3. base \in [1 .. d -> Spans]
  <2>1. RegionBase(c, sec, rgn, shift) \in [1 .. d -> Spans]
    BY <1>2, BaseSpans
  <2> QED
    BY <2>1 DEF BaseOf
<1>4. nlevels \in Nat
  BY LayersAre
<1>5. ASSUME NEW b \in Blocks(c, base)
      PROVE  Evaluations(c, sec, rgn, base, shift, nlevels, ph, b) \in Seq(Share(c, s, r, l, ph, b))
  <2> DEFINE S == {e \in EvaluationsOf(c, sec, rgn, base, shift, nlevels, ph, b) : NonEmpty(e.box)}
  <2>1. b \in [1 .. d -> Spans]
    BY <1>3, BlocksAre
  <2>2. Share(c, s, r, l, ph, b) = S
    BY Zenon DEF Share
  <2> HIDE DEF sec, rgn, shift, base, nlevels
  <2>3. Evaluations(c, sec, rgn, base, shift, nlevels, ph, b) \in Seq(S)
    BY <1>4, <2>1, EvaluationsAre
  <2> QED
    BY <2>2, <2>3
<1> HIDE DEF sec, rgn, shift, nlevels
<1> QED
  BY <1>1, <1>5

(* The context is sound.                                                   *)
LEMMA SoundContext ==
  ASSUME ctx \in {Context(s) : s \in Settings}
  PROVE  \E d \in Nat : Sound(ctx, d) /\ d = Len(ctx.rank)
<1>1. PICK s \in Settings : ctx = Context(s)
  OBVIOUS
<1> DEFINE d == Len(s.rank)
<1>2. d \in Nat /\ GoodSettings(s, d)
  <2>1. s.rank \in Seq(Nat \ {0}) /\ s \in RankSettings(d)
        /\ (\A i \in DOMAIN s.valid : s.valid[i] <= s.packs) /\ TupleSum(s.valid) > 0
        /\ Len(s.valid) <= Max({1, s.region_steps, s.block_steps})
    BY SettingsAssumption, Zenon
  <2>2. d \in Nat
    BY <2>1
  <2> QED
    BY <2>1, <2>2 DEF GoodSettings
<1> HIDE DEF d
<1>3. Sound(Context(s), d)
  BY <1>2, ContextIs
<1>4. Sound(ctx, d)
  BY <1>1, <1>3
<1>5. Len(ctx.rank) = d
  <2>1. ctx.rank \in [1 .. d -> Nat \ {0}]
    BY <1>4 DEF Sound, Adjusted, Sizes
  <2> QED
    BY <1>2, <2>1
<1> QED
  BY <1>2, <1>4, <1>5

(* A layer of a region starts with all of its work.                        *)
LEMMA StartLeavesAll ==
  ASSUME ctx \in {Context(s) : s \in Settings}, NEW s, NEW r \in DOMAIN Regions(ctx),
         NEW l \in 1 .. Len(Layers(ctx)), NEW ph, NEW work, work = Work(ctx, s, r, l, ph)
  PROVE  \A b \in DOMAIN work : work[b] \in Seq({work[b][i] : i \in DOMAIN work[b]})
<1>1. PICK d \in Nat : Sound(ctx, d)
  BY SoundContext
<1>2. TAKE b \in DOMAIN work
<1> DEFINE S == Share(ctx, s, r, l, ph, b)
           w == work[b]
<1>3. w \in Seq(S)
  BY <1>1, WorkIs
<1> HIDE DEF S, w
<1>4. Len(w) \in Nat /\ DOMAIN w = 1 .. Len(w) /\ w = [i \in 1 .. Len(w) |-> w[i]]
  BY <1>3
<1>5. w \in Seq({w[i] : i \in DOMAIN w})
  BY <1>4
<1> QED
  BY <1>5 DEF w

LEMMA FirstPhase ==
  ASSUME ctx \in {Context(s) : s \in Settings}
  PROVE  NumPhases(ctx) \in Nat /\ 0 \in 0 .. NumPhases(ctx) - 1
<1>1. PICK d \in Nat : Sound(ctx, d) /\ d = Len(ctx.rank)
  BY SoundContext
<1> QED
  BY <1>1 DEF NumPhases

(* Regions and layers are counted from 1.                                  *)
LEMMA FirstLoops ==
  ASSUME ctx \in {Context(s) : s \in Settings}
  PROVE  /\ DOMAIN Regions(ctx) = 1 .. Len(Regions(ctx)) /\ Len(Regions(ctx)) \in Nat
         /\ 1 \in 1 .. Len(Regions(ctx))
         /\ Len(Layers(ctx)) \in Nat /\ 1 \in 1 .. Len(Layers(ctx))
<1>1. PICK d \in Nat : Sound(ctx, d)
  BY SoundContext
<1>2. DOMAIN Regions(ctx) = 1 .. Len(Regions(ctx)) /\ Len(Regions(ctx)) \in Nat
  <2> DEFINE tiles == Tiles(ScanBox(ctx), StrideIn(ScanBox(ctx), ctx.region, ctx.rank))
  <2>1. Cardinality(tiles) \in Nat /\ Regions(ctx) \in [1 .. Cardinality(tiles) -> tiles]
    BY <1>1, RegionsAre
  <2> HIDE DEF tiles
  <2> QED
    BY <2>1
<1>3. 1 \in DOMAIN Regions(ctx)
  BY <1>1, SomeRegion
<1>4. Layers(ctx) \in Seq(Nat)
  BY <1>1, LayersAre
<1>5. 1 \in 1 .. Len(Layers(ctx))
  BY <1>1, SomeLayer
<1> QED
  BY <1>2, <1>3, <1>4, <1>5

LEMMA StartKeepsInv ==
  ASSUME TilingInv, NEW s, NEW r \in 1 .. Len(Regions(ctx)), NEW l \in 1 .. Len(Layers(ctx)),
         NEW ph \in 0 .. NumPhases(ctx) - 1, Start(s, r, l, ph)
  PROVE  TilingInv'
<1>1. /\ section' = s /\ region' = r /\ layer' = l /\ phase' = ph /\ ctx' = ctx
      /\ todo' = Work(ctx, s, r, l, ph) /\ ctx \in {Context(x) : x \in Settings}
  BY DEF Start, TilingInv, InLoops
<1>2. InLoops'
  BY <1>1 DEF InLoops
<1> DEFINE work == Work(ctx, s, r, l, ph)
<1>3. \A b \in DOMAIN work : work[b] \in Seq({work[b][i] : i \in DOMAIN work[b]})
  BY <1>1, FirstLoops, StartLeavesAll
<1>4. WorkLeft'
  <2>1. Work(ctx, section, region, layer, phase)' = work
    BY <1>1
  <2>2. todo' = work
    BY <1>1
  <2> HIDE DEF work
  <2>3. DOMAIN todo' = DOMAIN work
        /\ \A b \in DOMAIN todo' : todo'[b] \in Seq({work[b][i] : i \in DOMAIN work[b]})
    BY <1>3, <2>2
  <2> QED
    BY <2>1, <2>3 DEF WorkLeft
<1> QED
  BY <1>2, <1>4 DEF TilingInv

(* The loops stay in their ranges, and a thread has left only what it      *)
(* started with.                                                           *)
LEMMA InitTilingInv == Init => TilingInv
<1> SUFFICES ASSUME Init PROVE TilingInv
  OBVIOUS
<1>1. /\ ctx \in {Context(s) : s \in Settings}
      /\ section = 1 /\ region = 1 /\ layer = 1 /\ phase = 0 /\ todo = Work(ctx, 1, 1, 1, 0)
  BY DEF Init
<1>2. InLoops
  <2>1. 1 \in 1 .. Len(Regions(ctx)) /\ 1 \in 1 .. Len(Layers(ctx))
        /\ 0 \in 0 .. NumPhases(ctx) - 1
    <3>1. ctx \in {Context(s) : s \in Settings}
      BY <1>1
    <3> QED
      BY <3>1, FirstLoops, FirstPhase
  <2>2. region \in 1 .. Len(Regions(ctx)) /\ layer \in 1 .. Len(Layers(ctx))
        /\ phase \in 0 .. NumPhases(ctx) - 1
    BY <1>1, <2>1
  <2> QED
    BY <1>1, <2>2 DEF InLoops
<1> DEFINE work == Work(ctx, section, region, layer, phase)
<1>3. \A b \in DOMAIN work : work[b] \in Seq({work[b][i] : i \in DOMAIN work[b]})
  <2>1. ctx \in {Context(s) : s \in Settings}
    BY <1>1
  <2>2. region \in DOMAIN Regions(ctx) /\ layer \in 1 .. Len(Layers(ctx))
    BY <1>1, <2>1, FirstLoops
  <2> HIDE DEF work
  <2>3. work = Work(ctx, section, region, layer, phase)
    BY DEF work
  <2> QED
    BY <2>1, <2>2, <2>3, StartLeavesAll
<1>4. WorkLeft
  <2>1. Work(ctx, section, region, layer, phase) = work /\ todo = work
    BY <1>1
  <2> HIDE DEF work
  <2> QED
    BY <1>3, <2>1 DEF WorkLeft
<1> QED
  BY <1>2, <1>4 DEF TilingInv

LEMMA NextTilingInv == TilingInv /\ [Next]_vars => TilingInv'
<1> SUFFICES ASSUME TilingInv, [Next]_vars PROVE TilingInv'
  OBVIOUS
<1>0. /\ ctx \in {Context(s) : s \in Settings}
      /\ region \in 1 .. Len(Regions(ctx)) /\ layer \in 1 .. Len(Layers(ctx))
      /\ phase \in 0 .. NumPhases(ctx) - 1
  BY DEF TilingInv, InLoops
<1>1. ASSUME NEW b \in DOMAIN todo, CalcMiniBlock(b) PROVE TilingInv'
  <2>1. /\ todo[b] # << >> /\ todo' = [todo EXCEPT ![b] = Tail(@)]
        /\ ctx' = ctx /\ section' = section /\ region' = region /\ layer' = layer /\ phase' = phase
    BY <1>1 DEF CalcMiniBlock
  <2>2. InLoops'
    BY <1>0, <2>1 DEF InLoops
  <2>3. ~ThreadsSynced
    BY <2>1 DEF ThreadsSynced
  <2> DEFINE work == Work(ctx, section, region, layer, phase)
             Rest(a) == {work[a][i] : i \in DOMAIN work[a]}
  <2>4. DOMAIN todo = DOMAIN work /\ \A a \in DOMAIN todo : todo[a] \in Seq(Rest(a))
    BY <2>3 DEF TilingInv, WorkLeft
  <2>5. Work(ctx, section, region, layer, phase)' = work
    BY <2>1
  <2> HIDE DEF work
  <2>6. DOMAIN todo' = DOMAIN work /\ \A a \in DOMAIN todo' : todo'[a] \in Seq(Rest(a))
    <3> HIDE DEF Rest
    <3>1. Tail(todo[b]) \in Seq(Rest(b))
      BY <2>1, <2>4
    <3> QED
      BY <2>1, <2>4, <3>1
  <2>7. WorkLeft'
    BY <2>5, <2>6 DEF WorkLeft
  <2> QED
    BY <2>2, <2>7 DEF TilingInv
<1>2. CASE NextPhase
  <2>1. Start(section, region, layer, phase + 1) /\ phase + 1 # NumPhases(ctx)
    BY <1>2 DEF NextPhase, LastPhase
  <2>2. NumPhases(ctx) \in Nat
    BY <1>0, FirstPhase
  <2>3. phase + 1 \in 0 .. NumPhases(ctx) - 1
    BY <1>0, <2>1, <2>2
  <2> QED
    BY <1>0, <2>1, <2>3, StartKeepsInv
<1>3. CASE NextLayer
  <2>1. Start(section, region, layer + 1, 0) /\ layer # Len(Layers(ctx))
    BY <1>3 DEF NextLayer, LastLayer
  <2>2. layer + 1 \in 1 .. Len(Layers(ctx)) /\ 0 \in 0 .. NumPhases(ctx) - 1
    BY <1>0, <2>1, FirstLoops, FirstPhase
  <2> QED
    BY <1>0, <2>1, <2>2, StartKeepsInv
<1>4. CASE NextRegion
  <2>1. Start(section, region + 1, 1, 0) /\ region # Len(Regions(ctx))
    BY <1>4 DEF NextRegion, LastRegion
  <2>2. region + 1 \in 1 .. Len(Regions(ctx)) /\ 1 \in 1 .. Len(Layers(ctx))
        /\ 0 \in 0 .. NumPhases(ctx) - 1
    BY <1>0, <2>1, FirstLoops, FirstPhase
  <2> QED
    BY <1>0, <2>1, <2>2, StartKeepsInv
<1>5. CASE NextSection
  <2>1. CASE section < Len(Sections(ctx))
    <3>1. Start(section + 1, 1, 1, 0)
      BY <1>5, <2>1 DEF NextSection
    <3>2. 1 \in 1 .. Len(Regions(ctx)) /\ 1 \in 1 .. Len(Layers(ctx))
          /\ 0 \in 0 .. NumPhases(ctx) - 1
      BY <1>0, FirstLoops, FirstPhase
    <3> QED
      BY <3>1, <3>2, StartKeepsInv
  <2>2. CASE ~(section < Len(Sections(ctx)))
    <3>1. ThreadsSynced /\ UNCHANGED <<ctx, region, layer, phase, todo, level>>
      BY <1>5, <2>2 DEF NextSection
    <3>2. InLoops'
      BY <1>0, <3>1 DEF InLoops
    <3>3. ThreadsSynced'
      BY <3>1 DEF ThreadsSynced
    <3>4. WorkLeft'
      BY <3>3 DEF WorkLeft
    <3> QED
      BY <3>2, <3>4 DEF TilingInv
  <2> QED
    BY <2>1, <2>2
<1>6. CASE UNCHANGED vars
  <2>1. /\ ctx' = ctx /\ section' = section /\ region' = region /\ layer' = layer
        /\ phase' = phase /\ todo' = todo
    BY <1>6 DEF vars
  <2>2. InLoops'
    BY <1>0, <2>1 DEF InLoops
  <2>3. WorkLeft'
    <3>1. ThreadsSynced' <=> ThreadsSynced
      BY <2>1 DEF ThreadsSynced
    <3>2. Work(ctx, section, region, layer, phase)' = Work(ctx, section, region, layer, phase)
      BY <2>1
    <3>3. WorkLeft
      BY DEF TilingInv
    <3> QED
      BY <2>1, <3>1, <3>2, <3>3 DEF WorkLeft
  <2> QED
    BY <2>2, <2>3 DEF TilingInv
<1>7. CASE Returned
  BY <1>6, <1>7 DEF Returned
<1> QED
  BY <1>1, <1>2, <1>3, <1>4, <1>5, <1>6, <1>7 DEF Next

(* The loops of run_solution() and calc_region() stay in their ranges, and *)
(* each thread has left only evaluations of its own block.                 *)
THEOREM TilingInvariant == Spec => []TilingInv
BY InitTilingInv, NextTilingInv, PTL DEF Spec

-----------------------------------------------------------------------------
(* Boxes that are apart, by the halo if their levels differ, are no        *)
(* conflict.                                                               *)
LEMMA ApartIsNoConflict ==
  ASSUME NEW d, NEW i \in 1 .. d, NEW x \in [1 .. d -> Spans], NEW y \in [1 .. d -> Spans],
         NEW h \in Nat, NEW w \in Nat, w <= h, Apart(x[i], y[i], h),
         NEW z, z.lo = x[i].lo - w, z.hi = x[i].hi + w
  PROVE  Cap(z, y[i]).lo >= Cap(z, y[i]).hi
<1>1. /\ x[i].lo \in Int /\ x[i].hi \in Int /\ y[i].lo \in Int /\ y[i].hi \in Int
  BY DEF Spans
<1>2. z.lo \in Int /\ z.hi \in Int
  BY <1>1
<1>3. /\ Cap(z, y[i]).lo = IF z.lo >= y[i].lo THEN z.lo ELSE y[i].lo
      /\ Cap(z, y[i]).hi = IF z.hi <= y[i].hi THEN z.hi ELSE y[i].hi
  BY <1>1, <1>2, MaxOfTwo, MinOfTwo DEF Cap
<1>4. x[i].hi + h <= y[i].lo \/ y[i].hi + h <= x[i].lo
  BY DEF Apart
<1> DEFINE xlo == x[i].lo
           xhi == x[i].hi
           ylo == y[i].lo
           yhi == y[i].hi
           zlo == z.lo
           zhi == z.hi
<1>5. /\ xlo \in Int /\ xhi \in Int /\ ylo \in Int /\ yhi \in Int
      /\ zlo = xlo - w /\ zhi = xhi + w
      /\ (xhi + h <= ylo \/ yhi + h <= xlo)
  BY <1>1, <1>4
<1> HIDE DEF xlo, xhi, ylo, yhi
<1>6. zhi <= ylo \/ yhi <= zlo
  BY <1>5
<1> QED
  BY <1>1, <1>2, <1>3, <1>5, <1>6 DEF ylo, yhi

LEMMA EvaluationBox ==
  ASSUME NEW c, NEW d, NEW sec, NEW r, NEW l, NEW ph, NEW rgn, NEW shift, NEW base,
         LoopsAt(c, d, sec, r, l, ph, rgn, shift, base), NEW blk \in Blocks(c, base),
         NEW e \in EvaluationsOf(c, sec, rgn, base, shift, Layers(c)[l], ph, blk),
         NonEmpty(e.box)
  PROVE  e.box \in [1 .. d -> Spans]
<1>1. PICK A \in kSubset(ph, 1 .. d), n \in Nat : \E box, s :
        InShape(e, c, d, base, shift, blk, A, n, box, s)
  BY EvaluationInShape
<1> QED
  BY <1>1 DEF InShape

(* Blocks of one phase are independent: no box that the thread of one      *)
(* block has still to evaluate meets, or is at another level within the    *)
(* halo of, one that the thread of another block has still to evaluate.    *)
LEMMA InvBlocksIndependent ==
  ASSUME TilingInv, WideRemainders(ctx)
  PROVE  BlocksIndependent
<1>0. /\ ctx \in {Context(s) : s \in Settings}
      /\ region \in 1 .. Len(Regions(ctx)) /\ layer \in 1 .. Len(Layers(ctx))
      /\ phase \in 0 .. NumPhases(ctx) - 1
  BY DEF TilingInv, InLoops
<1>1. PICK d \in Nat : Sound(ctx, d)
  BY <1>0, SoundContext
<1>2. Dims(ctx) = 1 .. d /\ \A j \in 1 .. d : ctx.max_halo[j] \in Nat
  BY <1>1, DimsAre DEF Sound, Adjusted
<1> DEFINE sec == Sections(ctx)[section]
           rgn == Regions(ctx)[region]
           shift == RegionShiftNum(ctx, layer)
           base == BaseOf(ctx, section, region, layer)
           Of(b) == EvaluationsOf(ctx, sec, rgn, base, shift, Layers(ctx)[layer], phase, b)
           work == Work(ctx, section, region, layer, phase)
<1>3. LoopsAt(ctx, d, sec, region, layer, phase, rgn, shift, base)
  <2>1. region \in DOMAIN Regions(ctx)
    BY <1>0, FirstLoops
  <2> QED
    BY <1>0, <1>1, <2>1, Zenon DEF LoopsAt, BaseOf
<1> SUFFICES ASSUME NEW b \in DOMAIN todo, NEW c \in DOMAIN todo, b # c,
                    NEW i \in DOMAIN todo[b], NEW k \in DOMAIN todo[c]
             PROVE  LET e == todo[b][i]
                        f == todo[c][k]
                        zone == IF e.level = f.level THEN e.box ELSE Around(ctx, e.box)
                    IN ~NonEmpty([j \in Dims(ctx) |-> Cap(zone[j], f.box[j])])
  BY DEF BlocksIndependent
<1> DEFINE e == todo[b][i]
           f == todo[c][k]
           zone == IF e.level = f.level THEN e.box ELSE Around(ctx, e.box)
           common == [j \in Dims(ctx) |-> Cap(zone[j], f.box[j])]
<1>4. ~ThreadsSynced
  <2>1. todo[b] # << >>
    OBVIOUS
  <2> QED
    BY <2>1 DEF ThreadsSynced
<1>5. /\ DOMAIN todo = DOMAIN work
      /\ \A a \in DOMAIN todo : todo[a] \in Seq({work[a][x] : x \in DOMAIN work[a]})
  BY <1>4 DEF TilingInv, WorkLeft
<1>6. /\ DOMAIN work = Blocks(ctx, base)
      /\ \A a \in Blocks(ctx, base) : work[a] \in Seq(Share(ctx, section, region, layer, phase, a))
  <2>1. region \in DOMAIN Regions(ctx)
    BY <1>0, FirstLoops
  <2> QED
    BY <1>0, <1>1, <2>1, WorkIs
<1> HIDE DEF work
<1>7. ASSUME NEW a \in DOMAIN todo, NEW x \in DOMAIN todo[a]
      PROVE  a \in Blocks(ctx, base) /\ todo[a][x] \in Of(a) /\ NonEmpty(todo[a][x].box)
  <2> DEFINE S == Share(ctx, section, region, layer, phase, a)
             R == {work[a][z] : z \in DOMAIN work[a]}
  <2>1. a \in Blocks(ctx, base) /\ work[a] \in Seq(S) /\ todo[a] \in Seq(R)
    BY <1>5, <1>6
  <2>2. R \subseteq S
    <3> HIDE DEF S
    <3> QED
      BY <2>1
  <2>3. todo[a][x] \in R
    <3> HIDE DEF R
    <3> QED
      BY <2>1
  <2>4. S = {v \in Of(a) : NonEmpty(v.box)}
    BY Zenon DEF Share
  <2> HIDE DEF S, R, Of
  <2> QED
    BY <2>1, <2>2, <2>3, <2>4
<1>8. b \in Blocks(ctx, base) /\ e \in Of(b) /\ NonEmpty(e.box)
  BY <1>7
<1>9. c \in Blocks(ctx, base) /\ f \in Of(c) /\ NonEmpty(f.box)
  BY <1>7
<1> HIDE DEF sec, rgn, shift, base
<1>10. PICK j \in 1 .. d :
         Apart(e.box[j], f.box[j], IF e.level = f.level THEN 0 ELSE ctx.max_halo[j])
  <2> HIDE DEF e, f
  <2>1. \E j \in 1 .. d :
          Apart(e.box[j], f.box[j], IF e.level = f.level THEN 0 ELSE ctx.max_halo[j])
    BY <1>3, <1>8, <1>9, EvaluationsApart
  <2> QED
    BY <2>1
<1>11. e.box \in [1 .. d -> Spans] /\ f.box \in [1 .. d -> Spans]
  <2> HIDE DEF e, f
  <2>1. e.box \in [1 .. d -> Spans]
    BY <1>3, <1>8, EvaluationBox
  <2>2. f.box \in [1 .. d -> Spans]
    BY <1>3, <1>9, EvaluationBox
  <2> QED
    BY <2>1, <2>2
<1> HIDE DEF e, f
<1> DEFINE u == e.box
           v == f.box
           h == IF e.level = f.level THEN 0 ELSE ctx.max_halo[j]
<1>12. h \in Nat /\ Apart(u[j], v[j], h) /\ u \in [1 .. d -> Spans] /\ v \in [1 .. d -> Spans]
  BY <1>2, <1>10, <1>11
<1>13. zone[j].lo = u[j].lo - h /\ zone[j].hi = u[j].hi + h
  <2>1. u[j].lo \in Int /\ u[j].hi \in Int
    BY <1>11 DEF Spans
  <2>2. CASE e.level = f.level
    <3>1. zone = u /\ h = 0
      BY <2>2
    <3> HIDE DEF zone, u, h
    <3> QED
      BY <2>1, <3>1
  <2>3. CASE e.level # f.level
    <3>1. zone = Around(ctx, u) /\ h = ctx.max_halo[j]
      BY <2>3
    <3> HIDE DEF zone, u, h
    <3> QED
      BY <1>2, <3>1 DEF Around
  <2> QED
    BY <2>2, <2>3
<1> HIDE DEF zone, u, h
<1>14. Cap(zone[j], v[j]).lo >= Cap(zone[j], v[j]).hi
  <2> DEFINE z == zone[j]
  <2>1. z.lo = u[j].lo - h /\ z.hi = u[j].hi + h /\ h <= h
    BY <1>12, <1>13
  <2> HIDE DEF z
  <2>2. Cap(z, v[j]).lo >= Cap(z, v[j]).hi
    <3> HIDE DEF v
    <3> QED
      BY <1>12, <2>1, ApartIsNoConflict
  <2> QED
    BY <2>2 DEF z
<1>15. common[j] = Cap(zone[j], v[j]) /\ j \in DOMAIN common
  BY <1>2
<1>16. ~NonEmpty(common)
  <2>1. Cap(zone[j], v[j]).lo \in Int /\ Cap(zone[j], v[j]).hi \in Int
    <3> DEFINE z == zone[j]
    <3>1. z.lo \in Int /\ z.hi \in Int /\ v[j].lo \in Int /\ v[j].hi \in Int
      BY <1>12, <1>13 DEF Spans
    <3> HIDE DEF z, v
    <3>2. Cap(z, v[j]).lo \in Int /\ Cap(z, v[j]).hi \in Int
      BY <3>1, MaxOfTwo, MinOfTwo DEF Cap
    <3> QED
      BY <3>2 DEF z
  <2> HIDE DEF common, v
  <2>2. ~(common[j].lo < common[j].hi)
    BY <1>14, <1>15, <2>1
  <2> QED
    BY <1>15, <2>2 DEF NonEmpty
<1> QED
  BY <1>16 DEF common, zone, e, f

(* No two blocks of a phase depend on each other: calc_region() may run    *)
(* them concurrently, if no remainder block is too narrow for its bridge.  *)
THEOREM BlocksAreIndependent == Spec => [](WideRemainders(ctx) => BlocksIndependent)
<1>1. TilingInv => (WideRemainders(ctx) => BlocksIndependent)
  BY InvBlocksIndependent
<1> QED
  BY <1>1, TilingInvariant, PTL

-----------------------------------------------------------------------------
(* What a region holds after n shifts: its shifted tile, as far as the     *)
(* extensions still reach and the section goes.                            *)
LEMMA CapHolds ==
  ASSUME NEW a \in Spans, NEW b \in Spans, NEW x \in Int
  PROVE  Holds(Cap(a, b), x) <=> Holds(a, x) /\ Holds(b, x)
<1>1. a.lo \in Int /\ a.hi \in Int /\ b.lo \in Int /\ b.hi \in Int
  BY DEF Spans
<1>2. /\ Cap(a, b).lo = IF a.lo >= b.lo THEN a.lo ELSE b.lo
      /\ Cap(a, b).hi = IF a.hi <= b.hi THEN a.hi ELSE b.hi
  BY <1>1, MaxOfTwo, MinOfTwo DEF Cap
<1> QED
  BY <1>1, <1>2 DEF Holds

Levels(c) == 0 .. WfShifts(c)

LEMMA SlopeIs ==
  ASSUME NEW c, NEW d, Sound(c, d), NEW j \in 1 .. d, NEW n \in Levels(c)
  PROVE  /\ n \in Nat /\ c.wf_angles[j] \in Nat /\ c.wf_angles[j] * n \in Nat
         /\ c.wf_shift_pts[j] \in Nat
         /\ c.wf_angles[j] * n <= c.wf_shift_pts[j]
         /\ c.wf_steps = 0 => n = 0 /\ c.wf_shift_pts[j] = 0
<1>1. /\ WfShifts(c) \in Nat /\ c.wf_angles[j] \in Nat /\ c.wf_shift_pts[j] \in Nat
      /\ c.wf_shift_pts[j] = c.wf_angles[j] * WfShifts(c)
  BY DEF Sound, Waved, Fronted
<1>2. n \in Nat /\ n <= WfShifts(c)
  BY <1>1 DEF Levels
<1>3. CASE n = WfShifts(c)
  <2>1. c.wf_angles[j] * n = c.wf_shift_pts[j]
    BY <1>1, <1>3
  <2>2. c.wf_steps = 0 => WfShifts(c) = 0
    BY DEF WfShifts
  <2>3. WfShifts(c) = 0 => c.wf_angles[j] * WfShifts(c) = 0
    BY <1>1
  <2> QED
    BY <1>1, <1>2, <1>3, <2>1, <2>2, <2>3
<1>4. CASE n # WfShifts(c)
  <2>1. n < WfShifts(c)
    BY <1>1, <1>2, <1>4
  <2>2. c.wf_angles[j] * n \in Nat /\ c.wf_angles[j] * WfShifts(c) \in Nat
        /\ c.wf_angles[j] * n + c.wf_angles[j] <= c.wf_angles[j] * WfShifts(c)
    BY <1>1, <1>2, <2>1, TimesMonotone
  <2>3. c.wf_steps # 0
    BY <1>2, <2>1 DEF WfShifts
  <2> QED
    BY <1>1, <1>2, <2>2, <2>3
<1> QED
  BY <1>3, <1>4

(* The extensions lose an angle at every level on the sides of neighbours. *)
Reach(c, n, j) ==
  [lo |-> c.ext_bb[j].lo + (IF c.left[j] THEN c.wf_angles[j] * n ELSE 0),
   hi |-> c.ext_bb[j].hi - (IF c.right[j] THEN c.wf_angles[j] * n ELSE 0)]

LEMMA ReachIs ==
  ASSUME NEW c, NEW d, Sound(c, d), NEW j \in 1 .. d, NEW n \in Levels(c)
  PROVE  /\ Reach(c, n, j) \in Spans
         /\ Reach(c, n, j).lo \in Int /\ Reach(c, n, j).hi \in Int
         /\ c.ext_bb[j].lo <= Reach(c, n, j).lo /\ Reach(c, n, j).lo <= 0
         /\ Reach(c, n, j).hi <= c.ext_bb[j].hi /\ c.rank[j] <= Reach(c, n, j).hi
<1>1. /\ c.wf_angles[j] * n \in Nat /\ c.wf_shift_pts[j] \in Nat
      /\ c.wf_angles[j] * n <= c.wf_shift_pts[j]
  BY SlopeIs
<1>2. /\ c.ext_bb[j].lo = 0 - c.left_wf_exts[j] /\ c.ext_bb[j].hi = c.rank[j] + c.right_wf_exts[j]
      /\ c.left_wf_exts[j] = (IF c.left[j] THEN c.wf_shift_pts[j] ELSE 0)
      /\ c.right_wf_exts[j] = (IF c.right[j] THEN c.wf_shift_pts[j] ELSE 0)
      /\ c.rank[j] \in Nat
  BY DEF Sound, Adjusted, Waved, Bounded, Edges, Fronted, Sizes
<1> DEFINE slope == c.wf_angles[j] * n
           lo == c.ext_bb[j].lo + (IF c.left[j] THEN slope ELSE 0)
           hi == c.ext_bb[j].hi - (IF c.right[j] THEN slope ELSE 0)
<1>3. slope \in Nat /\ slope <= c.wf_shift_pts[j]
  BY <1>1
<1> HIDE DEF slope
<1>4. /\ lo \in Int /\ hi \in Int
      /\ c.ext_bb[j].lo <= lo /\ lo <= 0 /\ hi <= c.ext_bb[j].hi /\ c.rank[j] <= hi
  BY <1>1, <1>2, <1>3
<1>5. Reach(c, n, j) = [lo |-> lo, hi |-> hi]
  BY Zenon DEF Reach, slope
<1> HIDE DEF lo, hi
<1> QED
  BY <1>4, <1>5 DEF Spans

LEMMA TrimHigh ==
  ASSUME NEW x \in Int, NEW h \in Int, NEW N \in Int, NEW R \in Nat, NEW slope \in Nat,
         NEW cut \in Nat, h <= N + R, cut <= R, R > 0 => cut = slope,
         NEW hi, hi = IF h > N /\ R > 0
                        THEN (IF h <= N + R - slope THEN h ELSE N + R - slope) ELSE h
  PROVE  x < hi <=> x < h /\ x < N + R - cut
OBVIOUS

LEMMA TrimLow ==
  ASSUME NEW x \in Int, NEW l \in Int, NEW L \in Nat, NEW slope \in Nat,
         NEW cut \in Nat, l >= 0 - L, cut <= L, L > 0 => cut = slope,
         NEW lo, lo = IF l < 0 /\ L > 0 THEN (IF l >= slope - L THEN l ELSE slope - L) ELSE l
  PROVE  lo <= x <=> l <= x /\ 0 - L + cut <= x
OBVIOUS

LEMMA RankHolds ==
  ASSUME NEW c, NEW d, Sound(c, d), NEW box \in [1 .. d -> Spans], NEW n \in Levels(c),
         NEW j \in 1 .. d, NEW x \in Int
  PROVE  Holds(TrimToRank(c, n, box)[j], x) <=> Holds(box[j], x) /\ Holds(Reach(c, n, j), x)
<1>1. Dims(c) = 1 .. d
  BY DimsAre DEF Sound
<1> DEFINE s == Cap(box[j], c.ext_bb[j])
           slope == c.wf_angles[j] * n
           L == c.left_wf_exts[j]
           R == c.right_wf_exts[j]
           N == c.rank[j]
           lo == IF s.lo < 0 /\ L > 0 THEN Max({s.lo, slope - L}) ELSE s.lo
           hi == IF s.hi > N /\ R > 0 THEN Min({s.hi, N + R - slope}) ELSE s.hi
<1>2. /\ slope \in Nat /\ c.wf_shift_pts[j] \in Nat /\ slope <= c.wf_shift_pts[j]
  BY SlopeIs
<1>3. /\ c.ext_bb[j].lo = 0 - L /\ c.ext_bb[j].hi = N + R
      /\ L = (IF c.left[j] THEN c.wf_shift_pts[j] ELSE 0)
      /\ R = (IF c.right[j] THEN c.wf_shift_pts[j] ELSE 0)
      /\ N \in Nat /\ box[j] \in Spans /\ c.ext_bb[j] \in Spans
  BY DEF Sound, Adjusted, Waved, Bounded, Edges, Fronted, Sizes
<1>4. s \in Spans /\ (Holds(s, x) <=> Holds(box[j], x) /\ Holds(c.ext_bb[j], x))
      /\ s.lo >= c.ext_bb[j].lo /\ s.hi <= c.ext_bb[j].hi
  BY <1>3, CapIs, CapHolds
<1>5. TrimToRank(c, n, box)[j] = [lo |-> lo, hi |-> hi]
  <2> DEFINE trim(i) ==
               LET S == Cap(box[i], c.ext_bb[i])
                   in == c.wf_angles[i] * n
               IN [lo |-> IF S.lo < 0 /\ c.left_wf_exts[i] > 0
                            THEN Max({S.lo, in - c.left_wf_exts[i]}) ELSE S.lo,
                   hi |-> IF S.hi > c.rank[i] /\ c.right_wf_exts[i] > 0
                            THEN Min({S.hi, c.rank[i] + c.right_wf_exts[i] - in}) ELSE S.hi]
  <2>1. TrimToRank(c, n, box) = [i \in Dims(c) |-> trim(i)]
    BY Zenon DEF TrimToRank
  <2>2. trim(j) = [lo |-> lo, hi |-> hi]
    OBVIOUS
  <2> HIDE DEF trim, lo, hi
  <2> QED
    BY <1>1, <2>1, <2>2
<1> DEFINE rise == IF c.left[j] THEN slope ELSE 0
           fall == IF c.right[j] THEN slope ELSE 0
<1>6. Reach(c, n, j) = [lo |-> c.ext_bb[j].lo + rise, hi |-> c.ext_bb[j].hi - fall]
  BY Zenon DEF Reach
<1>16. /\ L \in Nat /\ R \in Nat /\ N \in Int /\ slope \in Nat
       /\ rise \in Nat /\ rise <= L /\ (L > 0 => rise = slope)
       /\ fall \in Nat /\ fall <= R /\ (R > 0 => fall = slope)
  BY <1>2, <1>3
<1> HIDE DEF rise, fall
<1> HIDE DEF s, slope, L, R, N
<1>7. s.lo \in Int /\ s.hi \in Int
  BY <1>4 DEF Spans
<1>8. L \in Nat /\ R \in Nat /\ slope - L \in Int /\ N + R - slope \in Int
  BY <1>2, <1>3
<1>9. /\ lo = (IF s.lo < 0 /\ L > 0 THEN (IF s.lo >= slope - L THEN s.lo ELSE slope - L) ELSE s.lo)
      /\ hi = (IF s.hi > N /\ R > 0 THEN (IF s.hi <= N + R - slope THEN s.hi ELSE N + R - slope)
               ELSE s.hi)
  BY <1>7, <1>8, MaxOfTwo, MinOfTwo
<1> HIDE DEF lo, hi
<1>10. Holds(TrimToRank(c, n, box)[j], x) <=> lo <= x /\ x < hi
  BY <1>5 DEF Holds
<1>11. Holds(Reach(c, n, j), x) <=> 0 - L + rise <= x /\ x < N + R - fall
  <2>1. c.ext_bb[j].lo = 0 - L /\ c.ext_bb[j].hi = N + R
    BY <1>3
  <2>2. Reach(c, n, j).lo = 0 - L + rise /\ Reach(c, n, j).hi = N + R - fall
    BY <1>6, <1>16, <2>1
  <2> QED
    BY <2>2 DEF Holds
<1>13. Holds(s, x) <=> s.lo <= x /\ x < s.hi
  BY DEF Holds
<1>14. lo <= x /\ x < hi <=>
         s.lo <= x /\ x < s.hi /\ 0 - L + rise <= x /\ x < N + R - fall
  <2>1. s.lo >= 0 - L /\ s.hi <= N + R
    <3>1. c.ext_bb[j].lo = 0 - L /\ c.ext_bb[j].hi = N + R
      BY <1>3
    <3> QED
      BY <1>4, <3>1
  <2> DEFINE l == s.lo
             h == s.hi
  <2>2. l \in Int /\ h \in Int /\ l >= 0 - L /\ h <= N + R
        /\ lo = (IF l < 0 /\ L > 0 THEN (IF l >= slope - L THEN l ELSE slope - L) ELSE l)
        /\ hi = (IF h > N /\ R > 0
                   THEN (IF h <= N + R - slope THEN h ELSE N + R - slope) ELSE h)
    BY <1>7, <1>9, <2>1
  <2> HIDE DEF l, h
  <2>3. lo <= x <=> l <= x /\ 0 - L + rise <= x
    BY <1>16, <2>2, TrimLow
  <2>4. x < hi <=> x < h /\ x < N + R - fall
    BY <1>16, <2>2, TrimHigh
  <2> QED
    BY <2>3, <2>4, Zenon DEF l, h
<1>15. Holds(Reach(c, n, j), x) => Holds(c.ext_bb[j], x)
  <2>1. c.ext_bb[j].lo \in Int /\ c.ext_bb[j].hi \in Int
    BY <1>3 DEF Spans
  <2>2. /\ Reach(c, n, j).lo \in Int /\ Reach(c, n, j).hi \in Int
        /\ c.ext_bb[j].lo <= Reach(c, n, j).lo /\ Reach(c, n, j).hi <= c.ext_bb[j].hi
    BY ReachIs
  <2> QED
    BY <2>1, <2>2 DEF Holds
<1> QED
  BY <1>4, <1>10, <1>11, <1>13, <1>14, <1>15, Zenon

(* The interior of a section widens by an angle at every level.            *)
Grown(c, n, j) == c.wf_shift_pts[j] - c.wf_angles[j] * n

LEMMA InteriorIs ==
  ASSUME NEW c, NEW d, Sound(c, d), NEW j \in 1 .. d, NEW n \in Levels(c)
  PROVE  /\ InteriorSpan(c, n, j) \in Spans /\ Grown(c, n, j) \in Nat
         /\ InteriorSpan(c, n, j).lo \in Int /\ InteriorSpan(c, n, j).hi \in Int
         /\ c.mpi_interior[j].lo \in Int /\ c.mpi_interior[j].hi \in Int
         /\ InteriorSpan(c, n, j).lo = c.mpi_interior[j].lo +
              (IF c.mpi_interior[j].lo > c.ext_bb[j].lo THEN Grown(c, n, j) ELSE 0)
         /\ InteriorSpan(c, n, j).hi = c.mpi_interior[j].hi -
              (IF c.mpi_interior[j].hi < c.ext_bb[j].hi THEN Grown(c, n, j) ELSE 0)
<1>1. /\ n \in Nat /\ c.wf_angles[j] * n \in Nat /\ c.wf_shift_pts[j] \in Nat
      /\ c.wf_angles[j] * n <= c.wf_shift_pts[j]
      /\ c.wf_steps = 0 => n = 0 /\ c.wf_shift_pts[j] = 0
      /\ c.wf_angles[j] \in Nat
  BY SlopeIs
<1>2. /\ c.mpi_interior[j].lo \in Int /\ c.mpi_interior[j].hi \in Int /\ c.wf_steps \in Nat
  BY DEF Sound, Waved, Bounded, Spans
<1> DEFINE g == Grown(c, n, j)
           lo == c.mpi_interior[j].lo
           hi == c.mpi_interior[j].hi
           below == IF lo > c.ext_bb[j].lo THEN g ELSE 0
           above == IF hi < c.ext_bb[j].hi THEN g ELSE 0
<1>3. g \in Nat
  <2> DEFINE slope == c.wf_angles[j] * n
  <2>1. slope \in Nat /\ slope <= c.wf_shift_pts[j]
    BY <1>1
  <2>2. g = c.wf_shift_pts[j] - slope
    BY DEF Grown
  <2> HIDE DEF slope, g
  <2> QED
    BY <1>1, <2>1, <2>2
<1>4. (IF c.wf_steps > 0 THEN c.wf_shift_pts[j] - c.wf_angles[j] * n ELSE 0) = g
  <2>1. CASE c.wf_steps = 0
    <3>1. c.wf_angles[j] * n = 0
      BY <1>1, <2>1
    <3>2. g = 0
      BY <1>1, <2>1, <3>1 DEF Grown
    <3> QED
      BY <2>1, <3>2
  <2>2. CASE c.wf_steps > 0
    BY <2>2 DEF Grown
  <2> QED
    BY <1>2, <2>1, <2>2
<1>5. InteriorSpan(c, n, j) = [lo |-> lo + below, hi |-> hi - above]
  <2> DEFINE widen == IF c.wf_steps > 0 THEN c.wf_shift_pts[j] - c.wf_angles[j] * n ELSE 0
  <2>1. widen = g
    BY <1>4
  <2>2. InteriorSpan(c, n, j) =
          [lo |-> lo + (IF DoesExteriorExist(c, j, TRUE) THEN widen ELSE 0),
           hi |-> hi - (IF DoesExteriorExist(c, j, FALSE) THEN widen ELSE 0)]
    BY Zenon DEF InteriorSpan
  <2> HIDE DEF widen, g
  <2>3. /\ (IF DoesExteriorExist(c, j, TRUE) THEN widen ELSE 0) = below
        /\ (IF DoesExteriorExist(c, j, FALSE) THEN widen ELSE 0) = above
    BY <2>1 DEF DoesExteriorExist
  <2> QED
    BY <2>2, <2>3, Zenon
<1> HIDE DEF g
<1>6. below \in Nat /\ above \in Nat
  BY <1>3
<1>7. lo \in Int /\ hi \in Int
  BY <1>2
<1> HIDE DEF below, above, lo, hi
<1>8. lo + below \in Int /\ hi - above \in Int
  BY <1>6, <1>7
<1>9. InteriorSpan(c, n, j) \in Spans
  BY <1>5, <1>8 DEF Spans
<1>10. InteriorSpan(c, n, j).lo = lo + below /\ InteriorSpan(c, n, j).hi = hi - above
  BY <1>5
<1> QED
  BY <1>3, <1>7, <1>8, <1>9, <1>10, Zenon DEF g, lo, hi, below, above

(* Which coordinates a section takes of dimension j at level n.            *)
InPart(c, n, sec, j, x) ==
  LET int == InteriorSpan(c, n, j)
  IN /\ sec.part = "interior" \/ (sec.part # "whole" /\ j < sec.dim) => Holds(int, x)
     /\ sec.part = "left" /\ j = sec.dim => x < int.lo
     /\ sec.part = "right" /\ j = sec.dim => int.lo <= x /\ int.hi <= x

SectionTypes(d) ==
  {sec \in [part : {"whole", "left", "right", "interior"}, dim : 0 .. d] :
     sec.part \in {"whole", "interior"} => sec.dim = 0}

LEMMA SectionHolds ==
  ASSUME NEW c, NEW d \in Nat, Sound(c, d), NEW box \in [1 .. d -> Spans], NEW n \in Levels(c),
         NEW sec \in SectionTypes(d), NEW j \in 1 .. d, NEW x \in Int
  PROVE  Holds(TrimToSection(c, n, sec, box)[j], x) <=> Holds(box[j], x) /\ InPart(c, n, sec, j, x)
<1>1. Dims(c) = 1 .. d
  BY DimsAre DEF Sound
<1> DEFINE s == box[j]
           int == InteriorSpan(c, n, j)
           left == [s EXCEPT !.hi = Min({@, int.lo})]
           right == [s EXCEPT !.lo = Max({@, int.hi, int.lo})]
           trim == CASE sec.part = "whole" -> s
                     [] sec.part = "interior" \/ j < sec.dim -> Cap(s, int)
                     [] sec.part = "left" /\ j = sec.dim -> left
                     [] sec.part = "right" /\ j = sec.dim -> right
                     [] OTHER -> s
<1>2. TrimToSection(c, n, sec, box)[j] = trim
  <2> DEFINE t(i) ==
               LET S == box[i]
                   I == InteriorSpan(c, n, i)
               IN CASE sec.part = "whole" -> S
                    [] sec.part = "interior" \/ i < sec.dim -> Cap(S, I)
                    [] sec.part = "left" /\ i = sec.dim -> [S EXCEPT !.hi = Min({@, I.lo})]
                    [] sec.part = "right" /\ i = sec.dim -> [S EXCEPT !.lo = Max({@, I.hi, I.lo})]
                    [] OTHER -> S
  <2>1. TrimToSection(c, n, sec, box) = [i \in Dims(c) |-> t(i)]
    BY Zenon DEF TrimToSection
  <2>2. t(j) = trim
    BY Zenon
  <2> HIDE DEF t, trim
  <2> QED
    BY <1>1, <2>1, <2>2
<1>3. int \in Spans /\ int.lo \in Int /\ int.hi \in Int
  BY InteriorIs
<1>4. s \in Spans /\ s.lo \in Int /\ s.hi \in Int
  BY DEF Spans
<1>5. InPart(c, n, sec, j, x) <=>
        /\ sec.part = "interior" \/ (sec.part # "whole" /\ j < sec.dim) => Holds(int, x)
        /\ sec.part = "left" /\ j = sec.dim => x < int.lo
        /\ sec.part = "right" /\ j = sec.dim => int.lo <= x /\ int.hi <= x
  BY Zenon DEF InPart
<1> HIDE DEF int, s
<1>6. Holds(Cap(s, int), x) <=> Holds(s, x) /\ Holds(int, x)
  BY <1>3, <1>4, CapHolds
<1>7. Holds(left, x) <=> Holds(s, x) /\ x < int.lo
  <2>1. Min({s.hi, int.lo}) = IF s.hi <= int.lo THEN s.hi ELSE int.lo
    BY <1>3, <1>4, MinOfTwo
  <2>2. left.lo = s.lo /\ left.hi = Min({s.hi, int.lo})
    BY <1>4 DEF Spans
  <2> HIDE DEF left
  <2>3. left.hi = IF s.hi <= int.lo THEN s.hi ELSE int.lo
    BY <2>1, <2>2
  <2> QED
    BY <1>3, <1>4, <2>2, <2>3 DEF Holds
<1>8. Holds(right, x) <=> Holds(s, x) /\ int.lo <= x /\ int.hi <= x
  <2> DEFINE most == Max({s.lo, int.hi, int.lo})
  <2>1. most \in {s.lo, int.hi, int.lo} /\ most >= s.lo /\ most >= int.hi /\ most >= int.lo
    BY <1>3, <1>4, MaxOfThree
  <2>2. right.lo = most /\ right.hi = s.hi
    BY <1>4 DEF Spans
  <2> HIDE DEF right, most
  <2> QED
    BY <1>3, <1>4, <2>1, <2>2 DEF Holds
<1>9. /\ sec.part \in {"whole", "left", "right", "interior"} /\ sec.dim \in Nat /\ j \in Nat
      /\ sec.part = "whole" => ~(j < sec.dim)
  BY DEF SectionTypes
<1> HIDE DEF left, right
<1>10. CASE sec.part = "whole"
  <2>1. trim = s
    BY <1>9, <1>10
  <2> HIDE DEF trim
  <2> QED
    BY <1>2, <1>5, <1>10, <2>1 DEF s
<1>11. CASE sec.part = "interior" \/ (sec.part # "whole" /\ j < sec.dim)
  <2>1. trim = Cap(s, int)
    <3>1. sec.part # "whole"
      BY <1>11
    <3>2. ~(sec.part = "left" /\ j = sec.dim) /\ ~(sec.part = "right" /\ j = sec.dim)
      BY <1>9, <1>11
    <3> QED
      BY <1>11, <3>1, <3>2, Zenon
  <2> HIDE DEF trim
  <2>2. ~(sec.part = "left" /\ j = sec.dim) /\ ~(sec.part = "right" /\ j = sec.dim)
    BY <1>9, <1>11
  <2> QED
    BY <1>2, <1>5, <1>6, <1>11, <2>1, <2>2, Zenon DEF s
<1>12. CASE sec.part = "left" /\ ~(j < sec.dim)
  <2>1. trim = IF j = sec.dim THEN left ELSE s
    BY <1>12
  <2> HIDE DEF trim
  <2> QED
    BY <1>2, <1>5, <1>7, <1>12, <2>1 DEF s
<1>13. CASE sec.part = "right" /\ ~(j < sec.dim)
  <2>1. trim = IF j = sec.dim THEN right ELSE s
    BY <1>13
  <2> HIDE DEF trim
  <2> QED
    BY <1>2, <1>5, <1>8, <1>13, <2>1 DEF s
<1>14. \/ sec.part = "whole"
       \/ sec.part = "interior" \/ (sec.part # "whole" /\ j < sec.dim)
       \/ sec.part = "left" /\ ~(j < sec.dim)
       \/ sec.part = "right" /\ ~(j < sec.dim)
  BY <1>9
<1> QED
  BY <1>10, <1>11, <1>12, <1>13, <1>14, Zenon

-----------------------------------------------------------------------------
(* The levels of a stride: f[l] is how many the first l layers have.       *)
Stack(c, f) ==
  /\ f \in [0 .. Len(Layers(c)) -> Nat] /\ f[0] = 0 /\ NumLevels(c) = f[Len(Layers(c))]
  /\ \A l \in 1 .. Len(Layers(c)) :
       /\ Layers(c)[l] \in Nat /\ f[l] = f[l - 1] + Layers(c)[l] /\ RegionShiftNum(c, l) = f[l - 1]
  /\ \A k, l \in 0 .. Len(Layers(c)) : k <= l => f[k] <= f[l]

LEMMA StackIs ==
  ASSUME NEW c, NEW d, Sound(c, d)
  PROVE  \E f : Sums(f, Layers(c)) /\ Stack(c, f)
<1> DEFINE L == Layers(c)
<1>1. L \in Seq(Nat)
  BY LayersAre
<1>2. RegionShiftNum(c, 1) = RegionShiftNum(c, 1) /\ NumLevels(c) = TupleSum(L)
      /\ \A l : RegionShiftNum(c, l) = TupleSum(SubSeq(L, 1, l - 1))
  BY Zenon DEF NumLevels, RegionShiftNum
<1> HIDE DEF L
<1>3. L \in Seq(Int) /\ Len(L) \in Nat /\ \A l \in 1 .. Len(L) : L[l] \in Nat
  BY <1>1
<1>4. PICK f : Sums(f, L)
  BY <1>3, SumsExist
<1>5. /\ f \in [0 .. Len(L) -> Int] /\ f[0] = 0
      /\ \A l \in 1 .. Len(L) : f[l] = f[l - 1] + L[l]
  BY <1>4 DEF Sums
<1> DEFINE I == {n \in Nat : n <= Len(L) =>
                   /\ f[n] \in Nat
                   /\ \A k \in 0 .. n : f[k] <= f[n]}
<1>6. 0 \in I
  BY <1>5
<1>7. ASSUME NEW n \in Nat, n \in I PROVE n + 1 \in I
  <2> SUFFICES ASSUME n + 1 <= Len(L)
               PROVE  f[n + 1] \in Nat /\ \A k \in 0 .. n + 1 : f[k] <= f[n + 1]
    OBVIOUS
  <2>1. n + 1 \in 1 .. Len(L) /\ (n + 1) - 1 = n
    BY <1>3
  <2>2. f[n + 1] = f[n] + L[n + 1] /\ L[n + 1] \in Nat
    BY <1>3, <1>5, <2>1
  <2>3. f[n] \in Nat /\ \A k \in 0 .. n : f[k] <= f[n]
    BY <1>3, <1>7, <2>1
  <2>4. f[n + 1] \in Nat /\ f[n] <= f[n + 1]
    BY <2>2, <2>3
  <2>5. ASSUME NEW k \in 0 .. n + 1 PROVE f[k] <= f[n + 1]
    <3>1. CASE k = n + 1
      BY <2>4, <3>1
    <3>2. CASE k # n + 1
      <4>1. k \in 0 .. n /\ k \in 0 .. Len(L)
        BY <2>1, <3>2, <1>3
      <4>2. f[k] \in Int /\ f[k] <= f[n]
        BY <1>5, <2>3, <4>1
      <4> QED
        BY <2>3, <2>4, <4>2
    <3> QED
      BY <3>1, <3>2
  <2> QED
    BY <2>4, <2>5
<1> HIDE DEF I
<1>8. \A n \in Nat : n \in I
  BY <1>6, <1>7, NatSteps, Zenon
<1>9. ASSUME NEW n \in 0 .. Len(L) PROVE f[n] \in Nat /\ \A k \in 0 .. n : f[k] <= f[n]
  <2>1. n \in Nat /\ n <= Len(L)
    BY <1>3
  <2> QED
    BY <1>8, <2>1 DEF I
<1>10. f \in [0 .. Len(L) -> Nat]
  BY <1>5, <1>9
<1>11. ASSUME NEW l \in 1 .. Len(L) PROVE RegionShiftNum(c, l) = f[l - 1]
  <2> DEFINE p == l - 1
  <2>1. 0 \in 0 .. Len(L) /\ p \in 0 .. Len(L) /\ 0 + 1 = 1 /\ f[p] \in Nat
    <3>1. p \in 0 .. Len(L) /\ 0 \in 0 .. Len(L)
      BY <1>3
    <3> HIDE DEF p
    <3> QED
      BY <1>10, <3>1
  <2> HIDE DEF p
  <2>2. TupleSum(SubSeq(L, 0 + 1, p)) = f[p] - f[0]
    BY <1>1, <1>4, <2>1, SliceSum
  <2>3. f[p] - f[0] = f[p]
    BY <1>5, <2>1
  <2>4. RegionShiftNum(c, l) = TupleSum(SubSeq(L, 1, p))
    BY <1>2 DEF p
  <2> QED
    BY <2>1, <2>2, <2>3, <2>4 DEF p
<1>12. NumLevels(c) = f[Len(L)]
  BY <1>2, <1>3, <1>4, TupleSumIs
<1>13. \A k, l \in 0 .. Len(L) : k <= l => f[k] <= f[l]
  <2> SUFFICES ASSUME NEW k \in 0 .. Len(L), NEW l \in 0 .. Len(L), k <= l PROVE f[k] <= f[l]
    OBVIOUS
  <2>1. k \in 0 .. l
    BY <1>3
  <2> QED
    BY <1>9, <2>1
<1> QED
  BY <1>3, <1>4, <1>5, <1>10, <1>11, <1>12, <1>13 DEF Stack, L

LEMMA LayerRange ==
  ASSUME NEW c, NEW d, Sound(c, d), NEW l \in 1 .. Len(Layers(c)), NEW n \in 0 .. Layers(c)[l] - 1
  PROVE  /\ RegionShiftNum(c, l) \in Nat /\ n \in Nat
         /\ RegionShiftNum(c, l) + n \in 0 .. NumLevels(c) - 1
         /\ \A m \in 1 .. Len(Layers(c)) :
              l < m => RegionShiftNum(c, l) + n < RegionShiftNum(c, m)
<1>1. PICK f : Stack(c, f)
  BY StackIs
<1> DEFINE K == Len(Layers(c))
<1>2. K \in Nat
  BY LayersAre
<1>3. /\ f \in [0 .. K -> Nat] /\ NumLevels(c) = f[K]
      /\ Layers(c)[l] \in Nat /\ f[l] = f[l - 1] + Layers(c)[l] /\ RegionShiftNum(c, l) = f[l - 1]
      /\ \A k, m \in 0 .. K : k <= m => f[k] <= f[m]
      /\ \A m \in 1 .. K : RegionShiftNum(c, m) = f[m - 1]
  BY <1>1 DEF Stack
<1> HIDE DEF K
<1>4. l \in 0 .. K /\ l - 1 \in 0 .. K /\ K \in 0 .. K /\ l <= K
  BY <1>2 DEF K
<1>5. f[l] \in Nat /\ f[l - 1] \in Nat /\ f[K] \in Nat /\ f[l] <= f[K]
  BY <1>3, <1>4
<1>6. n \in Nat /\ f[l - 1] + n < f[l]
  BY <1>3, <1>5
<1>7. ASSUME NEW m \in 1 .. K, l < m PROVE f[l - 1] + n < f[m - 1]
  <2>1. m - 1 \in 0 .. K /\ l <= m - 1
    BY <1>2, <1>4, <1>7
  <2>2. f[l] <= f[m - 1] /\ f[m - 1] \in Nat
    BY <1>3, <1>4, <2>1
  <2> QED
    BY <1>5, <1>6, <2>2
<1> QED
  BY <1>3, <1>5, <1>6, <1>7 DEF K

LEMMA LayerOfLevel ==
  ASSUME NEW c, NEW d, Sound(c, d), NEW n \in 0 .. NumLevels(c) - 1
  PROVE  \E l \in 1 .. Len(Layers(c)) : \E k \in 0 .. Layers(c)[l] - 1 :
           n = RegionShiftNum(c, l) + k
<1>1. PICK f : Stack(c, f)
  BY StackIs
<1> DEFINE K == Len(Layers(c))
           above == {l \in Nat : l <= K /\ n < f[l]}
<1>2. K \in Nat
  BY LayersAre
<1>3. /\ f \in [0 .. K -> Nat] /\ NumLevels(c) = f[K] /\ f[0] = 0
      /\ \A l \in 1 .. K : /\ Layers(c)[l] \in Nat /\ f[l] = f[l - 1] + Layers(c)[l]
                           /\ RegionShiftNum(c, l) = f[l - 1]
  BY <1>1 DEF Stack
<1> HIDE DEF K
<1>4. n \in Nat /\ f[K] \in Nat /\ n < f[K]
  <2>1. K \in 0 .. K
    BY <1>2
  <2>2. f[K] \in Nat
    BY <1>3, <2>1
  <2> QED
    BY <1>3, <2>2
<1>5. PICK l \in above : \A m \in above : l <= m
  <2>1. K \in above
    BY <1>2, <1>4
  <2>2. above \subseteq Nat
    OBVIOUS
  <2> HIDE DEF above
  <2> QED
    BY <2>1, <2>2, LeastNat
<1>6. l \in Nat /\ l <= K /\ n < f[l] /\ l # 0
  BY <1>3, <1>4
<1>7. l \in 1 .. K /\ l - 1 \in 0 .. K /\ l - 1 \in Nat /\ l - 1 <= K /\ l - 1 < l
  BY <1>2, <1>6
<1>8. f[l - 1] <= n
  <2>1. l - 1 \notin above
    <3> HIDE DEF above
    <3> QED
      BY <1>5, <1>7
  <2>2. f[l - 1] \in Nat
    BY <1>3, <1>7
  <2> QED
    BY <1>4, <1>7, <2>1, <2>2
<1> DEFINE k == n - f[l - 1]
<1>9. /\ Layers(c)[l] \in Nat /\ f[l] = f[l - 1] + Layers(c)[l] /\ RegionShiftNum(c, l) = f[l - 1]
      /\ f[l - 1] \in Nat
  BY <1>3, <1>7
<1>10. k \in 0 .. Layers(c)[l] - 1 /\ n = RegionShiftNum(c, l) + k
  BY <1>4, <1>6, <1>8, <1>9
<1> QED
  BY <1>7, <1>10 DEF K

(* Layers of temporal blocks share out the valid packs of the stride.      *)
LEMMA LayersShareOut ==
  ASSUME NEW c, NEW d, Sound(c, d), c.tb_steps > 0
  PROVE  NumLevels(c) <= c.packs * Len(c.valid)
<1> DEFINE T == Len(c.valid)
           tb == c.tb_steps
           p == c.packs
           K == CeilDiv(T, tb)
           end(i) == IF i * tb <= T THEN i * tb ELSE T
<1>1. /\ tb \in Nat \ {0} /\ c.valid \in Seq(Nat) /\ T \in Nat /\ p \in Nat
      /\ \A k \in 1 .. T : c.valid[k] <= p
      /\ c.wf_steps \in Nat /\ tb <= c.wf_steps
  BY DEF Sound, Adjusted, Waved, Tempered
<1>2. Layers(c) = [i \in 1 .. K |-> TupleSum(ChunkOf(c, i))]
  <2> DEFINE chunks == [i \in 1 .. K |-> TupleSum(ChunkOf(c, i))]
             ones == [i \in 1 .. TupleSum(c.valid) |-> 1]
  <2>1. Layers(c) = CASE c.wf_steps = 0 -> <<1>>
                      [] c.wf_steps > 0 /\ c.tb_steps = 0 -> ones
                      [] OTHER -> chunks
    BY Zenon DEF Layers, ChunkOf
  <2>2. c.wf_steps # 0 /\ c.tb_steps # 0
    BY <1>1
  <2> HIDE DEF chunks, ones
  <2>3. Layers(c) = chunks
    BY <2>1, <2>2
  <2> QED
    BY <2>3 DEF chunks
<1>3. PICK f : Stack(c, f)
  BY StackIs
<1>4. Len(Layers(c)) = K /\ K \in Nat
  <2>1. Layers(c) \in Seq(Nat)
    BY LayersAre
  <2>2. K \in Nat
    <3>1. T + tb - 1 \in Nat
      BY <1>1
    <3> HIDE DEF T, tb
    <3>2. K = (T + tb - 1) \div tb
      BY DEF CeilDiv
    <3> HIDE DEF K
    <3> QED
      BY <1>1, <3>1, <3>2, DivMod
  <2> HIDE DEF K
  <2>3. DOMAIN Layers(c) = 1 .. K
    BY <1>2
  <2> QED
    BY <2>1, <2>2, <2>3
<1>5. /\ f[0] = 0 /\ NumLevels(c) = f[K] /\ f \in [0 .. K -> Nat]
      /\ \A i \in 1 .. K : f[i] = f[i - 1] + TupleSum(ChunkOf(c, i))
  <2> HIDE DEF K
  <2>1. /\ f[0] = 0 /\ NumLevels(c) = f[K] /\ f \in [0 .. K -> Nat]
        /\ \A i \in 1 .. K : f[i] = f[i - 1] + Layers(c)[i]
    <3>1. /\ f \in [0 .. Len(Layers(c)) -> Nat] /\ f[0] = 0 /\ NumLevels(c) = f[Len(Layers(c))]
          /\ \A l \in 1 .. Len(Layers(c)) : f[l] = f[l - 1] + Layers(c)[l]
      BY <1>3, Zenon DEF Stack
    <3>2. Len(Layers(c)) = K
      BY <1>4
    <3> QED
      BY <3>1, <3>2, Zenon
  <2>2. \A i \in 1 .. K : Layers(c)[i] = TupleSum(ChunkOf(c, i))
    BY <1>2
  <2> QED
    BY <2>1, <2>2
<1>6. \A i \in Nat : i < K => i * tb < T
  <2> SUFFICES ASSUME NEW i \in Nat, i < K PROVE i * tb < T
    OBVIOUS
  <2>1. i <= K - 1 /\ T \in Int
    BY <1>1, <1>4
  <2> HIDE DEF T, tb
  <2> QED
    BY <1>1, <2>1, CeilDivBound
<1>7. ASSUME NEW i \in Nat, i < K
      PROVE  /\ TupleSum(ChunkOf(c, i + 1)) \in Nat
             /\ TupleSum(ChunkOf(c, i + 1)) <= p * (end(i + 1) - i * tb)
             /\ i * tb \in Nat /\ i * tb <= end(i + 1) /\ end(i + 1) <= T /\ end(i + 1) \in Nat
  <2> DEFINE a == i * tb
             b == end(i + 1)
  <2>1. a \in Nat /\ a < T
    BY <1>1, <1>6, <1>7
  <2>2. (i + 1) * tb = a + tb
    <3> HIDE DEF tb
    <3>1. i \in Nat /\ tb \in Nat
      BY <1>1, <1>7
    <3> QED
      BY <3>1
  <2>3. b \in Nat /\ a <= b /\ b <= T
    <3> HIDE DEF a, tb, T
    <3> QED
      BY <1>1, <2>1, <2>2
  <2>4. ChunkOf(c, i + 1) = SubSeq(c.valid, a + 1, b)
    <3>1. (i + 1) - 1 = i
      BY <1>7
    <3>2. Min({(i + 1) * tb, T}) = b
      <4>1. (i + 1) * tb \in Int /\ T \in Int
        BY <1>1, <2>1, <2>2
      <4> HIDE DEF T, tb
      <4> QED
        BY <4>1, MinOfTwo
    <3> QED
      BY <3>1, <3>2 DEF ChunkOf
  <2>5. a \in 0 .. Len(c.valid) /\ b \in a .. Len(c.valid)
    <3> HIDE DEF a, b, tb
    <3> QED
      BY <1>1, <2>1, <2>3
  <2> HIDE DEF a, b
  <2>6. TupleSum(SubSeq(c.valid, a + 1, b)) \in Nat
        /\ TupleSum(SubSeq(c.valid, a + 1, b)) <= p * (b - a)
    <3> HIDE DEF p
    <3> QED
      BY <1>1, <2>5, SliceBound
  <2> QED
    BY <2>1, <2>3, <2>4, <2>6 DEF a, b
<1> DEFINE I == {i \in Nat : i <= K => f[i] <= p * end(i)}
<1>8. 0 \in I
  <2>1. end(0) = 0
    BY <1>1
  <2> HIDE DEF end
  <2> QED
    BY <1>1, <1>5, <2>1
<1>9. ASSUME NEW i \in Nat, i \in I PROVE i + 1 \in I
  <2> SUFFICES ASSUME i + 1 <= K PROVE f[i + 1] <= p * end(i + 1)
    OBVIOUS
  <2>1. i < K /\ i + 1 \in 1 .. K /\ (i + 1) - 1 = i /\ i \in 0 .. K
    BY <1>4
  <2> DEFINE S == TupleSum(ChunkOf(c, i + 1))
             a == i * tb
             b == end(i + 1)
  <2>2. S \in Nat /\ S <= p * (b - a) /\ a \in Nat /\ a <= b /\ b \in Nat
    BY <1>7, <2>1
  <2>3. f[i] <= p * a
    <3>1. end(i) = a
      BY <1>1, <1>6, <2>1
    <3> HIDE DEF a, end
    <3> QED
      BY <1>9, <2>1, <3>1
  <2>4. f[i + 1] = f[i] + S /\ f[i] \in Nat
    BY <1>5, <2>1
  <2> HIDE DEF S, a, b, p
  <2>5. p * (b - a) = p * b - p * a /\ p * b \in Nat /\ p * a \in Nat
    BY <1>1, <2>2
  <2>6. f[i + 1] <= p * b
    BY <2>2, <2>3, <2>4, <2>5
  <2> QED
    BY <2>6 DEF b
<1> HIDE DEF I
<1>10. \A i \in Nat : i \in I
  BY <1>8, <1>9, NatSteps, Zenon
<1>11. f[K] <= p * end(K)
  BY <1>4, <1>10 DEF I
<1>12. end(K) \in Nat /\ end(K) <= T
  <2>1. K * tb \in Nat
    BY <1>1, <1>4
  <2> QED
    BY <1>1, <2>1
<1> HIDE DEF end
<1>13. f[K] \in Nat
  BY <1>4, <1>5
<1>14. p * end(K) \in Nat /\ p * T \in Nat /\ p * end(K) <= p * T
  <2> HIDE DEF p, T, K
  <2> QED
    BY <1>1, <1>12, TimesUpTo
<1> HIDE DEF p, T, K
<1>15. NumLevels(c) <= p * T
  BY <1>5, <1>11, <1>13, <1>14
<1> QED
  BY <1>15 DEF p, T

LEMMA FewLevels ==
  ASSUME NEW c, NEW d, Sound(c, d)
  PROVE  /\ NumLevels(c) \in Nat /\ NumLevels(c) <= WfShifts(c) + 1
         /\ \A n \in 0 .. NumLevels(c) - 1 : n \in Levels(c)
<1>1. NumLevels(c) \in Nat
  <2>1. PICK f : Stack(c, f)
    BY StackIs
  <2>2. Len(Layers(c)) \in Nat
    BY LayersAre
  <2> QED
    BY <2>1, <2>2 DEF Stack
<1> DEFINE T == Len(c.valid)
           p == c.packs
<1>2. /\ c.valid \in Seq(Nat) /\ T \in Nat /\ p \in Nat /\ p > 0 /\ c.tb_steps \in Nat /\ c.wf_steps \in Nat
      /\ \A k \in 1 .. T : c.valid[k] <= p
      /\ c.wf_steps > 0 => T <= c.wf_steps
      /\ c.tb_steps <= c.wf_steps
      /\ WfShifts(c) \in Nat
  <2>1. /\ c.valid \in Seq(Nat) /\ c.packs \in Nat \ {0}
        /\ \A k \in DOMAIN c.valid : c.valid[k] <= c.packs
    BY DEF Sound, Adjusted
  <2>2. /\ c.wf_steps > 0 => Len(c.valid) <= c.wf_steps
        /\ c.tb_steps <= c.wf_steps /\ WfShifts(c) \in Nat /\ c.wf_steps \in Nat
        /\ c.tb_steps \in Nat
    BY DEF Sound, Waved, Tempered
  <2>3. T \in Nat /\ DOMAIN c.valid = 1 .. T
    BY <2>1
  <2> QED
    BY <2>1, <2>2, <2>3
<1>3. ASSUME c.wf_steps = 0 PROVE NumLevels(c) <= WfShifts(c) + 1
  <2>1. Layers(c) = <<1>>
    <3> DEFINE chunks == [i \in 1 .. CeilDiv(Len(c.valid), c.tb_steps) |-> TupleSum(ChunkOf(c, i))]
               ones == [i \in 1 .. TupleSum(c.valid) |-> 1]
    <3>1. Layers(c) = CASE c.wf_steps = 0 -> <<1>>
                        [] c.wf_steps > 0 /\ c.tb_steps = 0 -> ones
                        [] OTHER -> chunks
      BY Zenon DEF Layers, ChunkOf
    <3>2. ~(c.wf_steps > 0)
      BY <1>2, <1>3
    <3> HIDE DEF ones, chunks
    <3> QED
      BY <1>3, <3>1, <3>2
  <2>2. PICK f : Stack(c, f)
    BY StackIs
  <2>3. Len(<<1>>) = 1 /\ 1 \in 1 .. 1 /\ <<1>>[1] = 1
    OBVIOUS
  <2>4. NumLevels(c) = f[1] /\ f[0] = 0 /\ f[1] = f[1 - 1] + <<1>>[1]
    <3>1. Len(Layers(c)) = 1 /\ Layers(c)[1] = <<1>>[1]
      BY <2>1, <2>3
    <3>2. /\ NumLevels(c) = f[Len(Layers(c))] /\ f[0] = 0
          /\ \A l \in 1 .. Len(Layers(c)) : f[l] = f[l - 1] + Layers(c)[l]
      BY <2>2, Zenon DEF Stack
    <3> QED
      BY <2>3, <3>1, <3>2
  <2>5. NumLevels(c) = 1
    BY <2>3, <2>4
  <2> QED
    BY <1>2, <2>5
<1>4. ASSUME c.wf_steps > 0 PROVE NumLevels(c) <= WfShifts(c) + 1
  <2>1. WfShifts(c) = p * c.wf_steps - 1
    BY <1>4 DEF WfShifts
  <2>2. p * T \in Nat /\ p * c.wf_steps \in Nat /\ p * T <= p * c.wf_steps
    <3>1. T <= c.wf_steps
      BY <1>2, <1>4
    <3> HIDE DEF p, T
    <3> QED
      BY <1>2, <3>1, TimesUpTo
  <2>3. NumLevels(c) <= p * T
    <3>1. CASE c.tb_steps > 0
      BY <3>1, LayersShareOut
    <3>2. CASE c.tb_steps = 0
      <4> DEFINE N == TupleSum(c.valid)
                 ones == [i \in 1 .. N |-> 1]
      <4>1. N \in Nat /\ N <= p * T
        BY <1>2, SumBound
      <4>2. Layers(c) = ones
        <5> DEFINE chunks == [i \in 1 .. CeilDiv(Len(c.valid), c.tb_steps) |-> TupleSum(ChunkOf(c, i))]
        <5>1. Layers(c) = CASE c.wf_steps = 0 -> <<1>>
                            [] c.wf_steps > 0 /\ c.tb_steps = 0 -> ones
                            [] OTHER -> chunks
          BY Zenon DEF Layers, ChunkOf
        <5>2. c.wf_steps # 0
          BY <1>2, <1>4
        <5> HIDE DEF ones, chunks
        <5> QED
          BY <1>4, <3>2, <5>1, <5>2
      <4> HIDE DEF N
      <4>3. ones \in Seq(Nat) /\ Len(ones) = N /\ \A i \in 1 .. Len(ones) : ones[i] <= 1
        BY <4>1
      <4> HIDE DEF ones
      <4> DEFINE one == 1
      <4>4. one \in Nat /\ \A i \in 1 .. Len(ones) : ones[i] <= one
        BY <4>3
      <4> HIDE DEF one
      <4>5. TupleSum(ones) <= one * Len(ones)
        BY <4>3, <4>4, SumBound
      <4>6. NumLevels(c) = TupleSum(ones)
        BY <4>2 DEF NumLevels
      <4>7. one * Len(ones) = N
        BY <4>1, <4>3 DEF one
      <4> QED
        BY <1>1, <2>2, <4>1, <4>5, <4>6, <4>7
    <3> QED
      BY <1>2, <3>1, <3>2
  <2> HIDE DEF p, T
  <2> QED
    BY <1>1, <2>1, <2>2, <2>3
<1>5. NumLevels(c) <= WfShifts(c) + 1
  <2>1. c.wf_steps = 0 \/ c.wf_steps > 0
    BY <1>2
  <2> QED
    BY <1>3, <1>4, <2>1
<1>6. \A n \in 0 .. NumLevels(c) - 1 : n \in Levels(c)
  BY <1>1, <1>2, <1>5 DEF Levels
<1> QED
  BY <1>1, <1>5, <1>6

-----------------------------------------------------------------------------
(* The sections: the sides that exist, one after the other, and then the   *)
(* interior.                                                               *)
SideOrder(c) == {st \in Exterior(c) \X Exterior(c) : SideBefore(st[1], st[2])}

LEMMA SidesInOrder ==
  ASSUME NEW c, NEW d, Sound(c, d)
  PROVE  /\ IsFiniteSet(Exterior(c)) /\ StrictOrder(Exterior(c), SideOrder(c))
         /\ Exterior(c) \subseteq SectionTypes(d)
         /\ \A s \in Exterior(c) : s.part \in {"left", "right"} /\ s.dim \in 1 .. d
<1> DEFINE S == Exterior(c)
           R == SideOrder(c)
<1>1. d \in Nat /\ Dims(c) = 1 .. d
  BY DimsAre DEF Sound, Adjusted
<1>2. S \subseteq [part : {"left", "right"}, dim : 1 .. d]
  BY <1>1 DEF Exterior
<1>3. IsFiniteSet(S)
  <2> DEFINE P == {"left", "right"} \X (1 .. d)
             f == [x \in P |-> [part |-> x[1], dim |-> x[2]]]
  <2>1. IsFiniteSet(P)
    <3>1. IsFiniteSet({"left", "right"})
      <4>1. IsFiniteSet({"left"}) /\ {"left", "right"} = {"left"} \cup {"right"}
        BY FS_Singleton
      <4> QED
        BY <4>1, FS_AddElement
    <3>2. IsFiniteSet(1 .. d)
      BY <1>1, FS_Interval
    <3> QED
      BY <3>1, <3>2, FS_Product
  <2>2. IsFiniteSet({f[x] : x \in P})
    <3> HIDE DEF P
    <3> QED
      BY <2>1, FiniteImage
  <2>3. S \subseteq {f[x] : x \in P}
    <3> SUFFICES ASSUME NEW s \in S PROVE \E x \in P : s = f[x]
      OBVIOUS
    <3>1. s \in [part : {"left", "right"}, dim : 1 .. d]
      BY <1>2
    <3> HIDE DEF S
    <3>2. <<s.part, s.dim>> \in P
      BY <3>1
    <3>3. s = f[<<s.part, s.dim>>]
      BY <3>1
    <3> QED
      BY <3>2, <3>3
  <2> HIDE DEF P, S, f
  <2> QED
    BY <2>2, <2>3, FS_Subset
<1>4. ASSUME NEW s \in S PROVE s.part \in {"left", "right"} /\ s.dim \in 1 .. d
  <2>1. s \in [part : {"left", "right"}, dim : 1 .. d]
    BY <1>2
  <2> QED
    BY <2>1
<1>5. S \subseteq SectionTypes(d)
  <2> SUFFICES ASSUME NEW s \in S PROVE s \in SectionTypes(d)
    OBVIOUS
  <2>1. s \in [part : {"left", "right"}, dim : 1 .. d]
    BY <1>2
  <2> QED
    BY <1>1, <2>1 DEF SectionTypes
<1>6. \A s, t \in S : <<s, t>> \in R <=> SideBefore(s, t)
  BY DEF SideOrder
<1>7. \A s \in S : <<s, s>> \notin R
  <2> HIDE DEF S, R
  <2> SUFFICES ASSUME NEW s \in S PROVE ~SideBefore(s, s)
    BY <1>6
  <2> QED
    BY <1>4 DEF SideBefore
<1>8. \A s, t \in S : s # t => <<s, t>> \in R \/ <<t, s>> \in R
  <2> SUFFICES ASSUME NEW s \in S, NEW t \in S, s # t PROVE <<s, t>> \in R \/ <<t, s>> \in R
    OBVIOUS
  <2>1. s \in [part : {"left", "right"}, dim : 1 .. d] /\ t \in [part : {"left", "right"}, dim : 1 .. d]
    BY <1>2
  <2>2. s.part # t.part \/ s.dim # t.dim
    BY <2>1
  <2>3. SideBefore(s, t) \/ SideBefore(t, s)
    <3>1. /\ s.part \in {"left", "right"} /\ t.part \in {"left", "right"}
          /\ s.dim \in Nat /\ t.dim \in Nat
      BY <1>1, <1>4
    <3> QED
      BY <2>2, <3>1 DEF SideBefore
  <2> HIDE DEF S, R
  <2> QED
    BY <1>6, <2>3
<1>9. \A s, t, u \in S : <<s, t>> \in R /\ <<t, u>> \in R => <<s, u>> \in R
  <2> HIDE DEF S, R
  <2> SUFFICES ASSUME NEW s \in S, NEW t \in S, NEW u \in S, SideBefore(s, t), SideBefore(t, u)
               PROVE  SideBefore(s, u)
    BY <1>6
  <2>1. s.dim \in Nat /\ t.dim \in Nat /\ u.dim \in Nat
    BY <1>1, <1>4
  <2> QED
    BY <2>1 DEF SideBefore
<1> QED
  BY <1>3, <1>4, <1>5, <1>7, <1>8, <1>9 DEF StrictOrder

SectionBefore(c, s, t) ==
  s \in Exterior(c) /\ (t.part = "interior" \/ (t \in Exterior(c) /\ SideBefore(s, t)))

LEMMA SectionsAre ==
  ASSUME NEW c, NEW d, Sound(c, d)
  PROVE  /\ Sections(c) \in Seq(SectionTypes(d)) /\ Len(Sections(c)) > 0
         /\ \A t \in 1 .. Len(Sections(c)) : \A s \in 1 .. t - 1 :
              SectionBefore(c, Sections(c)[s], Sections(c)[t])
         /\ ~c.overlap => Sections(c)[1].part = "whole"
         /\ c.overlap => /\ Sections(c)[Len(Sections(c))].part = "interior"
                         /\ \A side \in Exterior(c) :
                              \E s \in 1 .. Len(Sections(c)) : Sections(c)[s] = side
<1> DEFINE S == Exterior(c)
           sides == Listed(S, SideOrder(c))
           whole == [part |-> "whole", dim |-> 0]
           inner == [part |-> "interior", dim |-> 0]
           K == Cardinality(S)
<1>1. IsFiniteSet(S) /\ StrictOrder(S, SideOrder(c)) /\ S \subseteq SectionTypes(d) /\ d \in Nat
  BY SidesInOrder DEF Sound, Adjusted
<1>2. whole \in SectionTypes(d) /\ inner \in SectionTypes(d)
  BY <1>1 DEF SectionTypes
<1>3. Sections(c) = IF ~c.overlap THEN <<whole>> ELSE Append(sides, inner)
  BY Zenon DEF Sections, SideOrder
<1> HIDE DEF whole
<1>4. ASSUME ~c.overlap
      PROVE  /\ Sections(c) \in Seq(SectionTypes(d)) /\ Len(Sections(c)) = 1
             /\ Sections(c)[1] = whole
  <2> HIDE DEF sides, inner, K
  <2>1. Sections(c) = <<whole>>
    BY <1>3, <1>4
  <2> QED
    BY <1>2, <2>1
<1>5. /\ K \in Nat /\ sides \in [1 .. K -> S]
      /\ \A k \in 1 .. K : Position(S, SideOrder(c), sides[k]) = k
      /\ \A x \in S : /\ Position(S, SideOrder(c), x) \in 1 .. K
                      /\ sides[Position(S, SideOrder(c), x)] = x
  <2> HIDE DEF S
  <2> QED
    BY <1>1, ListedIs, Zenon
<1> HIDE DEF sides, inner, K
<1>6. ASSUME c.overlap
      PROVE  /\ Sections(c) \in Seq(SectionTypes(d)) /\ Len(Sections(c)) = K + 1
             /\ Sections(c)[K + 1] = inner /\ \A k \in 1 .. K : Sections(c)[k] = sides[k]
  <2>1. Sections(c) = Append(sides, inner)
    BY <1>3, <1>6
  <2>2. sides \in [1 .. K -> SectionTypes(d)]
    BY <1>1, <1>5
  <2>3. sides \in Seq(SectionTypes(d)) /\ Len(sides) = K
    BY <1>5, <2>2
  <2> QED
    BY <1>2, <1>5, <2>1, <2>3
<1>7. ASSUME NEW k \in 1 .. K, NEW m \in 1 .. K, k < m
      PROVE  sides[k] \in S /\ sides[m] \in S /\ SideBefore(sides[k], sides[m])
  <2> HIDE DEF S
  <2>1. sides[k] \in S /\ sides[m] \in S
    BY <1>5
  <2>2. Position(S, SideOrder(c), sides[k]) = k /\ Position(S, SideOrder(c), sides[m]) = m
    BY <1>5
  <2>3. sides[k] # sides[m]
    BY <1>5, <1>7, <2>2
  <2>4. <<sides[k], sides[m]>> \in SideOrder(c) \/ <<sides[m], sides[k]>> \in SideOrder(c)
    BY <1>1, <2>1, <2>3, Zenon DEF StrictOrder
  <2>5. CASE <<sides[m], sides[k]>> \in SideOrder(c)
    <3>1. Position(S, SideOrder(c), sides[m]) < Position(S, SideOrder(c), sides[k])
      BY <1>1, <2>1, <2>5, PositionGrows
    <3> QED
      BY <1>5, <1>7, <2>2, <3>1
  <2>6. CASE <<sides[k], sides[m]>> \in SideOrder(c)
    BY <2>1, <2>6 DEF SideOrder
  <2> QED
    BY <2>4, <2>5, <2>6
<1>8. c.overlap \in BOOLEAN
  BY DEF Sound, Adjusted
<1>9. ASSUME NEW t \in 1 .. Len(Sections(c)), NEW s \in 1 .. t - 1
      PROVE  SectionBefore(c, Sections(c)[s], Sections(c)[t])
  <2>1. c.overlap
    <3> SUFFICES ASSUME ~c.overlap PROVE FALSE
      BY <1>8
    <3>1. t \in 1 .. 1
      BY <1>4
    <3> QED
      BY <3>1
  <2>2. s \in 1 .. K /\ t \in 1 .. K + 1 /\ s < t
    BY <1>5, <1>6, <2>1
  <2>3. Sections(c)[s] = sides[s] /\ sides[s] \in S
    BY <1>5, <1>6, <2>1, <2>2
  <2>4. CASE t = K + 1
    <3>1. Sections(c)[t].part = "interior"
      BY <1>6, <2>1, <2>4 DEF inner
    <3> QED
      BY <2>3, <3>1 DEF SectionBefore
  <2>5. CASE t # K + 1
    <3>1. t \in 1 .. K
      BY <1>5, <2>2, <2>5
    <3>2. Sections(c)[t] = sides[t]
      BY <1>6, <2>1, <3>1
    <3> QED
      BY <1>7, <2>2, <2>3, <3>1, <3>2 DEF SectionBefore
  <2> QED
    BY <2>4, <2>5
<1>10. ASSUME c.overlap, NEW side \in S
       PROVE  \E s \in 1 .. Len(Sections(c)) : Sections(c)[s] = side
  <2> DEFINE s == Position(S, SideOrder(c), side)
  <2>1. s \in 1 .. K /\ sides[s] = side
    BY <1>5
  <2> HIDE DEF s
  <2>2. s \in 1 .. K + 1 /\ Sections(c)[s] = side
    BY <1>5, <1>6, <1>10, <2>1
  <2> QED
    BY <1>6, <1>10, <2>2
<1>11. /\ Sections(c) \in Seq(SectionTypes(d)) /\ Len(Sections(c)) > 0
  BY <1>4, <1>5, <1>6, <1>8
<1>12. ~c.overlap => Sections(c)[1].part = "whole"
  BY <1>4 DEF whole
<1>13. c.overlap => Sections(c)[Len(Sections(c))].part = "interior"
  BY <1>6 DEF inner
<1> QED
  BY <1>9, <1>10, <1>11, <1>12, <1>13

-----------------------------------------------------------------------------
(* Which evaluations may follow which.                                     *)
LEMMA ShiftRegionHolds ==
  ASSUME NEW c, NEW d \in Nat, Sound(c, d), NEW rgn \in [1 .. d -> Spans], NEW n \in Levels(c),
         NEW sec \in SectionTypes(d), NEW j \in 1 .. d, NEW x \in Int
  PROVE  Holds(ShiftRegion(c, sec, rgn, n)[j], x) <=>
           /\ Holds(Shifted(c, rgn, n)[j], x) /\ Holds(Reach(c, n, j), x)
           /\ InPart(c, n, sec, j, x)
<1> DEFINE s == Shifted(c, rgn, n)
           t == TrimToRank(c, n, s)
<1>1. n \in Int
  BY SlopeIs
<1>2. s \in [1 .. d -> Spans]
  BY <1>1, ShiftedIs
<1> HIDE DEF s
<1>3. t \in [1 .. d -> Spans]
  BY <1>1, <1>2, TrimToRankIs
<1>4. Holds(t[j], x) <=> Holds(s[j], x) /\ Holds(Reach(c, n, j), x)
  BY <1>2, RankHolds
<1> HIDE DEF t
<1>5. Holds(TrimToSection(c, n, sec, t)[j], x) <=> Holds(t[j], x) /\ InPart(c, n, sec, j, x)
  BY <1>3, SectionHolds
<1>6. ShiftRegion(c, sec, rgn, n) = TrimToSection(c, n, sec, t)
  BY Zenon DEF ShiftRegion, t, s
<1> QED
  BY <1>4, <1>5, <1>6, Zenon DEF s

Clear(c, e, f) == \E j \in Dims(c) : Apart(f.box[j], e.box[j], Gap(c, e.level, f.level, j))
MayFollow(c, e, f) == e.level > f.level \/ Clear(c, e, f)

Placed(e, c, d, sec, rgn) ==
  /\ e.level \in Levels(c) /\ e.box \in [1 .. d -> Spans]
  /\ \A j \in 1 .. d : e.box[j].lo < e.box[j].hi
  /\ \A j \in 1 .. d, x \in Int :
       Holds(e.box[j], x) => /\ Holds(Shifted(c, rgn, e.level)[j], x)
                             /\ Holds(Reach(c, e.level, j), x)
                             /\ InPart(c, e.level, sec, j, x)

LEMMA SpanBefore ==
  ASSUME NEW a \in Spans, NEW b \in Spans, a.lo < a.hi, b.lo < b.hi, NEW gap \in Nat,
         \A x, y \in Int : Holds(a, x) /\ Holds(b, y) => x + gap < y
  PROVE  a.hi + gap <= b.lo
<1>1. a.lo \in Int /\ a.hi \in Int /\ b.lo \in Int /\ b.hi \in Int
  BY DEF Spans
<1> DEFINE x == a.hi - 1
           y == b.lo
<1>2. x \in Int /\ y \in Int /\ Holds(a, x) /\ Holds(b, y)
  BY <1>1 DEF Holds
<1>3. x + gap < y
  <2> HIDE DEF x, y
  <2> QED
    BY <1>2
<1> QED
  BY <1>1, <1>3

(* An angle is at least the halo: boxes whose edges recede by an angle at  *)
(* every level keep that much apart.                                       *)
LEMMA SlopeGap ==
  ASSUME NEW c, NEW d, Sound(c, d), NEW j \in 1 .. d, NEW n \in Levels(c), NEW m \in Levels(c),
         n <= m, c.max_halo[j] <= c.wf_angles[j] \/ n = m
  PROVE  /\ Gap(c, n, m, j) \in Nat /\ c.wf_angles[j] * n \in Nat /\ c.wf_angles[j] * m \in Nat
         /\ c.wf_angles[j] * n + Gap(c, n, m, j) <= c.wf_angles[j] * m
<1>1. n \in Nat /\ m \in Nat /\ c.wf_angles[j] \in Nat /\ c.max_halo[j] \in Nat
      /\ c.wf_angles[j] * n \in Nat /\ c.wf_angles[j] * m \in Nat
  <2>1. n \in Nat /\ c.wf_angles[j] \in Nat /\ c.wf_angles[j] * n \in Nat
    BY SlopeIs
  <2>2. m \in Nat /\ c.wf_angles[j] * m \in Nat
    BY SlopeIs
  <2>3. c.max_halo[j] \in Nat
    BY DEF Sound, Adjusted
  <2> QED
    BY <2>1, <2>2, <2>3
<1>2. CASE n = m
  <2>1. Gap(c, n, m, j) = 0
    BY <1>2 DEF Gap
  <2>2. c.wf_angles[j] * n = c.wf_angles[j] * m
    BY <1>2
  <2> QED
    BY <1>1, <2>1, <2>2
<1>3. CASE n # m
  <2>1. Gap(c, n, m, j) = c.max_halo[j]
    BY <1>3 DEF Gap
  <2>2. n < m
    BY <1>1, <1>3
  <2>3. c.wf_angles[j] * n + c.wf_angles[j] <= c.wf_angles[j] * m
    BY <1>1, <2>2, TimesMonotone
  <2> DEFINE p == c.wf_angles[j] * n
             q == c.wf_angles[j] * m
  <2>4. p \in Nat /\ q \in Nat /\ p + c.wf_angles[j] <= q
    BY <1>1, <2>3
  <2> HIDE DEF p, q
  <2>5. p + c.max_halo[j] <= q
    BY <1>1, <1>3, <2>4
  <2> QED
    BY <1>1, <2>1, <2>5 DEF p, q
<1> QED
  BY <1>2, <1>3

LEMMA GapIs ==
  ASSUME NEW c, NEW d, Sound(c, d), NEW j \in 1 .. d, NEW n, NEW m
  PROVE  Gap(c, n, m, j) \in Nat /\ Gap(c, n, m, j) <= c.max_halo[j]
<1>1. c.max_halo[j] \in Nat
  BY DEF Sound, Adjusted
<1> QED
  BY <1>1 DEF Gap

(* Sides recede an angle at every level, as the interior widens.           *)
LEMMA EdgesRecede ==
  ASSUME NEW c, NEW d, Sound(c, d), NEW j \in 1 .. d, NEW n \in Levels(c), NEW m \in Levels(c),
         n <= m
  PROVE  /\ DoesExteriorExist(c, j, TRUE) =>
              InteriorSpan(c, m, j).lo + Gap(c, n, m, j) <= InteriorSpan(c, n, j).lo
         /\ DoesExteriorExist(c, j, FALSE) =>
              InteriorSpan(c, n, j).hi + Gap(c, n, m, j) <= InteriorSpan(c, m, j).hi
<1> DEFINE an == c.wf_angles[j] * n
           am == c.wf_angles[j] * m
           gap == Gap(c, n, m, j)
           lo == c.mpi_interior[j].lo
           hi == c.mpi_interior[j].hi
           S == c.wf_shift_pts[j]
<1>1. /\ InteriorSpan(c, n, j).lo = lo + (IF lo > c.ext_bb[j].lo THEN S - an ELSE 0)
      /\ InteriorSpan(c, n, j).hi = hi - (IF hi < c.ext_bb[j].hi THEN S - an ELSE 0)
  BY InteriorIs DEF Grown
<1>2. /\ InteriorSpan(c, m, j).lo = lo + (IF lo > c.ext_bb[j].lo THEN S - am ELSE 0)
      /\ InteriorSpan(c, m, j).hi = hi - (IF hi < c.ext_bb[j].hi THEN S - am ELSE 0)
  BY InteriorIs DEF Grown
<1>3. lo \in Int /\ hi \in Int
  BY InteriorIs
<1>4. S \in Nat
  BY SlopeIs
<1>5. ASSUME c.left[j] \/ c.right[j]
      PROVE  gap \in Nat /\ an \in Nat /\ am \in Nat /\ an + gap <= am
  <2>1. c.max_halo[j] <= c.wf_angles[j]
    BY <1>5 DEF Sound, Waved, Fronted
  <2> QED
    BY <2>1, SlopeGap
<1>6. /\ lo > c.ext_bb[j].lo => c.left[j]
      /\ hi < c.ext_bb[j].hi => c.right[j]
  BY DEF Sound, Bounded, Edges
<1> DEFINE L == InteriorSpan(c, m, j).lo + gap <= InteriorSpan(c, n, j).lo
           H == InteriorSpan(c, n, j).hi + gap <= InteriorSpan(c, m, j).hi
<1>7. ASSUME lo > c.ext_bb[j].lo PROVE L
  <2>1. InteriorSpan(c, n, j).lo = lo + (S - an) /\ InteriorSpan(c, m, j).lo = lo + (S - am)
    BY <1>1, <1>2, <1>7
  <2>2. gap \in Nat /\ an \in Nat /\ am \in Nat /\ an + gap <= am
    BY <1>5, <1>6, <1>7
  <2> HIDE DEF an, am, gap, lo, S
  <2> QED
    BY <1>3, <1>4, <2>1, <2>2
<1>8. ASSUME hi < c.ext_bb[j].hi PROVE H
  <2>1. InteriorSpan(c, n, j).hi = hi - (S - an) /\ InteriorSpan(c, m, j).hi = hi - (S - am)
    BY <1>1, <1>2, <1>8
  <2>2. gap \in Nat /\ an \in Nat /\ am \in Nat /\ an + gap <= am
    BY <1>5, <1>6, <1>8
  <2> HIDE DEF an, am, gap, hi, S
  <2> QED
    BY <1>3, <1>4, <2>1, <2>2
<1> HIDE DEF L, H
<1> QED
  BY <1>7, <1>8 DEF DoesExteriorExist, L, H

LEMMA SectionsClear ==
  ASSUME NEW c, NEW d \in Nat, Sound(c, d), NEW f, NEW e, NEW first, NEW later, NEW rgnf, NEW rgne,
         Placed(f, c, d, first, rgnf), Placed(e, c, d, later, rgne),
         SectionBefore(c, first, later), e.level <= f.level
  PROVE  Clear(c, e, f)
<1> DEFINE j == first.dim
           n == e.level
           m == f.level
           gap == Gap(c, n, m, j)
           lo == InteriorSpan(c, n, j).lo
           hi == InteriorSpan(c, n, j).hi
           lom == InteriorSpan(c, m, j).lo
           him == InteriorSpan(c, m, j).hi
<1>1. first \in Exterior(c) /\ first.part \in {"left", "right"} /\ j \in 1 .. d
      /\ DoesExteriorExist(c, j, first.part = "left")
  <2>1. first \in Exterior(c)
    BY DEF SectionBefore
  <2>2. DoesExteriorExist(c, first.dim, first.part = "left")
    BY <2>1 DEF Exterior
  <2>3. first.part \in {"left", "right"} /\ first.dim \in 1 .. d
    BY <2>1, SidesInOrder
  <2> QED
    BY <2>1, <2>2, <2>3
<1>2. Dims(c) = 1 .. d
  BY DimsAre DEF Sound
<1>3. n \in Levels(c) /\ m \in Levels(c) /\ n <= m
  BY DEF Placed
<1>4. /\ e.box[j] \in Spans /\ f.box[j] \in Spans
      /\ e.box[j].lo < e.box[j].hi /\ f.box[j].lo < f.box[j].hi
      /\ \A x \in Int : Holds(e.box[j], x) => InPart(c, n, later, j, x)
      /\ \A x \in Int : Holds(f.box[j], x) => InPart(c, m, first, j, x)
  BY <1>1 DEF Placed
<1>5. later.part = "interior" \/ (later.part \in {"left", "right"} /\ later.dim \in Nat)
  <2>1. later \in Exterior(c) => later.part \in {"left", "right"} /\ later.dim \in 1 .. d
    BY SidesInOrder
  <2> QED
    BY <2>1 DEF SectionBefore
<1>6. gap \in Nat
  BY <1>1, GapIs
<1>7. lo \in Int /\ hi \in Int /\ lom \in Int /\ him \in Int
  <2>1. lo \in Int /\ hi \in Int
    BY <1>1, <1>3, InteriorIs
  <2>2. lom \in Int /\ him \in Int
    BY <1>1, <1>3, InteriorIs
  <2> QED
    BY <2>1, <2>2
<1>8. /\ DoesExteriorExist(c, j, TRUE) => lom + gap <= lo
      /\ DoesExteriorExist(c, j, FALSE) => hi + gap <= him
  BY <1>1, <1>3, EdgesRecede
<1>9. j \in Nat
  BY <1>1
<1>10. CASE first.part = "left"
  <2>1. DoesExteriorExist(c, j, TRUE)
    BY <1>1, <1>10
  <2>2. ASSUME NEW x \in Int, Holds(f.box[j], x) PROVE x < lom
    <3>1. InPart(c, m, first, j, x)
      BY <1>4, <2>2
    <3> QED
      BY <1>10, <3>1, Zenon DEF InPart
  <2>3. ASSUME NEW x \in Int, Holds(e.box[j], x) PROVE lo <= x
    <3>1. InPart(c, n, later, j, x)
      BY <1>4, <2>3
    <3>2. CASE later.part = "interior" \/ j < later.dim
      <4>1. Holds(InteriorSpan(c, n, j), x)
        BY <1>5, <3>1, <3>2 DEF InPart
      <4> QED
        BY <4>1 DEF Holds
    <3>3. CASE later.part = "right" /\ j = later.dim
      BY <3>1, <3>3 DEF InPart
    <3> QED
      BY <1>5, <3>2, <3>3 DEF SectionBefore, SideBefore
  <2>4. \A x, y \in Int : Holds(f.box[j], x) /\ Holds(e.box[j], y) => x + gap < y
    <3> SUFFICES ASSUME NEW x \in Int, NEW y \in Int, Holds(f.box[j], x), Holds(e.box[j], y)
                 PROVE  x + gap < y
      OBVIOUS
    <3>1. x < lom /\ lo <= y /\ lom + gap <= lo
      BY <1>8, <2>1, <2>2, <2>3
    <3> HIDE DEF lo, lom, gap
    <3> QED
      BY <1>6, <1>7, <3>1
  <2>5. f.box[j].hi + gap <= e.box[j].lo
    <3> HIDE DEF j, gap
    <3> QED
      BY <1>4, <1>6, <2>4, SpanBefore
  <2> QED
    BY <1>1, <1>2, <2>5 DEF Clear, Apart
<1>11. CASE first.part = "right"
  <2>1. DoesExteriorExist(c, j, FALSE)
    BY <1>1, <1>11
  <2>2. ASSUME NEW x \in Int, Holds(f.box[j], x) PROVE him <= x
    <3>1. InPart(c, m, first, j, x)
      BY <1>4, <2>2
    <3> QED
      BY <1>11, <3>1, Zenon DEF InPart
  <2>3. ASSUME NEW x \in Int, Holds(e.box[j], x) PROVE x < hi
    <3>1. InPart(c, n, later, j, x)
      BY <1>4, <2>3
    <3>2. later.part = "interior" \/ (later.part # "whole" /\ j < later.dim)
      BY <1>5, <1>11 DEF SectionBefore, SideBefore
    <3>3. Holds(InteriorSpan(c, n, j), x)
      BY <3>1, <3>2, Zenon DEF InPart
    <3> QED
      BY <3>3 DEF Holds
  <2>4. \A x, y \in Int : Holds(e.box[j], x) /\ Holds(f.box[j], y) => x + gap < y
    <3> SUFFICES ASSUME NEW x \in Int, NEW y \in Int, Holds(e.box[j], x), Holds(f.box[j], y)
                 PROVE  x + gap < y
      OBVIOUS
    <3>1. x < hi /\ him <= y /\ hi + gap <= him
      BY <1>8, <2>1, <2>2, <2>3
    <3> HIDE DEF hi, him, gap
    <3> QED
      BY <1>6, <1>7, <3>1
  <2>5. e.box[j].hi + gap <= f.box[j].lo
    <3> HIDE DEF j, gap
    <3> QED
      BY <1>4, <1>6, <2>4, SpanBefore
  <2> QED
    BY <1>1, <1>2, <2>5 DEF Clear, Apart
<1> QED
  BY <1>1, <1>10, <1>11

LEMMA ListedOrder ==
  ASSUME NEW S, IsFiniteSet(S), NEW before, StrictOrder(S, before),
         NEW k \in 1 .. Cardinality(S), NEW m \in 1 .. Cardinality(S), k < m
  PROVE  <<Listed(S, before)[k], Listed(S, before)[m]>> \in before
<1> DEFINE x == Listed(S, before)[k]
           y == Listed(S, before)[m]
<1>1. /\ x \in S /\ y \in S /\ Cardinality(S) \in Nat
      /\ Position(S, before, x) = k /\ Position(S, before, y) = m
  BY ListedIs
<1> HIDE DEF x, y
<1>2. x # y
  BY <1>1
<1>3. CASE <<y, x>> \in before
  <2>1. Position(S, before, y) < Position(S, before, x)
    BY <1>1, <1>3, PositionGrows
  <2> QED
    BY <1>1, <2>1
<1>4. <<x, y>> \in before \/ <<y, x>> \in before
  BY <1>1, <1>2, Zenon DEF StrictOrder
<1> QED
  BY <1>3, <1>4 DEF x, y

LEMMA TilesListed ==
  ASSUME NEW d \in Nat, NEW box, NEW stride, DOMAIN box = 1 .. d,
         \A j \in 1 .. d : box[j] \in Spans /\ stride[j] \in Nat \ {0},
         NEW tiles, tiles = Tiles(box, stride),
         NEW k \in 1 .. Cardinality(tiles), NEW m \in 1 .. Cardinality(tiles), k < m
  PROVE  \E j \in 1 .. d : /\ InOrder(tiles)[k][j].hi <= InOrder(tiles)[m][j].lo
                           /\ InOrder(tiles)[k][j].hi < box[j].hi
                           /\ box[j].lo < InOrder(tiles)[m][j].lo
                           /\ InOrder(tiles)[k][j].hi = InOrder(tiles)[k][j].lo + stride[j]
                           /\ TileOf(InOrder(tiles)[k][j], box[j], stride[j])
                           /\ TileOf(InOrder(tiles)[m][j], box[j], stride[j])
<1> DEFINE before == {tu \in tiles \X tiles : TileBefore(tu[1], tu[2])}
           t == InOrder(tiles)[k]
           u == InOrder(tiles)[m]
<1>1. IsFiniteSet(tiles) /\ StrictOrder(tiles, before)
  <2>1. IsFiniteSet(tiles)
    <3>1. IsFiniteSet(DOMAIN box)
      BY FS_Interval
    <3> QED
      BY <3>1, FiniteTiles
  <2>2. StrictOrder(tiles, before)
    BY TilesInOrder
  <2> QED
    BY <2>1, <2>2
<1>2. InOrder(tiles) = Listed(tiles, before)
  BY Zenon DEF InOrder
<1> HIDE DEF before
<1>3. <<t, u>> \in before
  BY <1>1, <1>2, ListedOrder
<1>4. t \in tiles /\ u \in tiles /\ TileBefore(t, u)
  <2> HIDE DEF t, u
  <2> QED
    BY <1>3 DEF before
<1> HIDE DEF t, u
<1>5. DOMAIN t = 1 .. d
  BY <1>4, TileIsFunction
<1>6. PICK j \in 1 .. d : t[j].lo < u[j].lo
  BY <1>4, <1>5 DEF TileBefore
<1>7. TileOf(t[j], box[j], stride[j]) /\ TileOf(u[j], box[j], stride[j])
  BY <1>4, TilesAre
<1>8. box[j] \in Spans /\ stride[j] \in Nat \ {0}
  OBVIOUS
<1>9. t[j].lo \in Int /\ u[j].lo \in Int /\ t[j].lo < t[j].hi /\ t[j].hi \in Int
  <2>1. t[j].lo \in Int /\ t[j].hi \in Int /\ t[j].lo < t[j].hi
    BY <1>7, <1>8, TileBounds
  <2>2. u[j].lo \in Int
    BY <1>7, <1>8, TileBounds
  <2> QED
    BY <2>1, <2>2
<1>10. t[j] # u[j]
  BY <1>6, <1>9
<1>11. \/ /\ t[j].lo + stride[j] <= u[j].lo /\ t[j].hi = t[j].lo + stride[j]
          /\ t[j].hi < box[j].hi /\ box[j].lo < u[j].lo
       \/ u[j].lo + stride[j] <= t[j].lo
  <2> DEFINE x == t[j]
             y == u[j]
             span == box[j]
             w == stride[j]
  <2>1. TileOf(x, span, w) /\ TileOf(y, span, w) /\ x # y /\ span \in Spans /\ w \in Nat \ {0}
    BY <1>7, <1>8, <1>10
  <2> HIDE DEF x, y, span, w
  <2>2. \/ x.lo + w <= y.lo /\ x.hi = x.lo + w /\ x.hi < span.hi /\ span.lo < y.lo
        \/ y.lo + w <= x.lo /\ y.hi = y.lo + w /\ y.hi < span.hi /\ span.lo < x.lo
    BY <2>1, TilesDisjoint
  <2> QED
    BY <2>2, Zenon DEF x, y, span, w
<1>12. /\ t[j].hi <= u[j].lo /\ t[j].hi < box[j].hi /\ box[j].lo < u[j].lo
       /\ t[j].hi = t[j].lo + stride[j]
  BY <1>6, <1>8, <1>9, <1>11
<1> QED
  BY <1>7, <1>12 DEF t, u

LEMMA PlacedIs ==
  ASSUME NEW c, NEW d \in Nat, Sound(c, d), NEW e, NEW sec, NEW rgn \in [1 .. d -> Spans],
         Placed(e, c, d, sec, rgn), NEW j \in 1 .. d
  PROVE  /\ e.level \in Levels(c) /\ e.level \in Nat /\ e.box \in [1 .. d -> Spans]
         /\ e.box[j] \in Spans /\ e.box[j].lo < e.box[j].hi
         /\ \A x \in Int : Holds(e.box[j], x) =>
              /\ rgn[j].lo <= x + c.wf_angles[j] * e.level
              /\ x + c.wf_angles[j] * e.level < rgn[j].hi
<1>1. e.level \in Levels(c) /\ e.box \in [1 .. d -> Spans] /\ e.box[j].lo < e.box[j].hi
  BY DEF Placed
<1>2. e.level \in Nat /\ c.wf_angles[j] * e.level \in Nat
  BY <1>1, SlopeIs
<1>3. ASSUME NEW x \in Int, Holds(e.box[j], x)
      PROVE  /\ rgn[j].lo <= x + c.wf_angles[j] * e.level
             /\ x + c.wf_angles[j] * e.level < rgn[j].hi
  <2>1. Holds(Shifted(c, rgn, e.level)[j], x)
    BY <1>3 DEF Placed
  <2>2. e.level \in Int
    BY <1>2
  <2>3. /\ Shifted(c, rgn, e.level)[j].lo = rgn[j].lo - c.wf_angles[j] * e.level
        /\ Shifted(c, rgn, e.level)[j].hi = rgn[j].hi - c.wf_angles[j] * e.level
    BY <2>2, ShiftedIs
  <2>4. rgn[j].lo \in Int /\ rgn[j].hi \in Int
    BY DEF Spans
  <2> DEFINE slope == c.wf_angles[j] * e.level
  <2>5. slope \in Nat
    BY <1>2
  <2> HIDE DEF slope
  <2>6. rgn[j].lo - slope <= x /\ x < rgn[j].hi - slope
    BY <2>1, <2>3 DEF Holds, slope
  <2>7. rgn[j].lo <= x + slope /\ x + slope < rgn[j].hi
    BY <2>4, <2>5, <2>6
  <2> QED
    BY <2>7 DEF slope
<1>4. e.box[j] \in Spans
  BY <1>1
<1> QED
  BY <1>1, <1>2, <1>3, <1>4

(* Of two regions, the later one starts beyond the earlier in a dimension  *)
(* that has several regions, where the angle covers the halo.              *)
LEMMA RegionsApart ==
  ASSUME NEW c, NEW d, Sound(c, d), NEW q \in DOMAIN Regions(c), NEW r \in 1 .. q - 1
  PROVE  \E j \in 1 .. d : /\ Regions(c)[r][j].hi <= Regions(c)[q][j].lo
                           /\ c.max_halo[j] <= c.wf_angles[j]
<1> DEFINE box == ScanBox(c)
           stride == StrideIn(box, c.region, c.rank)
           tiles == Tiles(box, stride)
<1>1. /\ DOMAIN box = 1 .. d
      /\ \A j \in 1 .. d : box[j] \in Spans /\ stride[j] \in Nat \ {0}
  BY ScanBoxIs
<1>2. /\ Cardinality(tiles) \in Nat /\ Regions(c) \in [1 .. Cardinality(tiles) -> tiles]
  BY RegionsAre
<1>3. Regions(c) = InOrder(tiles)
  BY Zenon DEF Regions, ScanBox
<1>4. q \in 1 .. Cardinality(tiles) /\ r \in 1 .. Cardinality(tiles) /\ r < q
  <2> DEFINE K == Cardinality(tiles)
  <2>1. K \in Nat /\ q \in 1 .. K
    BY <1>2
  <2> HIDE DEF K
  <2>2. r \in 1 .. K /\ r < q
    BY <2>1
  <2> QED
    BY <2>1, <2>2 DEF K
<1>5. d \in Nat
  BY DEF Sound, Adjusted
<1>6. Dims(c) = 1 .. d
  BY DimsAre DEF Sound
<1>7. \A j \in 1 .. d : stride[j] = IF c.region[j] >= c.rank[j] THEN Max({1, box[j].hi - box[j].lo})
                                    ELSE c.region[j]
  BY <1>1 DEF StrideIn
<1> HIDE DEF stride, box
<1> DEFINE t == Regions(c)[r]
           u == Regions(c)[q]
<1>8. PICK j \in 1 .. d :
        /\ t[j].hi <= u[j].lo /\ t[j].hi < box[j].hi /\ box[j].lo < u[j].lo
        /\ t[j].hi = t[j].lo + stride[j] /\ TileOf(t[j], box[j], stride[j])
  <2>1. \E j \in 1 .. d :
          /\ InOrder(tiles)[r][j].hi <= InOrder(tiles)[q][j].lo
          /\ InOrder(tiles)[r][j].hi < box[j].hi
          /\ box[j].lo < InOrder(tiles)[q][j].lo
          /\ InOrder(tiles)[r][j].hi = InOrder(tiles)[r][j].lo + stride[j]
          /\ TileOf(InOrder(tiles)[r][j], box[j], stride[j])
          /\ TileOf(InOrder(tiles)[q][j], box[j], stride[j])
    BY <1>1, <1>4, <1>5, TilesListed
  <2> QED
    BY <1>3, <2>1
<1> HIDE DEF t, u, tiles
<1>9. c.region[j] < c.rank[j]
  <2>1. box[j] \in Spans /\ stride[j] \in Nat \ {0}
    BY <1>1
  <2>2. t[j].lo \in Int /\ t[j].hi \in Int /\ box[j].lo <= t[j].lo
    BY <1>8, <2>1, TileBounds
  <2>3. box[j].lo \in Int /\ box[j].hi \in Int
    BY <2>1 DEF Spans
  <2>4. c.region[j] \in Nat /\ c.rank[j] \in Nat
    BY DEF Sound, Adjusted, Sizes
  <2>5. ASSUME c.region[j] >= c.rank[j] PROVE FALSE
    <3> DEFINE w == box[j].hi - box[j].lo
    <3>1. w \in Int
      BY <2>3
    <3>2. stride[j] = Max({1, w})
      BY <1>7, <2>5
    <3> HIDE DEF w
    <3>3. stride[j] >= w
      BY <3>1, <3>2, MaxOfTwo
    <3>4. t[j].hi >= box[j].hi
      BY <1>8, <2>1, <2>2, <2>3, <3>3 DEF w
    <3> QED
      BY <1>8, <2>2, <2>3, <3>4
  <2> QED
    BY <2>4, <2>5
<1>10. c.max_halo[j] <= c.wf_angles[j]
  BY <1>9 DEF Sound, Waved, Fronted
<1> QED
  BY <1>8, <1>10 DEF t, u

LEMMA RegionsClear ==
  ASSUME NEW c, NEW d, Sound(c, d), NEW q \in DOMAIN Regions(c), NEW r \in 1 .. q - 1,
         NEW f, NEW e, NEW sec, NEW sec2, Placed(f, c, d, sec, Regions(c)[r]),
         Placed(e, c, d, sec2, Regions(c)[q]), e.level <= f.level
  PROVE  Clear(c, e, f)
<1>0. d \in Nat /\ r \in DOMAIN Regions(c)
  <2>1. d \in Nat
    BY DEF Sound, Adjusted
  <2>2. DOMAIN Regions(c) = 1 .. Len(Regions(c)) /\ Len(Regions(c)) \in Nat
    BY RegionsAre
  <2> HIDE DEF Regions
  <2>3. q \in 1 .. Len(Regions(c))
    BY <2>2
  <2>4. r \in 1 .. Len(Regions(c))
    BY <2>2, <2>3
  <2> QED
    BY <2>1, <2>2, <2>4
<1> DEFINE t == Regions(c)[r]
           u == Regions(c)[q]
<1>1. PICK j \in 1 .. d : t[j].hi <= u[j].lo /\ c.max_halo[j] <= c.wf_angles[j]
  BY RegionsApart
<1>2. t \in [1 .. d -> Spans] /\ u \in [1 .. d -> Spans]
  BY <1>0, RegionsAre
<1>3. Placed(f, c, d, sec, t) /\ Placed(e, c, d, sec2, u)
  OBVIOUS
<1> HIDE DEF t, u
<1> DEFINE a == c.wf_angles[j]
           gap == Gap(c, e.level, f.level, j)
<1>4. /\ f.level \in Levels(c) /\ f.level \in Nat /\ f.box[j] \in Spans /\ f.box[j].lo < f.box[j].hi
      /\ \A x \in Int : Holds(f.box[j], x) => x + a * f.level < t[j].hi
  BY <1>0, <1>2, <1>3, PlacedIs
<1>5. /\ e.level \in Levels(c) /\ e.level \in Nat /\ e.box[j] \in Spans /\ e.box[j].lo < e.box[j].hi
      /\ \A x \in Int : Holds(e.box[j], x) => u[j].lo <= x + a * e.level
  BY <1>0, <1>2, <1>3, PlacedIs
<1>6. gap \in Nat /\ a * e.level \in Nat /\ a * f.level \in Nat
      /\ a * e.level + gap <= a * f.level
  BY <1>1, <1>4, <1>5, SlopeGap
<1>7. t[j].hi \in Int /\ u[j].lo \in Int
  BY <1>2 DEF Spans
<1> HIDE DEF a, gap
<1>8. ASSUME NEW x \in Int, NEW y \in Int, Holds(f.box[j], x), Holds(e.box[j], y)
      PROVE  x + gap < y
  <2> DEFINE fs == a * f.level
             es == a * e.level
  <2>1. x + fs < t[j].hi /\ u[j].lo <= y + es
    BY <1>4, <1>5, <1>8
  <2>2. fs \in Nat /\ es \in Nat /\ es + gap <= fs
    BY <1>6
  <2> HIDE DEF fs, es
  <2> QED
    BY <1>1, <1>6, <1>7, <2>1, <2>2
<1>9. f.box[j].hi + gap <= e.box[j].lo
  BY <1>4, <1>5, <1>6, <1>8, SpanBefore
<1>10. Dims(c) = 1 .. d
  BY DimsAre DEF Sound
<1> QED
  BY <1>9, <1>10 DEF Clear, Apart, gap

-----------------------------------------------------------------------------
(* What the loops at one place evaluate.                                   *)
AtPlace(c, d, s, r, l, ph) ==
  /\ Sound(c, d) /\ s \in 1 .. Len(Sections(c)) /\ r \in DOMAIN Regions(c)
  /\ l \in 1 .. Len(Layers(c)) /\ ph \in 0 .. NumPhases(c) - 1

MadeAt(e, c, d, s, r, l, blk, A, mb, n) ==
  Made(e, c, d, Sections(c)[s], Regions(c)[r], BaseOf(c, s, r, l), RegionShiftNum(c, l),
       blk, A, mb, n)

LEMMA PlaceTypes ==
  ASSUME NEW c, NEW d, NEW s, NEW r, NEW l, NEW ph, AtPlace(c, d, s, r, l, ph)
  PROVE  /\ Sound(c, d) /\ d \in Nat /\ Dims(c) = 1 .. d
         /\ Sections(c)[s] \in SectionTypes(d) /\ Regions(c)[r] \in [1 .. d -> Spans]
         /\ RegionShiftNum(c, l) \in Nat
         /\ LoopsAt(c, d, Sections(c)[s], r, l, ph, Regions(c)[r], RegionShiftNum(c, l),
                    BaseOf(c, s, r, l))
         /\ BaseOf(c, s, r, l) \in [1 .. d -> Spans]
<1>1. Sound(c, d) /\ d \in Nat
  BY DEF AtPlace, Sound, Adjusted
<1>2. Sections(c) \in Seq(SectionTypes(d))
  BY <1>1, SectionsAre
<1>3. s \in 1 .. Len(Sections(c))
  BY DEF AtPlace
<1>4. Sections(c)[s] \in SectionTypes(d)
  <2> DEFINE S == SectionTypes(d)
             ss == Sections(c)
  <2>1. ss \in Seq(S) /\ s \in 1 .. Len(ss)
    BY <1>2, <1>3
  <2> HIDE DEF S, ss
  <2>2. ss[s] \in S
    BY <2>1
  <2> QED
    BY <2>2 DEF S, ss
<1>5. Regions(c)[r] \in [1 .. d -> Spans]
  BY <1>1, RegionsAre DEF AtPlace
<1>6. RegionShiftNum(c, l) \in Nat
  BY <1>1, RegionShiftIs DEF AtPlace
<1>7. BaseOf(c, s, r, l) \in [1 .. d -> Spans]
  BY <1>1, <1>5, <1>6, BaseSpans DEF BaseOf
<1>8. LoopsAt(c, d, Sections(c)[s], r, l, ph, Regions(c)[r], RegionShiftNum(c, l),
              BaseOf(c, s, r, l))
  BY Zenon DEF LoopsAt, AtPlace, BaseOf
<1>9. Dims(c) = 1 .. d
  BY <1>1, DimsAre DEF Sound
<1> QED
  BY <1>1, <1>4, <1>5, <1>6, <1>7, <1>8, <1>9

LEMMA MadeIsPlaced ==
  ASSUME NEW c, NEW d, NEW s, NEW r, NEW l, NEW ph, AtPlace(c, d, s, r, l, ph),
         NEW e, NEW blk, NEW A, NEW mb, NEW n \in 0 .. Layers(c)[l] - 1,
         MadeAt(e, c, d, s, r, l, blk, A, mb, n)
  PROVE  /\ Placed(e, c, d, Sections(c)[s], Regions(c)[r])
         /\ e.level = RegionShiftNum(c, l) + n
         /\ e.level \in 0 .. NumLevels(c) - 1
<1> DEFINE sec == Sections(c)[s]
           rgn == Regions(c)[r]
           shift == RegionShiftNum(c, l)
           box == ShiftRegion(c, sec, rgn, shift + n)
<1>1. /\ Sound(c, d) /\ d \in Nat /\ sec \in SectionTypes(d) /\ rgn \in [1 .. d -> Spans]
      /\ shift \in Nat
  BY PlaceTypes
<1>2. l \in 1 .. Len(Layers(c))
  BY DEF AtPlace
<1>3. shift + n \in 0 .. NumLevels(c) - 1
  BY <1>1, <1>2, LayerRange
<1>4. shift + n \in Levels(c)
  BY <1>1, <1>3, FewLevels
<1>5. /\ e.level = shift + n /\ e.box \in [1 .. d -> Spans]
      /\ \A j \in 1 .. d : e.box[j].lo < e.box[j].hi
  BY DEF MadeAt, Made, InShape
<1>6. \A j \in 1 .. d : Within(e.box[j], box[j]) /\ box \in [1 .. d -> Spans]
  BY DEF MadeAt, Made
<1> HIDE DEF sec, rgn, shift
<1>7. ASSUME NEW j \in 1 .. d, NEW x \in Int, Holds(e.box[j], x)
      PROVE  /\ Holds(Shifted(c, rgn, e.level)[j], x)
             /\ Holds(Reach(c, e.level, j), x)
             /\ InPart(c, e.level, sec, j, x)
  <2>1. Holds(box[j], x) <=>
          /\ Holds(Shifted(c, rgn, shift + n)[j], x) /\ Holds(Reach(c, shift + n, j), x)
          /\ InPart(c, shift + n, sec, j, x)
    BY <1>1, <1>4, ShiftRegionHolds
  <2>2. Within(e.box[j], box[j]) /\ box[j] \in Spans /\ e.box[j] \in Spans
    BY <1>5, <1>6
  <2> HIDE DEF box
  <2>3. Holds(box[j], x)
    BY <1>7, <2>2 DEF Holds, Within, Spans
  <2> QED
    BY <1>5, <2>1, <2>3
<1>8. Placed(e, c, d, sec, rgn)
  BY <1>4, <1>5, <1>7 DEF Placed
<1> QED
  BY <1>3, <1>5, <1>8 DEF sec, rgn, shift

LEMMA ShareIs ==
  ASSUME NEW c, NEW d, NEW s, NEW r, NEW l, NEW ph, AtPlace(c, d, s, r, l, ph),
         NEW blk \in Blocks(c, BaseOf(c, s, r, l)), NEW e \in Share(c, s, r, l, ph, blk)
  PROVE  /\ \E A \in kSubset(ph, 1 .. d), mb \in MiniTiles(c, blk), n \in 0 .. Layers(c)[l] - 1 :
              /\ e = Evaluation(c, Sections(c)[s], Regions(c)[r], BaseOf(c, s, r, l),
                                RegionShiftNum(c, l), blk, A, mb, n)
              /\ MadeAt(e, c, d, s, r, l, blk, A, mb, n)
         /\ Placed(e, c, d, Sections(c)[s], Regions(c)[r])
         /\ e.level \in 0 .. NumLevels(c) - 1
<1>1. LoopsAt(c, d, Sections(c)[s], r, l, ph, Regions(c)[r], RegionShiftNum(c, l),
              BaseOf(c, s, r, l))
  BY PlaceTypes
<1>2. /\ e \in EvaluationsOf(c, Sections(c)[s], Regions(c)[r], BaseOf(c, s, r, l),
                             RegionShiftNum(c, l), Layers(c)[l], ph, blk)
      /\ NonEmpty(e.box)
  BY Zenon DEF Share
<1>3. \E A \in kSubset(ph, 1 .. d), mb \in MiniTiles(c, blk), n \in 0 .. Layers(c)[l] - 1 :
        /\ e = Evaluation(c, Sections(c)[s], Regions(c)[r], BaseOf(c, s, r, l),
                          RegionShiftNum(c, l), blk, A, mb, n)
        /\ Made(e, c, d, Sections(c)[s], Regions(c)[r], BaseOf(c, s, r, l),
                RegionShiftNum(c, l), blk, A, mb, n)
  BY <1>1, <1>2, EvaluationIs
<1>4. \E A \in kSubset(ph, 1 .. d), mb \in MiniTiles(c, blk), n \in 0 .. Layers(c)[l] - 1 :
        /\ e = Evaluation(c, Sections(c)[s], Regions(c)[r], BaseOf(c, s, r, l),
                          RegionShiftNum(c, l), blk, A, mb, n)
        /\ MadeAt(e, c, d, s, r, l, blk, A, mb, n)
  BY <1>3, Zenon DEF MadeAt
<1>5. PICK A \in kSubset(ph, 1 .. d), mb \in MiniTiles(c, blk), n \in 0 .. Layers(c)[l] - 1 :
        MadeAt(e, c, d, s, r, l, blk, A, mb, n)
  BY <1>4, Zenon
<1>6. Placed(e, c, d, Sections(c)[s], Regions(c)[r]) /\ e.level \in 0 .. NumLevels(c) - 1
  BY <1>5, MadeIsPlaced
<1> QED
  BY <1>4, <1>6, Zenon

-----------------------------------------------------------------------------
(* Sequences that follow a relation: any two of their members are related  *)
(* in the order they have.  What is flattened or left pending keeps it.    *)
InSeries(R, t) == \A i, k \in 1 .. Len(t) : i < k => <<t[i], t[k]>> \in R
Members(t) == {t[i] : i \in 1 .. Len(t)}

LEMMA SeriesJoined ==
  ASSUME NEW S, NEW R, NEW a \in Seq(S), NEW b \in Seq(S), InSeries(R, a), InSeries(R, b),
         \A x \in Members(a), y \in Members(b) : <<x, y>> \in R
  PROVE  /\ InSeries(R, a \o b)
         /\ \A x : x \in Members(a \o b) <=> x \in Members(a) \/ x \in Members(b)
<1> DEFINE t == a \o b
           m == Len(a)
           n == Len(b)
<1>1. m \in Nat /\ n \in Nat /\ Len(t) = m + n
  OBVIOUS
<1>2. ASSUME NEW i \in 1 .. m PROVE t[i] = a[i] /\ a[i] \in Members(a) /\ i \in 1 .. Len(t)
  BY <1>1 DEF Members
<1>3. ASSUME NEW i \in 1 .. n
      PROVE  t[m + i] = b[i] /\ b[i] \in Members(b) /\ m + i \in 1 .. Len(t)
  <2>1. t[m + i] = b[i]
    OBVIOUS
  <2>2. m + i \in 1 .. Len(t)
    <3> HIDE DEF m, n, t
    <3> QED
      BY <1>1
  <2> QED
    BY <2>1, <2>2 DEF Members
<1> HIDE DEF t
<1>4. ASSUME NEW i \in 1 .. Len(t), i > m PROVE i - m \in 1 .. n /\ t[i] = b[i - m]
  <2>1. i - m \in 1 .. n /\ m + (i - m) = i
    <3> HIDE DEF m, n
    <3> QED
      BY <1>1, <1>4
  <2>2. t[m + (i - m)] = b[i - m]
    BY <1>3, <2>1
  <2> QED
    BY <2>1, <2>2
<1>5. ASSUME NEW i \in 1 .. Len(t), NEW k \in 1 .. Len(t), i < k PROVE <<t[i], t[k]>> \in R
  <2> HIDE DEF m, n
  <2>1. CASE k <= m
    <3>1. i \in 1 .. m /\ k \in 1 .. m
      BY <1>1, <1>5, <2>1
    <3>2. <<a[i], a[k]>> \in R
      BY <1>5, <3>1 DEF InSeries, m
    <3> QED
      BY <1>2, <3>1, <3>2
  <2>2. CASE k > m /\ i <= m
    <3>1. i \in 1 .. m
      BY <1>1, <2>2
    <3>2. t[i] \in Members(a)
      BY <1>2, <3>1
    <3>3. k - m \in 1 .. n /\ t[k] = b[k - m]
      BY <1>4, <2>2
    <3>4. t[k] \in Members(b)
      BY <1>3, <3>3
    <3> QED
      BY <3>2, <3>4
  <2>3. CASE i > m
    <3>0. k > m
      BY <1>1, <1>5, <2>3
    <3>1. k - m \in 1 .. n /\ t[k] = b[k - m]
      BY <1>4, <3>0
    <3>2. i - m \in 1 .. n /\ t[i] = b[i - m]
      BY <1>4, <2>3
    <3>3. i - m < k - m
      BY <1>1, <1>5
    <3>4. <<b[i - m], b[k - m]>> \in R
      BY <3>1, <3>2, <3>3 DEF InSeries, n
    <3> QED
      BY <3>1, <3>2, <3>4
  <2> QED
    BY <1>1, <2>1, <2>2, <2>3
<1>6. ASSUME NEW x PROVE x \in Members(t) <=> x \in Members(a) \/ x \in Members(b)
  <2>1. ASSUME x \in Members(t) PROVE x \in Members(a) \/ x \in Members(b)
    <3>1. PICK i \in 1 .. Len(t) : x = t[i]
      BY <2>1 DEF Members
    <3>2. CASE i <= m
      <4>1. i \in 1 .. m
        BY <1>1, <3>2
      <4> QED
        BY <1>2, <3>1, <4>1
    <3>3. CASE i > m
      <4>1. i - m \in 1 .. n /\ t[i] = b[i - m]
        BY <1>4, <3>3
      <4> QED
        BY <1>3, <3>1, <4>1
    <3> QED
      BY <1>1, <3>2, <3>3
  <2>2. ASSUME x \in Members(a) PROVE x \in Members(t)
    <3>1. PICK i \in 1 .. m : x = a[i]
      BY <2>2 DEF Members
    <3> QED
      BY <1>2, <3>1 DEF Members
  <2>3. ASSUME x \in Members(b) PROVE x \in Members(t)
    <3>1. PICK i \in 1 .. n : x = b[i]
      BY <2>3 DEF Members
    <3>2. t[m + i] = b[i] /\ m + i \in 1 .. Len(t)
      BY <1>3
    <3> HIDE DEF m
    <3> QED
      BY <3>1, <3>2 DEF Members
  <2> QED
    BY <2>1, <2>2, <2>3
<1>7. InSeries(R, t)
  BY <1>5 DEF InSeries
<1> QED
  BY <1>6, <1>7 DEF t

SeriesOfSeries(R, ss) ==
  /\ \A k \in 1 .. Len(ss) : InSeries(R, ss[k])
  /\ \A i, k \in 1 .. Len(ss) : i < k =>
       \A x \in Members(ss[i]), y \in Members(ss[k]) : <<x, y>> \in R

LEMMA FlattenSeries ==
  ASSUME NEW S, NEW R, NEW ss \in Seq(Seq(S)), SeriesOfSeries(R, ss)
  PROVE  /\ InSeries(R, FlattenSeq(ss))
         /\ \A x : x \in Members(FlattenSeq(ss)) <=> \E k \in 1 .. Len(ss) : x \in Members(ss[k])
<1>1. PICK f : Flattened(f, ss, S)
  BY FlattenSteps
<1>2. Len(ss) \in Nat /\ \A k \in 1 .. Len(ss) : ss[k] \in Seq(S)
  OBVIOUS
<1> DEFINE Good(n) == /\ InSeries(R, f[n])
                      /\ \A x : x \in Members(f[n]) <=> \E k \in 1 .. n : x \in Members(ss[k])
           I == {n \in Nat : n <= Len(ss) => Good(n)}
<1>3. 0 \in I
  <2>1. f[0] = << >> /\ Len(<< >>) = 0
    BY <1>1 DEF Flattened
  <2>2. InSeries(R, << >>) /\ \A x : x \notin Members(<< >>)
    BY DEF InSeries, Members
  <2> QED
    BY <2>1, <2>2
<1>4. ASSUME NEW n \in Nat, n \in I PROVE n + 1 \in I
  <2> SUFFICES ASSUME n + 1 <= Len(ss) PROVE Good(n + 1)
    OBVIOUS
  <2>1. n <= Len(ss) /\ n \in 0 .. Len(ss) /\ n + 1 \in 1 .. Len(ss) /\ (n + 1) - 1 = n
    BY <1>2
  <2>2. Good(n)
    BY <1>4, <2>1
  <2>3. f[n] \in Seq(S) /\ ss[n + 1] \in Seq(S) /\ f[n + 1] = f[n] \o ss[n + 1]
    <3>1. f[n + 1] = f[(n + 1) - 1] \o ss[n + 1]
      BY <1>1, <2>1, Zenon DEF Flattened
    <3>2. f[n] \in Seq(S)
      BY <1>1, <2>1 DEF Flattened
    <3> QED
      BY <1>2, <2>1, <3>1, <3>2
  <2>4. InSeries(R, ss[n + 1])
    BY <2>1 DEF SeriesOfSeries
  <2>5. \A x \in Members(f[n]), y \in Members(ss[n + 1]) : <<x, y>> \in R
    <3> SUFFICES ASSUME NEW x \in Members(f[n]), NEW y \in Members(ss[n + 1])
                 PROVE  <<x, y>> \in R
      OBVIOUS
    <3>1. PICK k \in 1 .. n : x \in Members(ss[k])
      BY <2>2
    <3>2. k \in 1 .. Len(ss) /\ k < n + 1
      BY <1>2, <2>1
    <3> QED
      BY <2>1, <3>1, <3>2 DEF SeriesOfSeries
  <2>6. /\ InSeries(R, f[n + 1])
        /\ \A x : x \in Members(f[n + 1]) <=> x \in Members(f[n]) \/ x \in Members(ss[n + 1])
    BY <2>2, <2>3, <2>4, <2>5, SeriesJoined
  <2>7. \A x : x \in Members(f[n + 1]) <=> \E k \in 1 .. n + 1 : x \in Members(ss[k])
    <3>1. \A k : k \in 1 .. n + 1 <=> k \in 1 .. n \/ k = n + 1
      OBVIOUS
    <3> QED
      BY <2>2, <2>6, <3>1
  <2> QED
    BY <2>6, <2>7
<1> HIDE DEF I
<1>5. \A n \in Nat : n \in I
  BY <1>3, <1>4, NatSteps, Zenon
<1> HIDE DEF Good
<1>6. Good(Len(ss))
  <2>1. Len(ss) \in I
    BY <1>2, <1>5, Zenon
  <2>2. Len(ss) <= Len(ss) => Good(Len(ss))
    BY <2>1, Zenon DEF I
  <2> QED
    BY <1>2, <2>2
<1>7. FlattenSeq(ss) = f[Len(ss)]
  BY <1>1 DEF Flattened
<1> QED
  BY <1>6, <1>7 DEF Good

LEMMA PendingSeries ==
  ASSUME NEW S, NEW R, NEW evals \in Seq(S), InSeries(R, evals)
  PROVE  /\ InSeries(R, Pending(evals))
         /\ \A x : x \in Members(Pending(evals)) <=> x \in Members(evals) /\ NonEmpty(x.box)
<1> DEFINE P == {e \in S : NonEmpty(e.box)}
<1>1. PICK f : PendingTo(f, evals, S)
  BY PendingSteps
<1>2. Len(evals) \in Nat /\ \A k \in 1 .. Len(evals) : evals[k] \in S
  OBVIOUS
<1>3. f \in [0 .. Len(evals) -> Seq(P)] /\ f[0] = << >>
      /\ \A i \in 1 .. Len(evals) :
           f[i] = IF NonEmpty(evals[i].box) THEN Append(f[i - 1], evals[i]) ELSE f[i - 1]
  BY <1>1, Zenon DEF PendingTo
<1> DEFINE Good(n) == /\ InSeries(R, f[n])
                      /\ \A x : x \in Members(f[n]) <=>
                           \E k \in 1 .. n : x = evals[k] /\ NonEmpty(evals[k].box)
           I == {n \in Nat : n <= Len(evals) => Good(n)}
<1>4. 0 \in I
  <2>1. f[0] = << >> /\ Len(<< >>) = 0
    BY <1>3
  <2>2. InSeries(R, << >>) /\ \A x : x \notin Members(<< >>)
    BY DEF InSeries, Members
  <2> QED
    BY <2>1, <2>2
<1>5. ASSUME NEW n \in Nat, n \in I PROVE n + 1 \in I
  <2> SUFFICES ASSUME n + 1 <= Len(evals) PROVE Good(n + 1)
    OBVIOUS
  <2>1. n <= Len(evals) /\ n \in 0 .. Len(evals) /\ n + 1 \in 1 .. Len(evals) /\ (n + 1) - 1 = n
    BY <1>2
  <2>2. Good(n)
    BY <1>5, <2>1
  <2>3. f[n] \in Seq(P)
    BY <1>3, <2>1
  <2>4. f[n + 1] = IF NonEmpty(evals[n + 1].box) THEN Append(f[n], evals[n + 1]) ELSE f[n]
    <3>1. f[n + 1] = IF NonEmpty(evals[n + 1].box) THEN Append(f[(n + 1) - 1], evals[n + 1])
                     ELSE f[(n + 1) - 1]
      BY <1>3, <2>1, Zenon
    <3> QED
      BY <2>1, <3>1
  <2>5. \A k : k \in 1 .. n + 1 <=> k \in 1 .. n \/ k = n + 1
    OBVIOUS
  <2>6. CASE ~NonEmpty(evals[n + 1].box)
    BY <2>2, <2>4, <2>5, <2>6
  <2>7. CASE NonEmpty(evals[n + 1].box)
    <3> DEFINE b == << evals[n + 1] >>
               x0 == evals[n + 1]
    <3>1. x0 \in P
      BY <1>2, <2>1, <2>7
    <3>2. f[n + 1] = f[n] \o b /\ b \in Seq(P) /\ Len(b) = 1 /\ b[1] = x0
      <4> HIDE DEF P
      <4> QED
        BY <2>3, <2>4, <2>7, <3>1
    <3>3. InSeries(R, b) /\ \A x : x \in Members(b) <=> x = x0
      <4> HIDE DEF b, x0
      <4>1. InSeries(R, b)
        BY <3>2 DEF InSeries
      <4>2. Members(b) = {x0}
        BY <3>2 DEF Members
      <4> QED
        BY <4>1, <4>2
    <3>4. \A x \in Members(f[n]), y \in Members(b) : <<x, y>> \in R
      <4> SUFFICES ASSUME NEW x \in Members(f[n]) PROVE <<x, x0>> \in R
        BY <3>3
      <4>1. PICK k \in 1 .. n : x = evals[k]
        BY <2>2
      <4>2. k \in 1 .. Len(evals) /\ k < n + 1
        BY <1>2, <2>1
      <4> QED
        BY <2>1, <4>1, <4>2 DEF InSeries
    <3> HIDE DEF b, P
    <3>5. /\ InSeries(R, f[n] \o b)
          /\ \A x : x \in Members(f[n] \o b) <=> x \in Members(f[n]) \/ x \in Members(b)
      BY <2>2, <2>3, <3>2, <3>3, <3>4, SeriesJoined
    <3> QED
      BY <2>2, <2>5, <2>7, <3>2, <3>3, <3>5
  <2> QED
    BY <2>6, <2>7
<1> HIDE DEF I
<1>6. \A n \in Nat : n \in I
  BY <1>4, <1>5, NatSteps, Zenon
<1> HIDE DEF Good
<1>7. Good(Len(evals))
  <2>1. Len(evals) \in I
    BY <1>2, <1>6, Zenon
  <2>2. Len(evals) <= Len(evals) => Good(Len(evals))
    BY <2>1, Zenon DEF I
  <2> QED
    BY <1>2, <2>2
<1>8. Pending(evals) = f[Len(evals)]
  BY <1>1 DEF PendingTo
<1>9. \A x : x \in Members(Pending(evals)) <=> x \in Members(evals) /\ NonEmpty(x.box)
  <2>1. \A x : x \in Members(Pending(evals)) <=>
               \E k \in 1 .. Len(evals) : x = evals[k] /\ NonEmpty(evals[k].box)
    BY <1>7, <1>8, Zenon DEF Good
  <2>2. \A x : x \in Members(evals) <=> \E k \in 1 .. Len(evals) : x = evals[k]
    BY Zenon DEF Members
  <2> QED
    BY <2>1, <2>2, Zenon
<1> QED
  BY <1>7, <1>8, <1>9 DEF Good

-----------------------------------------------------------------------------
(* Inside a layer of a region: a shape that bridges a dimension follows a  *)
(* shape that does not.                                                    *)
LEMMA LaterShapeApart ==
  ASSUME NEW c, NEW N, NEW base, DOMAIN base = Dims(c), TbContext(c, N, base),
         NEW x, NEW s, NEW n, NEW A, NEW boxn, NEW y, NEW t, NEW m, NEW B, NEW boxm,
         NEW nphases \in Nat, nphases > 1, c.tb_steps > 0,
         ShapeOf(s, c, N, base, x, n, A, boxn, nphases),
         ShapeOf(t, c, N, base, y, m, B, boxm, nphases),
         NEW k \in Dims(c), k \in B, k \notin A, m <= n, m = n => boxm = boxn
  PROVE  Apart(s[k], t[k], Gap(c, n, m, k))
<1>1. /\ s[k] \in Spans /\ s[k].lo < s[k].hi /\ n \in Nat /\ BlockOf(c, x, base, k)
      /\ ShapeTypes(c, x, base, boxn, n, k)
      /\ s[k] = Shape(c, x, base, n, nphases, A, boxn, k)
  <2>1. /\ ShapeTypes(c, x, base, boxn, n, k)
        /\ s[k] = Shape(c, x, base, n, nphases, A, boxn, k)
        /\ s[k] \in Spans /\ s[k].lo < s[k].hi
    BY ShapeOfTypes
  <2>2. n \in Nat /\ BlockOf(c, x, base, k)
    BY DEF ShapeOf
  <2> QED
    BY <2>1, <2>2
<1>2. /\ t[k] \in Spans /\ t[k].lo < t[k].hi /\ m \in Nat /\ BlockOf(c, y, base, k)
      /\ ShapeTypes(c, y, base, boxm, m, k)
      /\ t[k] = Shape(c, y, base, m, nphases, B, boxm, k)
  <2>1. /\ ShapeTypes(c, y, base, boxm, m, k)
        /\ t[k] = Shape(c, y, base, m, nphases, B, boxm, k)
        /\ t[k] \in Spans /\ t[k].lo < t[k].hi
    BY ShapeOfTypes
  <2>2. m \in Nat /\ BlockOf(c, y, base, k)
    BY DEF ShapeOf
  <2> QED
    BY <2>1, <2>2
<1>3. CASE m < n
  BY <1>3, ApartInBridge
<1>4. CASE m = n /\ x[k] = y[k]
  <2>1. boxm = boxn
    BY <1>4
  <2>2. Shape(c, y, base, n, nphases, B, boxn, k) = Shape(c, x, base, n, nphases, B, boxn, k)
    BY <1>4, Zenon DEF Shape
  <2>3. t[k] = Shape(c, x, base, n, nphases, B, boxn, k)
    BY <1>2, <1>4, <2>1, <2>2
  <2> DEFINE one == x[k].lo <= base[k].lo /\ x[k].hi >= base[k].hi
             top == BaseHi(c, x[k], k) - c.tb_angles[k] * n
  <2>4. IF one THEN t[k].lo >= t[k].hi ELSE t[k].lo >= top
    <3>1. \A bridged : k \in bridged =>
            LET u == Shape(c, x, base, n, nphases, bridged, boxn, k)
            IN IF one THEN u.lo >= u.hi ELSE u.lo >= top
      BY <1>1, ShapeOfSame
    <3> QED
      BY <2>3, <3>1
  <2>5. ~one => s[k].hi = top
    BY <1>1, ShapeOfSame
  <2> HIDE DEF one, top
  <2>6. ~one
    BY <1>2, <2>4 DEF Spans
  <2>7. s[k].hi + 0 <= t[k].lo
    BY <1>1, <1>2, <2>4, <2>5, <2>6 DEF Spans
  <2>8. Gap(c, n, m, k) = 0
    BY <1>4 DEF Gap
  <2> QED
    BY <2>7, <2>8 DEF Apart
<1>5. CASE m = n /\ x[k] # y[k]
  <2>1. LeftOf(c, x, y, base, k) \/ LeftOf(c, y, x, base, k)
    BY <1>1, <1>2, <1>5, LeftOrRight
  <2>2. n <= m /\ m <= n
    BY <1>1, <1>2, <1>5
  <2>3. ASSUME LeftOf(c, x, y, base, k) PROVE s[k].hi + Gap(c, n, m, k) <= t[k].lo
    BY <2>2, <2>3, ApartBesides
  <2>4. ASSUME LeftOf(c, y, x, base, k) PROVE t[k].hi + Gap(c, m, n, k) <= s[k].lo
    BY <2>2, <2>4, ApartBesides
  <2>5. Gap(c, m, n, k) = Gap(c, n, m, k)
    BY GapSymmetric, Zenon
  <2> QED
    BY <2>1, <2>3, <2>4, <2>5, Zenon DEF Apart
<1> QED
  BY <1>1, <1>2, <1>3, <1>4, <1>5

LEMMA ShapesClear ==
  ASSUME NEW c, NEW d, NEW s, NEW r, NEW l, NEW ph, AtPlace(c, d, s, r, l, ph), WideRemainders(c),
         NEW x, NEW y, NEW A, NEW B, B \subseteq 1 .. d, B \ A # {}, NEW mb1, NEW mb2,
         NEW n \in 0 .. Layers(c)[l] - 1, NEW m \in 0 .. Layers(c)[l] - 1,
         NEW f, NEW e, MadeAt(f, c, d, s, r, l, x, A, mb1, n),
         MadeAt(e, c, d, s, r, l, y, B, mb2, m), NumPhases(c) > 1
  PROVE  MayFollow(c, e, f)
<1> DEFINE sec == Sections(c)[s]
           rgn == Regions(c)[r]
           shift == RegionShiftNum(c, l)
           base == BaseOf(c, s, r, l)
           boxn == ShiftRegion(c, sec, rgn, shift + n)
           boxm == ShiftRegion(c, sec, rgn, shift + m)
           sf == ShapeBox(c, x, base, n, A, boxn)
           se == ShapeBox(c, y, base, m, B, boxm)
           np == NumPhases(c)
<1>1. Sound(c, d) /\ d \in Nat /\ Dims(c) = 1 .. d /\ shift \in Nat
      /\ base \in [1 .. d -> Spans]
  BY PlaceTypes
<1>2. TbContext(c, Shifts(c), base)
  <2>1. r \in DOMAIN Regions(c)
    BY DEF AtPlace
  <2> QED
    BY <1>1, <2>1, TbContextIs DEF BaseOf
<1>3. np \in Nat /\ np > 1 /\ c.tb_steps > 0
  <2>1. c.tb_steps \in Nat
    BY <1>1 DEF Sound, Tempered
  <2>2. c.tb_steps # 0 /\ c.tb_steps > 0
    BY <2>1 DEF NumPhases
  <2>3. Len(c.rank) \in Nat
    <3>1. c.rank \in [1 .. d -> Nat \ {0}]
      BY <1>1 DEF Sound, Adjusted, Sizes
    <3> QED
      BY <1>1, <3>1
  <2> QED
    BY <2>2, <2>3 DEF NumPhases
<1>4. /\ f.level = shift + n /\ f.box \in [1 .. d -> Spans] /\ sf \in [1 .. d -> Spans]
      /\ ShapeOf(sf, c, Shifts(c), base, x, n, A, boxn, np)
      /\ \A j \in 1 .. d : sf[j].lo <= f.box[j].lo /\ f.box[j].hi <= sf[j].hi
  BY DEF MadeAt, Made, InShape
<1>5. /\ e.level = shift + m /\ e.box \in [1 .. d -> Spans] /\ se \in [1 .. d -> Spans]
      /\ ShapeOf(se, c, Shifts(c), base, y, m, B, boxm, np)
      /\ \A j \in 1 .. d : se[j].lo <= e.box[j].lo /\ e.box[j].hi <= se[j].hi
  BY DEF MadeAt, Made, InShape
<1>6. n \in Int /\ m \in Int
  OBVIOUS
<1>7. SUFFICES ASSUME ~(e.level > f.level) PROVE Clear(c, e, f)
  BY Zenon DEF MayFollow
<1>8. m <= n
  <2> HIDE DEF shift
  <2> QED
    BY <1>1, <1>4, <1>5, <1>6, <1>7
<1>9. m = n => boxm = boxn
  OBVIOUS
<1> HIDE DEF sec, rgn, shift, base, boxn, boxm, sf, se, np
<1>10. PICK k \in 1 .. d : k \in B /\ k \notin A
  OBVIOUS
<1>11. DOMAIN base = Dims(c) /\ k \in Dims(c)
  BY <1>1
<1>12. Apart(sf[k], se[k], Gap(c, n, m, k))
  BY <1>2, <1>3, <1>4, <1>5, <1>8, <1>9, <1>10, <1>11, LaterShapeApart
<1>13. Gap(c, n, m, k) \in Nat
  BY <1>1, GapIs
<1>14. Apart(f.box[k], e.box[k], Gap(c, n, m, k))
  BY <1>4, <1>5, <1>12, <1>13, BoxesApart
<1>15. Gap(c, e.level, f.level, k) = Gap(c, n, m, k)
  BY <1>1, <1>4, <1>5, <1>6 DEF Gap
<1> QED
  BY <1>11, <1>14, <1>15 DEF Clear

-----------------------------------------------------------------------------
(* Inside a shape: of two mini-blocks, the later one starts beyond the     *)
(* earlier in a dimension that has several mini-blocks.                    *)
LEMMA MiniBlocksApart ==
  ASSUME NEW c, NEW d, Sound(c, d), NEW blk \in [1 .. d -> Spans],
         NEW a \in DOMAIN MiniBlocks(c, blk), NEW b \in DOMAIN MiniBlocks(c, blk), a < b
  PROVE  \E j \in 1 .. d :
           /\ MiniBlocks(c, blk)[a] \in [1 .. d -> Spans]
           /\ MiniBlocks(c, blk)[b] \in [1 .. d -> Spans]
           /\ MiniBlocks(c, blk)[a][j].hi <= MiniBlocks(c, blk)[b][j].lo
           /\ MiniBlocks(c, blk)[a][j].hi < AdjBlock(c, blk)[j].hi
           /\ AdjBlock(c, blk)[j].lo < MiniBlocks(c, blk)[b][j].lo
           /\ c.tb_steps > 0 => c.max_halo[j] <= c.mb_angles[j]
<1> DEFINE adj == AdjBlock(c, blk)
           stride == MiniStride(c, adj)
           tiles == Tiles(adj, stride)
<1>1. adj \in [1 .. d -> Spans] /\ \A j \in 1 .. d : stride[j] \in Nat \ {0}
  <2>1. adj \in [1 .. d -> Spans]
    BY AdjBlockIs
  <2> HIDE DEF adj
  <2> QED
    BY <2>1, MiniStrideIs
<1>2. /\ Cardinality(tiles) \in Nat /\ MiniBlocks(c, blk) \in [1 .. Cardinality(tiles) -> tiles]
      /\ \A mb \in tiles : mb \in [1 .. d -> Spans]
  BY MiniBlocksAre DEF MiniTiles
<1>3. MiniBlocks(c, blk) = InOrder(tiles)
  BY Zenon DEF MiniBlocks, MiniStride
<1>4. stride = IF c.tb_steps = 0 THEN c.mini_block ELSE StrideIn(adj, c.mini_block, c.block)
  BY Zenon DEF MiniStride
<1> HIDE DEF adj, stride
<1>5. a \in 1 .. Cardinality(tiles) /\ b \in 1 .. Cardinality(tiles)
  BY <1>2
<1>6. d \in Nat
  BY DEF Sound, Adjusted
<1> DEFINE t == MiniBlocks(c, blk)[a]
           u == MiniBlocks(c, blk)[b]
<1>7. PICK j \in 1 .. d :
        /\ t[j].hi <= u[j].lo /\ t[j].hi < adj[j].hi /\ adj[j].lo < u[j].lo
        /\ t[j].hi = t[j].lo + stride[j] /\ TileOf(t[j], adj[j], stride[j])
  <2>1. DOMAIN adj = 1 .. d /\ \A j \in 1 .. d : adj[j] \in Spans /\ stride[j] \in Nat \ {0}
    BY <1>1
  <2>2. \E j \in 1 .. d :
          /\ InOrder(tiles)[a][j].hi <= InOrder(tiles)[b][j].lo
          /\ InOrder(tiles)[a][j].hi < adj[j].hi
          /\ adj[j].lo < InOrder(tiles)[b][j].lo
          /\ InOrder(tiles)[a][j].hi = InOrder(tiles)[a][j].lo + stride[j]
          /\ TileOf(InOrder(tiles)[a][j], adj[j], stride[j])
          /\ TileOf(InOrder(tiles)[b][j], adj[j], stride[j])
    BY <1>5, <1>6, <2>1, TilesListed
  <2> QED
    BY <1>3, <2>2
<1>8. t \in [1 .. d -> Spans] /\ u \in [1 .. d -> Spans]
  <2>1. t \in tiles /\ u \in tiles
    BY <1>2
  <2> HIDE DEF tiles, t, u
  <2> QED
    BY <1>2, <2>1
<1> HIDE DEF t, u, tiles
<1>9. ASSUME c.tb_steps > 0 PROVE c.max_halo[j] <= c.mb_angles[j]
  <2>0. MiniFits(c, j)
    BY DEF Sound, Tempered
  <2>1. adj[j] \in Spans /\ stride[j] \in Nat \ {0}
    BY <1>1
  <2>2. t[j].lo \in Int /\ t[j].hi \in Int /\ adj[j].lo <= t[j].lo
    BY <1>7, <2>1, TileBounds
  <2>3. adj[j].lo \in Int /\ adj[j].hi \in Int
    BY <2>1 DEF Spans
  <2>4. c.mini_block[j] \in Nat /\ c.block[j] \in Nat
    BY DEF Sound, Adjusted, Sizes
  <2>5. stride[j] = IF c.mini_block[j] >= c.block[j] THEN Max({1, adj[j].hi - adj[j].lo})
                    ELSE c.mini_block[j]
    BY <1>1, <1>4, <1>9 DEF StrideIn
  <2>6. ASSUME c.mini_block[j] >= c.block[j] PROVE FALSE
    <3> DEFINE w == adj[j].hi - adj[j].lo
    <3>1. w \in Int
      BY <2>3
    <3>2. stride[j] = Max({1, w})
      BY <2>5, <2>6
    <3> HIDE DEF w
    <3>3. stride[j] >= w
      BY <3>1, <3>2, MaxOfTwo
    <3>4. t[j].hi >= adj[j].hi
      BY <1>7, <2>1, <2>2, <2>3, <3>3 DEF w
    <3> QED
      BY <1>7, <2>2, <2>3, <3>4
  <2>7. c.mini_block[j] < c.block[j]
    BY <2>4, <2>6
  <2> QED
    BY <1>9, <2>0, <2>7 DEF MiniFits
<1> QED
  BY <1>7, <1>8, <1>9 DEF t, u, adj

LEMMA MiniBlocksClear ==
  ASSUME NEW c, NEW d, NEW s, NEW r, NEW l, NEW ph, AtPlace(c, d, s, r, l, ph),
         NEW blk \in [1 .. d -> Spans], NEW A,
         NEW a \in DOMAIN MiniBlocks(c, blk), NEW b \in DOMAIN MiniBlocks(c, blk), a < b,
         NEW n \in 0 .. Layers(c)[l] - 1, NEW m \in 0 .. Layers(c)[l] - 1,
         NEW f, NEW e, MadeAt(f, c, d, s, r, l, blk, A, MiniBlocks(c, blk)[a], n),
         MadeAt(e, c, d, s, r, l, blk, A, MiniBlocks(c, blk)[b], m)
  PROVE  MayFollow(c, e, f)
<1> DEFINE shift == RegionShiftNum(c, l)
           adj == AdjBlock(c, blk)
           t == MiniBlocks(c, blk)[a]
           u == MiniBlocks(c, blk)[b]
<1>1. Sound(c, d) /\ d \in Nat /\ Dims(c) = 1 .. d /\ shift \in Nat
  BY PlaceTypes
<1>2. PICK j \in 1 .. d :
        /\ t \in [1 .. d -> Spans] /\ u \in [1 .. d -> Spans]
        /\ t[j].hi <= u[j].lo /\ t[j].hi < adj[j].hi /\ adj[j].lo < u[j].lo
        /\ c.tb_steps > 0 => c.max_halo[j] <= c.mb_angles[j]
  BY <1>1, MiniBlocksApart
<1>3. /\ f.level = shift + n /\ f.box \in [1 .. d -> Spans] /\ (c.tb_steps = 0 => n = 0)
      /\ MiniBounds(c, adj, t, n, j, f.box[j])
  BY DEF MadeAt, Made, InShape
<1>4. /\ e.level = shift + m /\ e.box \in [1 .. d -> Spans]
      /\ MiniBounds(c, adj, u, m, j, e.box[j])
  BY DEF MadeAt, Made, InShape
<1>5. n \in Nat /\ m \in Nat
  OBVIOUS
<1> HIDE DEF shift, adj, t, u
<1>6. SUFFICES ASSUME ~(e.level > f.level) PROVE Clear(c, e, f)
  BY Zenon DEF MayFollow
<1>7. m <= n
  BY <1>1, <1>3, <1>4, <1>5, <1>6
<1> DEFINE g == c.mb_angles[j]
           gap == Gap(c, n, m, j)
<1>8. f.box[j].hi <= t[j].hi - g * n /\ u[j].lo - g * m <= e.box[j].lo
  BY <1>2, <1>3, <1>4 DEF MiniBounds
<1>9. g \in Nat
  BY <1>1 DEF Sound, Tempered
<1>10. gap \in Nat /\ gap <= c.max_halo[j] /\ c.max_halo[j] \in Nat
  <2>1. gap \in Nat /\ gap <= c.max_halo[j]
    BY <1>1, GapIs
  <2>2. c.max_halo[j] \in Nat
    BY <1>1 DEF Sound, Adjusted
  <2> QED
    BY <2>1, <2>2
<1>11. g * m \in Nat /\ g * n \in Nat /\ g * m + gap <= g * n
  <2>1. CASE m = n
    <3>1. gap = 0
      BY <2>1 DEF Gap
    <3> HIDE DEF g, gap
    <3>2. g * m \in Nat /\ g * n \in Nat
      BY <1>5, <1>9
    <3> QED
      BY <2>1, <3>1, <3>2
  <2>2. CASE m < n
    <3>0. c.tb_steps \in Nat
      BY <1>1 DEF Sound, Tempered
    <3>1. c.tb_steps > 0
      BY <1>3, <1>5, <2>2, <3>0
    <3>2. c.max_halo[j] <= g
      BY <1>2, <3>1
    <3> HIDE DEF g, gap
    <3>3. g * m \in Nat /\ g * n \in Nat /\ g * m + g <= g * n
      BY <1>5, <1>9, <2>2, TimesMonotone
    <3> DEFINE gm == g * m
               gn == g * n
    <3>4. gm \in Nat /\ gn \in Nat /\ gm + g <= gn
      BY <3>3
    <3> HIDE DEF gm, gn
    <3>5. gm + gap <= gn
      BY <1>9, <1>10, <3>2, <3>4
    <3> QED
      BY <3>3, <3>5 DEF gm, gn
  <2> QED
    BY <1>5, <1>7, <2>1, <2>2
<1>12. f.box[j].hi + gap <= e.box[j].lo
  <2>1. f.box[j].hi \in Int /\ e.box[j].lo \in Int /\ t[j].hi \in Int /\ u[j].lo \in Int
    BY <1>2, <1>3, <1>4 DEF Spans
  <2> DEFINE gm == g * m
             gn == g * n
  <2>2. gm \in Nat /\ gn \in Nat /\ gm + gap <= gn
        /\ f.box[j].hi <= t[j].hi - gn /\ u[j].lo - gm <= e.box[j].lo
    BY <1>8, <1>11
  <2>3. t[j].hi <= u[j].lo /\ gap \in Nat
    BY <1>2, <1>10
  <2> HIDE DEF gm, gn, gap
  <2> DEFINE fh == f.box[j].hi
             el == e.box[j].lo
             th == t[j].hi
             ul == u[j].lo
  <2>4. /\ fh \in Int /\ el \in Int /\ th \in Int /\ ul \in Int
        /\ th <= ul /\ fh <= th - gn /\ ul - gm <= el
    BY <2>1, <2>2, <2>3
  <2> HIDE DEF fh, el, th, ul
  <2>5. fh + gap <= el
    BY <2>2, <2>3, <2>4
  <2> QED
    BY <2>5 DEF fh, el
<1>13. Gap(c, e.level, f.level, j) = gap
  BY <1>1, <1>3, <1>4, <1>5 DEF Gap
<1> QED
  BY <1>1, <1>12, <1>13 DEF Clear, Apart

-----------------------------------------------------------------------------
(* Every tile and every shape is in its list.                              *)
LEMMA AllTilesListed ==
  ASSUME NEW d \in Nat, NEW box, NEW stride, DOMAIN box = 1 .. d,
         \A j \in 1 .. d : box[j] \in Spans /\ stride[j] \in Nat \ {0},
         NEW t \in Tiles(box, stride)
  PROVE  \E k \in 1 .. Cardinality(Tiles(box, stride)) : InOrder(Tiles(box, stride))[k] = t
<1> DEFINE tiles == Tiles(box, stride)
           before == {tu \in tiles \X tiles : TileBefore(tu[1], tu[2])}
<1>1. IsFiniteSet(tiles) /\ StrictOrder(tiles, before)
  <2>1. IsFiniteSet(tiles)
    <3>1. IsFiniteSet(DOMAIN box)
      BY FS_Interval
    <3> QED
      BY <3>1, FiniteTiles
  <2>2. StrictOrder(tiles, before)
    BY TilesInOrder
  <2> QED
    BY <2>1, <2>2
<1>2. InOrder(tiles) = Listed(tiles, before)
  BY Zenon DEF InOrder
<1>3. t \in tiles
  OBVIOUS
<1> HIDE DEF before, tiles
<1>4. /\ Position(tiles, before, t) \in 1 .. Cardinality(tiles)
      /\ Listed(tiles, before)[Position(tiles, before, t)] = t
  BY <1>1, <1>3, ListedIs
<1> QED
  BY <1>2, <1>4 DEF tiles

LEMMA MiniBlocksListed ==
  ASSUME NEW c, NEW d, Sound(c, d), NEW blk \in [1 .. d -> Spans], NEW mb \in MiniTiles(c, blk)
  PROVE  \E k \in DOMAIN MiniBlocks(c, blk) : MiniBlocks(c, blk)[k] = mb
<1> DEFINE adj == AdjBlock(c, blk)
           stride == MiniStride(c, adj)
           tiles == Tiles(adj, stride)
<1>1. d \in Nat /\ adj \in [1 .. d -> Spans]
  BY AdjBlockIs DEF Sound, Adjusted
<1>2. \A j \in 1 .. d : adj[j] \in Spans /\ stride[j] \in Nat \ {0}
  <2> HIDE DEF adj
  <2> QED
    BY <1>1, MiniStrideIs
<1>3. MiniBlocks(c, blk) = InOrder(tiles) /\ mb \in tiles
  BY Zenon DEF MiniBlocks, MiniTiles, MiniStride
<1>4. /\ Cardinality(tiles) \in Nat /\ MiniBlocks(c, blk) \in [1 .. Cardinality(tiles) -> tiles]
  BY MiniBlocksAre DEF MiniTiles
<1> HIDE DEF adj, stride
<1>5. \E k \in 1 .. Cardinality(tiles) : InOrder(tiles)[k] = mb
  <2>1. DOMAIN adj = 1 .. d
    BY <1>1
  <2> QED
    BY <1>1, <1>2, <1>3, <2>1, AllTilesListed
<1> HIDE DEF tiles
<1> QED
  BY <1>3, <1>4, <1>5

LEMMA RegionsListed ==
  ASSUME NEW c, NEW d, Sound(c, d),
         NEW t \in Tiles(ScanBox(c), StrideIn(ScanBox(c), c.region, c.rank))
  PROVE  \E r \in DOMAIN Regions(c) : Regions(c)[r] = t
<1> DEFINE box == ScanBox(c)
           stride == StrideIn(box, c.region, c.rank)
           tiles == Tiles(box, stride)
<1>0. d \in Nat
  BY DEF Sound, Adjusted
<1>1. DOMAIN box = 1 .. d /\ \A j \in 1 .. d : box[j] \in Spans /\ stride[j] \in Nat \ {0}
  BY ScanBoxIs
<1>2. Regions(c) = InOrder(tiles) /\ t \in tiles
  BY Zenon DEF Regions, ScanBox
<1>3. Cardinality(tiles) \in Nat /\ Regions(c) \in [1 .. Cardinality(tiles) -> tiles]
  BY RegionsAre
<1> HIDE DEF box, stride
<1>4. \E k \in 1 .. Cardinality(tiles) : InOrder(tiles)[k] = t
  BY <1>0, <1>1, <1>2, AllTilesListed
<1> HIDE DEF tiles
<1> QED
  BY <1>2, <1>3, <1>4

LEMMA ShapesListed ==
  ASSUME NEW c, NEW d, Sound(c, d), NEW ph
  PROVE  /\ Len(Shapes(c, ph)) \in Nat
         /\ \A k \in 1 .. Len(Shapes(c, ph)) : Shapes(c, ph)[k] \in kSubset(ph, 1 .. d)
         /\ \A A \in kSubset(ph, 1 .. d) : \E k \in 1 .. Len(Shapes(c, ph)) : Shapes(c, ph)[k] = A
         /\ \A i, k \in 1 .. Len(Shapes(c, ph)) : i < k => Shapes(c, ph)[i] # Shapes(c, ph)[k]
<1> DEFINE S == kSubset(ph, 1 .. d)
           before == {AB \in S \X S : ShapeBefore(AB[1], AB[2])}
           K == Cardinality(S)
<1>0. Dims(c) = 1 .. d /\ d \in Nat
  BY DimsAre DEF Sound, Adjusted
<1>1. IsFiniteSet(S)
  <2>1. IsFiniteSet(1 .. d)
    BY <1>0, FS_Interval
  <2>2. IsFiniteSet(SUBSET (1 .. d))
    BY <2>1, FS_SUBSET
  <2>3. S \subseteq SUBSET (1 .. d)
    BY DEF kSubset
  <2> QED
    BY <2>2, <2>3, FS_Subset
<1>2. StrictOrder(S, before)
  <2>1. \A A \in S : A \subseteq Nat
    BY <1>0 DEF kSubset
  <2> HIDE DEF S
  <2> QED
    BY <2>1, ShapesInOrder
<1>3. Shapes(c, ph) = Listed(S, before)
  BY <1>0, Zenon DEF Shapes
<1> HIDE DEF S, before
<1>4. /\ K \in Nat /\ Listed(S, before) \in [1 .. K -> S]
      /\ \A k \in 1 .. K : Position(S, before, Listed(S, before)[k]) = k
      /\ \A x \in S : /\ Position(S, before, x) \in 1 .. K
                      /\ Listed(S, before)[Position(S, before, x)] = x
  BY <1>1, <1>2, ListedIs
<1> HIDE DEF K
<1>5. Len(Shapes(c, ph)) = K
  BY <1>3, <1>4
<1>6. \A A \in S : \E k \in 1 .. K : Shapes(c, ph)[k] = A
  BY <1>3, <1>4
<1>7. ASSUME NEW i \in 1 .. K, NEW k \in 1 .. K, i < k PROVE Shapes(c, ph)[i] # Shapes(c, ph)[k]
  <2>1. Position(S, before, Listed(S, before)[i]) = i /\ Position(S, before, Listed(S, before)[k]) = k
    BY <1>4
  <2> QED
    BY <1>3, <1>7, <2>1
<1>8. \A k \in 1 .. K : Shapes(c, ph)[k] \in S
  BY <1>3, <1>4
<1> QED
  BY <1>4, <1>5, <1>6, <1>7, <1>8 DEF S

-----------------------------------------------------------------------------
(* The work of a block in a phase: its evaluations, in an order in which   *)
(* each may follow the ones before it.                                     *)
MayFollowIn(c, S) ==
  {fe \in S \X S : NonEmpty(fe[1].box) /\ NonEmpty(fe[2].box) => MayFollow(c, fe[2], fe[1])}

EvaluationAt(c, s, r, l, blk, A, mb, n) ==
  Evaluation(c, Sections(c)[s], Regions(c)[r], BaseOf(c, s, r, l), RegionShiftNum(c, l),
             blk, A, mb, n)

AllAt(c, s, r, l, ph, blk) ==
  EvaluationsOf(c, Sections(c)[s], Regions(c)[r], BaseOf(c, s, r, l), RegionShiftNum(c, l),
                Layers(c)[l], ph, blk)

LEMMA EvaluationListed ==
  ASSUME NEW c, NEW d, Dims(c) = 1 .. d, NEW s, NEW r, NEW l, NEW ph, NEW blk,
         NEW A \in kSubset(ph, 1 .. d), NEW mb \in MiniTiles(c, blk),
         NEW n \in 0 .. Layers(c)[l] - 1
  PROVE  EvaluationAt(c, s, r, l, blk, A, mb, n) \in AllAt(c, s, r, l, ph, blk)
<1> DEFINE x == <<A, mb, n>>
           nlevels == Layers(c)[l]
<1>1. x \in kSubset(ph, Dims(c)) \X MiniTiles(c, blk) \X (0 .. nlevels - 1)
  OBVIOUS
<1>2. x[1] = A /\ x[2] = mb /\ x[3] = n
  OBVIOUS
<1> HIDE DEF x
<1>3. EvaluationAt(c, s, r, l, blk, x[1], x[2], x[3]) \in AllAt(c, s, r, l, ph, blk)
  BY <1>1, Zenon DEF EvaluationsOf, EvaluationAt, AllAt
<1> QED
  BY <1>2, <1>3

LEMMA EvaluationAtMade ==
  ASSUME NEW c, NEW d, NEW s, NEW r, NEW l, NEW ph, AtPlace(c, d, s, r, l, ph),
         NEW blk \in Blocks(c, BaseOf(c, s, r, l)), NEW A \in kSubset(ph, 1 .. d),
         NEW mb \in MiniTiles(c, blk), NEW n \in 0 .. Layers(c)[l] - 1,
         NonEmpty(EvaluationAt(c, s, r, l, blk, A, mb, n).box)
  PROVE  MadeAt(EvaluationAt(c, s, r, l, blk, A, mb, n), c, d, s, r, l, blk, A, mb, n)
<1> DEFINE sec == Sections(c)[s]
           rgn == Regions(c)[r]
           shift == RegionShiftNum(c, l)
           base == BaseOf(c, s, r, l)
           e == EvaluationAt(c, s, r, l, blk, A, mb, n)
<1>1. LoopsAt(c, d, sec, r, l, ph, rgn, shift, base)
  BY PlaceTypes
<1>2. e = Evaluation(c, sec, rgn, base, shift, blk, A, mb, n) /\ NonEmpty(e.box)
  BY Zenon DEF EvaluationAt
<1> HIDE DEF e
<1>3. blk \in Blocks(c, base)
  OBVIOUS
<1> HIDE DEF sec, rgn, shift, base
<1>4. Made(e, c, d, sec, rgn, base, shift, blk, A, mb, n)
  BY <1>1, <1>2, <1>3, EvaluationMade
<1> QED
  BY <1>4, Zenon DEF MadeAt, e, sec, rgn, shift, base

LEMMA StepsMayFollow ==
  ASSUME NEW c, NEW d, NEW s, NEW r, NEW l, NEW ph, AtPlace(c, d, s, r, l, ph),
         NEW blk, NEW A, NEW mb, NEW n \in 0 .. Layers(c)[l] - 1, NEW m \in 0 .. Layers(c)[l] - 1,
         n < m
  PROVE  MayFollow(c, EvaluationAt(c, s, r, l, blk, A, mb, m), EvaluationAt(c, s, r, l, blk, A, mb, n))
<1> DEFINE shift == RegionShiftNum(c, l)
<1>1. shift \in Nat /\ n \in Nat /\ m \in Nat
  BY PlaceTypes
<1>2. /\ EvaluationAt(c, s, r, l, blk, A, mb, n).level = shift + n
      /\ EvaluationAt(c, s, r, l, blk, A, mb, m).level = shift + m
  BY DEF EvaluationAt, Evaluation
<1> HIDE DEF shift
<1> QED
  BY <1>1, <1>2 DEF MayFollow

LEMMA TupleIsSeq ==
  ASSUME NEW S, NEW N \in Nat, NEW t \in [1 .. N -> S]
  PROVE  t \in Seq(S) /\ Len(t) = N
OBVIOUS

LEMMA SeriesOfSteps ==
  ASSUME NEW c, NEW d, NEW s, NEW r, NEW l, NEW ph, AtPlace(c, d, s, r, l, ph),
         NEW blk, NEW A \in kSubset(ph, 1 .. d), NEW mb \in MiniTiles(c, blk),
         NEW t, t = [n \in 1 .. Layers(c)[l] |-> EvaluationAt(c, s, r, l, blk, A, mb, n - 1)]
  PROVE  /\ t \in Seq(AllAt(c, s, r, l, ph, blk))
         /\ InSeries(MayFollowIn(c, AllAt(c, s, r, l, ph, blk)), t)
         /\ \A x : x \in Members(t) <=>
              \E n \in 0 .. Layers(c)[l] - 1 : x = EvaluationAt(c, s, r, l, blk, A, mb, n)
<1> DEFINE S == AllAt(c, s, r, l, ph, blk)
           N == Layers(c)[l]
           ev(n) == EvaluationAt(c, s, r, l, blk, A, mb, n)
<1>1. Sound(c, d) /\ Dims(c) = 1 .. d
  BY PlaceTypes
<1>2. N \in Nat
  BY <1>1, LayersAre DEF AtPlace
<1>3. \A n \in 0 .. N - 1 : ev(n) \in S
  BY <1>1, EvaluationListed
<1>4. \A n, m \in 0 .. N - 1 : n < m => MayFollow(c, ev(m), ev(n))
  BY StepsMayFollow
<1>5. t = [n \in 1 .. N |-> ev(n - 1)]
  OBVIOUS
<1> HIDE DEF S, N, ev
<1>6. t \in [1 .. N -> S] /\ \A i \in 1 .. N : i - 1 \in 0 .. N - 1
  <2>1. \A i \in 1 .. N : i - 1 \in 0 .. N - 1
    BY <1>2
  <2>2. t \in [1 .. N -> S]
    BY <1>3, <1>5, <2>1
  <2> QED
    BY <2>1, <2>2
<1>7. t \in Seq(S) /\ Len(t) = N
  BY <1>2, <1>6, TupleIsSeq
<1>8. ASSUME NEW i \in 1 .. N, NEW k \in 1 .. N, i < k PROVE <<t[i], t[k]>> \in MayFollowIn(c, S)
  <2>1. i - 1 < k - 1 /\ i - 1 \in 0 .. N - 1 /\ k - 1 \in 0 .. N - 1
    BY <1>2, <1>6, <1>8
  <2>2. MayFollow(c, ev(k - 1), ev(i - 1))
    BY <1>4, <2>1
  <2>3. t[i] = ev(i - 1) /\ t[k] = ev(k - 1) /\ t[i] \in S /\ t[k] \in S
    BY <1>5, <1>6
  <2>4. MayFollow(c, t[k], t[i])
    BY <2>2, <2>3
  <2> DEFINE fe == <<t[i], t[k]>>
  <2>5. fe[1] = t[i] /\ fe[2] = t[k] /\ fe \in S \X S
    BY <2>3
  <2> HIDE DEF fe
  <2>6. fe \in MayFollowIn(c, S)
    BY <2>4, <2>5, Zenon DEF MayFollowIn
  <2> QED
    BY <2>6 DEF fe
<1>9. ASSUME NEW x PROVE x \in Members(t) <=> \E n \in 0 .. N - 1 : x = ev(n)
  <2>1. ASSUME x \in Members(t) PROVE \E n \in 0 .. N - 1 : x = ev(n)
    <3>1. PICK i \in 1 .. N : x = t[i]
      BY <1>7, <2>1 DEF Members
    <3> QED
      BY <1>5, <1>6, <3>1
  <2>2. ASSUME NEW n \in 0 .. N - 1 PROVE ev(n) \in Members(t)
    <3>1. n + 1 \in 1 .. N /\ (n + 1) - 1 = n
      BY <1>2
    <3>2. t[n + 1] = ev(n)
      BY <1>5, <3>1
    <3> QED
      BY <1>7, <3>1, <3>2 DEF Members
  <2> QED
    BY <2>1, <2>2
<1>10. InSeries(MayFollowIn(c, S), t)
  BY <1>7, <1>8 DEF InSeries
<1> QED
  BY <1>7, <1>9, <1>10, Zenon DEF S, N, ev

StepsOf(c, s, r, l, blk, A, mb) ==
  [n \in 1 .. Layers(c)[l] |-> EvaluationAt(c, s, r, l, blk, A, mb, n - 1)]
RowsOf(c, s, r, l, blk, A) ==
  [k \in 1 .. Len(MiniBlocks(c, blk)) |-> StepsOf(c, s, r, l, blk, A, MiniBlocks(c, blk)[k])]
ScanOf(c, s, r, l, blk, A) == FlattenSeq(RowsOf(c, s, r, l, blk, A))

LEMMA PairFollows ==
  ASSUME NEW c, NEW S, NEW x \in S, NEW y \in S,
         NonEmpty(x.box) /\ NonEmpty(y.box) => MayFollow(c, y, x)
  PROVE  <<x, y>> \in MayFollowIn(c, S)
<1> DEFINE fe == <<x, y>>
<1>1. fe[1] = x /\ fe[2] = y /\ fe \in S \X S
  OBVIOUS
<1> HIDE DEF fe
<1>2. fe \in MayFollowIn(c, S)
  BY <1>1 DEF MayFollowIn
<1> QED
  BY <1>2 DEF fe

LEMMA SeriesOfMiniBlocks ==
  ASSUME NEW c, NEW d, NEW s, NEW r, NEW l, NEW ph, AtPlace(c, d, s, r, l, ph),
         NEW blk \in Blocks(c, BaseOf(c, s, r, l)), NEW A \in kSubset(ph, 1 .. d)
  PROVE  /\ ScanOf(c, s, r, l, blk, A) \in Seq(AllAt(c, s, r, l, ph, blk))
         /\ InSeries(MayFollowIn(c, AllAt(c, s, r, l, ph, blk)), ScanOf(c, s, r, l, blk, A))
         /\ \A x : x \in Members(ScanOf(c, s, r, l, blk, A)) <=>
              \E mb \in MiniTiles(c, blk), n \in 0 .. Layers(c)[l] - 1 :
                 x = EvaluationAt(c, s, r, l, blk, A, mb, n)
<1> DEFINE S == AllAt(c, s, r, l, ph, blk)
           R == MayFollowIn(c, S)
           N == Layers(c)[l]
           mbs == MiniBlocks(c, blk)
           K == Len(mbs)
           ev(mb, n) == EvaluationAt(c, s, r, l, blk, A, mb, n)
           row(mb) == StepsOf(c, s, r, l, blk, A, mb)
           rows == RowsOf(c, s, r, l, blk, A)
<1>1. Sound(c, d) /\ d \in Nat /\ BaseOf(c, s, r, l) \in [1 .. d -> Spans]
  BY PlaceTypes
<1>2. blk \in [1 .. d -> Spans]
  BY <1>1, BlocksAre
<1>3. /\ K \in Nat /\ DOMAIN mbs = 1 .. K
      /\ \A k \in 1 .. K : mbs[k] \in MiniTiles(c, blk)
      /\ \A mb \in MiniTiles(c, blk) : \E k \in 1 .. K : mbs[k] = mb
  <2> DEFINE M == Cardinality(MiniTiles(c, blk))
             T == MiniTiles(c, blk)
  <2>1. M \in Nat /\ mbs \in [1 .. M -> T]
    BY <1>1, <1>2, MiniBlocksAre
  <2>2. \A mb \in T : \E k \in DOMAIN mbs : mbs[k] = mb
    BY <1>1, <1>2, MiniBlocksListed
  <2> HIDE DEF M, T, mbs
  <2>3. K = M /\ DOMAIN mbs = 1 .. K
    BY <2>1
  <2> QED
    BY <2>1, <2>2, <2>3 DEF T
<1>4. ASSUME NEW mb \in MiniTiles(c, blk)
      PROVE  /\ row(mb) \in Seq(S) /\ InSeries(R, row(mb))
             /\ \A x : x \in Members(row(mb)) <=> \E n \in 0 .. N - 1 : x = ev(mb, n)
  <2>1. row(mb) = [n \in 1 .. Layers(c)[l] |-> EvaluationAt(c, s, r, l, blk, A, mb, n - 1)]
    BY DEF StepsOf
  <2> HIDE DEF row
  <2> QED
    BY <2>1, SeriesOfSteps
<1>5. ASSUME NEW a \in 1 .. K, NEW b \in 1 .. K, a < b, NEW x \in Members(row(mbs[a])),
             NEW y \in Members(row(mbs[b]))
      PROVE  <<x, y>> \in R
  <2>1. mbs[a] \in MiniTiles(c, blk) /\ mbs[b] \in MiniTiles(c, blk)
    BY <1>3
  <2>2. PICK n \in 0 .. N - 1 : x = ev(mbs[a], n)
    BY <1>4, <1>5, <2>1
  <2>3. PICK m \in 0 .. N - 1 : y = ev(mbs[b], m)
    BY <1>4, <1>5, <2>1
  <2>4. x \in S /\ y \in S
    <3>1. Dims(c) = 1 .. d
      BY <1>1, DimsAre DEF Sound
    <3>2. ev(mbs[a], n) \in S
      BY <2>1, <3>1, EvaluationListed
    <3>3. ev(mbs[b], m) \in S
      BY <2>1, <3>1, EvaluationListed
    <3> QED
      BY <2>2, <2>3, <3>2, <3>3
  <2>5. ASSUME NonEmpty(x.box), NonEmpty(y.box) PROVE MayFollow(c, y, x)
    <3>1. MadeAt(x, c, d, s, r, l, blk, A, mbs[a], n)
      BY <2>1, <2>2, <2>5, EvaluationAtMade
    <3>2. MadeAt(y, c, d, s, r, l, blk, A, mbs[b], m)
      BY <2>1, <2>3, <2>5, EvaluationAtMade
    <3>3. a \in DOMAIN mbs /\ b \in DOMAIN mbs
      BY <1>3
    <3> QED
      BY <1>2, <1>5, <3>1, <3>2, <3>3, MiniBlocksClear
  <2> HIDE DEF S
  <2> QED
    BY <2>4, <2>5, PairFollows
<1>6. rows = [k \in 1 .. K |-> row(mbs[k])]
  BY Zenon DEF RowsOf
<1> HIDE DEF S, mbs, row, rows, ev, N
<1>7. rows \in Seq(Seq(S)) /\ Len(rows) = K
  <2>1. rows \in [1 .. K -> Seq(S)]
    BY <1>3, <1>4, <1>6
  <2> HIDE DEF K
  <2> QED
    BY <1>3, <2>1, TupleIsSeq
<1> HIDE DEF R, K
<1>8. SeriesOfSeries(R, rows)
  <2>1. \A k \in 1 .. K : rows[k] = row(mbs[k]) /\ mbs[k] \in MiniTiles(c, blk)
    BY <1>3, <1>6
  <2>2. \A k \in 1 .. K : InSeries(R, rows[k])
    BY <1>4, <2>1
  <2>3. \A a, b \in 1 .. K : a < b =>
          \A x \in Members(rows[a]), y \in Members(rows[b]) : <<x, y>> \in R
    BY <1>5, <2>1
  <2> QED
    BY <1>7, <2>2, <2>3 DEF SeriesOfSeries
<1>9. /\ InSeries(R, FlattenSeq(rows)) /\ FlattenSeq(rows) \in Seq(S)
      /\ \A x : x \in Members(FlattenSeq(rows)) <=> \E k \in 1 .. K : x \in Members(rows[k])
  <2>1. FlattenSeq(rows) \in Seq(S)
    BY <1>7, FlattenInSeq
  <2>2. /\ InSeries(R, FlattenSeq(rows))
        /\ \A x : x \in Members(FlattenSeq(rows)) <=> \E k \in 1 .. Len(rows) : x \in Members(rows[k])
    BY <1>7, <1>8, FlattenSeries
  <2> QED
    BY <1>7, <2>1, <2>2
<1>10. ASSUME NEW x
       PROVE  x \in Members(FlattenSeq(rows)) <=>
                \E mb \in MiniTiles(c, blk), n \in 0 .. N - 1 : x = ev(mb, n)
  <2>1. \A k \in 1 .. K : rows[k] = row(mbs[k]) /\ mbs[k] \in MiniTiles(c, blk)
    BY <1>3, <1>6
  <2>2. ASSUME x \in Members(FlattenSeq(rows))
        PROVE  \E mb \in MiniTiles(c, blk), n \in 0 .. N - 1 : x = ev(mb, n)
    <3>1. PICK k \in 1 .. K : x \in Members(rows[k])
      BY <1>9, <2>2
    <3> QED
      BY <1>4, <2>1, <3>1
  <2>3. ASSUME NEW mb \in MiniTiles(c, blk), NEW n \in 0 .. N - 1, x = ev(mb, n)
        PROVE  x \in Members(FlattenSeq(rows))
    <3>1. PICK k \in 1 .. K : mbs[k] = mb
      BY <1>3
    <3>2. x \in Members(row(mb))
      BY <1>4, <2>3
    <3> QED
      BY <1>9, <2>1, <3>1, <3>2
  <2> QED
    BY <2>2, <2>3
<1>11. ScanOf(c, s, r, l, blk, A) = FlattenSeq(rows)
  BY Zenon DEF ScanOf, rows
<1> QED
  BY <1>9, <1>10, <1>11, Zenon DEF S, R, N, ev

LEMMA BridgesNeedPhases ==
  ASSUME NEW c, NEW d, Sound(c, d), NEW ph \in 0 .. NumPhases(c) - 1,
         NEW A \in kSubset(ph, 1 .. d), NEW B \in kSubset(ph, 1 .. d), A # B
  PROVE  NumPhases(c) > 1 /\ B \subseteq 1 .. d /\ B \ A # {}
<1>1. d \in Nat
  BY DEF Sound, Adjusted
<1>2. /\ A \subseteq 1 .. d /\ IsFiniteSet(A) /\ Cardinality(A) = ph
      /\ A \ B # {} /\ B \ A # {}
  BY <1>1, KSubsetIs
<1>3. B \subseteq 1 .. d
  BY <1>1, KSubsetIs
<1>4. ph # 0
  <2>1. ph = 0 => A = {}
    BY <1>2, FS_EmptySet
  <2> QED
    BY <1>2, <2>1
<1>5. NumPhases(c) \in Nat
  <2>1. c.rank \in [1 .. d -> Nat \ {0}]
    BY DEF Sound, Adjusted, Sizes
  <2>2. Len(c.rank) \in Nat
    BY <1>1, <2>1
  <2> QED
    BY <2>2 DEF NumPhases
<1>6. NumPhases(c) > 1
  BY <1>4, <1>5
<1> QED
  BY <1>2, <1>3, <1>6

LEMMA WorkInOrder ==
  ASSUME NEW c, NEW d, NEW s, NEW r, NEW l, NEW ph, AtPlace(c, d, s, r, l, ph), WideRemainders(c),
         NEW blk \in Blocks(c, BaseOf(c, s, r, l)), NEW w, w = Work(c, s, r, l, ph)[blk]
  PROVE  /\ \A i, k \in 1 .. Len(w) : i < k => MayFollow(c, w[k], w[i])
         /\ Members(w) = Share(c, s, r, l, ph, blk)
<1> DEFINE S == AllAt(c, s, r, l, ph, blk)
           R == MayFollowIn(c, S)
           N == Layers(c)[l]
           shapes == Shapes(c, ph)
           K == Len(shapes)
           scan(A) == ScanOf(c, s, r, l, blk, A)
           all == [k \in 1 .. Len(shapes) |-> scan(shapes[k])]
           ev(A, mb, n) == EvaluationAt(c, s, r, l, blk, A, mb, n)
<1>1. Sound(c, d) /\ d \in Nat /\ Dims(c) = 1 .. d
  BY PlaceTypes
<1>2. /\ K \in Nat /\ \A k \in 1 .. K : shapes[k] \in kSubset(ph, 1 .. d)
      /\ \A A \in kSubset(ph, 1 .. d) : \E k \in 1 .. K : shapes[k] = A
      /\ \A i, k \in 1 .. K : i < k => shapes[i] # shapes[k]
  BY <1>1, ShapesListed
<1>3. \A A \in kSubset(ph, 1 .. d) :
        /\ scan(A) \in Seq(S) /\ InSeries(R, scan(A))
        /\ \A x : x \in Members(scan(A)) <=>
             \E mb \in MiniTiles(c, blk), n \in 0 .. N - 1 : x = ev(A, mb, n)
  BY SeriesOfMiniBlocks
<1>4. \A A \in kSubset(ph, 1 .. d), mb \in MiniTiles(c, blk), n \in 0 .. N - 1 : ev(A, mb, n) \in S
  BY <1>1, EvaluationListed
<1>5. ASSUME NEW A \in kSubset(ph, 1 .. d), NEW B \in kSubset(ph, 1 .. d), A # B,
             NEW x \in Members(scan(A)), NEW y \in Members(scan(B))
      PROVE  <<x, y>> \in R
  <2>1. PICK mb1 \in MiniTiles(c, blk), n \in 0 .. N - 1 : x = ev(A, mb1, n)
    BY <1>3, <1>5
  <2>2. PICK mb2 \in MiniTiles(c, blk), m \in 0 .. N - 1 : y = ev(B, mb2, m)
    BY <1>3, <1>5
  <2>3. x \in S /\ y \in S
    BY <1>4, <2>1, <2>2
  <2>4. ASSUME NonEmpty(x.box), NonEmpty(y.box) PROVE MayFollow(c, y, x)
    <3>1. MadeAt(x, c, d, s, r, l, blk, A, mb1, n)
      BY <2>1, <2>4, EvaluationAtMade
    <3>2. MadeAt(y, c, d, s, r, l, blk, B, mb2, m)
      BY <2>2, <2>4, EvaluationAtMade
    <3>3. NumPhases(c) > 1 /\ B \subseteq 1 .. d /\ B \ A # {}
      BY <1>1, <1>5, BridgesNeedPhases DEF AtPlace
    <3> QED
      BY <3>1, <3>2, <3>3, ShapesClear
  <2> HIDE DEF S
  <2> QED
    BY <2>3, <2>4, PairFollows
<1>6. w = Pending(FlattenSeq(all))
  <2>1. w = Evaluations(c, Sections(c)[s], Regions(c)[r], BaseOf(c, s, r, l), RegionShiftNum(c, l),
                        Layers(c)[l], ph, blk)
    BY DEF Work, BaseOf
  <2> QED
    BY <2>1, Zenon DEF Evaluations, ScanOf, RowsOf, StepsOf, EvaluationAt
<1> HIDE DEF S, shapes, scan, ev, N
<1>7. all \in Seq(Seq(S)) /\ Len(all) = K
  <2>1. all \in [1 .. K -> Seq(S)]
    BY <1>2, <1>3
  <2> HIDE DEF K, all
  <2> QED
    BY <1>2, <2>1, TupleIsSeq
<1>8. \A k \in 1 .. K : all[k] = scan(shapes[k]) /\ shapes[k] \in kSubset(ph, 1 .. d)
  BY <1>2
<1> HIDE DEF R, K, all
<1>9. SeriesOfSeries(R, all)
  <2>1. \A k \in 1 .. K : InSeries(R, all[k])
    BY <1>3, <1>8
  <2>2. \A a, b \in 1 .. K : a < b =>
          \A x \in Members(all[a]), y \in Members(all[b]) : <<x, y>> \in R
    BY <1>2, <1>5, <1>8
  <2> QED
    BY <1>7, <2>1, <2>2 DEF SeriesOfSeries
<1>10. /\ InSeries(R, FlattenSeq(all)) /\ FlattenSeq(all) \in Seq(S)
       /\ \A x : x \in Members(FlattenSeq(all)) <=> \E k \in 1 .. K : x \in Members(all[k])
  <2>1. FlattenSeq(all) \in Seq(S)
    BY <1>7, FlattenInSeq
  <2>2. /\ InSeries(R, FlattenSeq(all))
        /\ \A x : x \in Members(FlattenSeq(all)) <=> \E k \in 1 .. Len(all) : x \in Members(all[k])
    BY <1>7, <1>9, FlattenSeries
  <2> QED
    BY <1>7, <2>1, <2>2
<1>11. /\ InSeries(R, w)
       /\ \A x : x \in Members(w) <=> x \in Members(FlattenSeq(all)) /\ NonEmpty(x.box)
  BY <1>6, <1>10, PendingSeries
<1>12. ASSUME NEW i \in 1 .. Len(w), NEW k \in 1 .. Len(w), i < k PROVE MayFollow(c, w[k], w[i])
  <2> DEFINE fe == <<w[i], w[k]>>
  <2>1. fe \in R /\ fe[1] = w[i] /\ fe[2] = w[k]
    BY <1>11, <1>12 DEF InSeries
  <2>2. w[i] \in Members(w) /\ w[k] \in Members(w)
    BY DEF Members
  <2>3. NonEmpty(w[i].box) /\ NonEmpty(w[k].box)
    BY <1>11, <2>2
  <2> HIDE DEF fe
  <2>4. NonEmpty(fe[1].box) /\ NonEmpty(fe[2].box) => MayFollow(c, fe[2], fe[1])
    BY <2>1 DEF R, MayFollowIn
  <2> QED
    BY <2>1, <2>3, <2>4
<1>13. ASSUME NEW x PROVE x \in Members(w) <=> x \in Share(c, s, r, l, ph, blk)
  <2>1. x \in Members(FlattenSeq(all)) <=>
          \E A \in kSubset(ph, 1 .. d), mb \in MiniTiles(c, blk), n \in 0 .. N - 1 : x = ev(A, mb, n)
    <3>1. ASSUME x \in Members(FlattenSeq(all))
          PROVE  \E A \in kSubset(ph, 1 .. d), mb \in MiniTiles(c, blk), n \in 0 .. N - 1 :
                   x = ev(A, mb, n)
      <4>1. PICK k \in 1 .. K : x \in Members(all[k])
        BY <1>10, <3>1
      <4> QED
        BY <1>3, <1>8, <4>1
    <3>2. ASSUME NEW A \in kSubset(ph, 1 .. d), NEW mb \in MiniTiles(c, blk), NEW n \in 0 .. N - 1,
                 x = ev(A, mb, n)
          PROVE  x \in Members(FlattenSeq(all))
      <4>1. x \in Members(scan(A))
        BY <1>3, <3>2
      <4>2. PICK k \in 1 .. K : shapes[k] = A
        BY <1>2
      <4> QED
        BY <1>8, <1>10, <4>1, <4>2
    <3> QED
      BY <3>1, <3>2
  <2>2. x \in S <=>
          \E A \in kSubset(ph, 1 .. d), mb \in MiniTiles(c, blk), n \in 0 .. N - 1 : x = ev(A, mb, n)
    <3>1. ASSUME x \in S
          PROVE  \E A \in kSubset(ph, 1 .. d), mb \in MiniTiles(c, blk), n \in 0 .. N - 1 :
                   x = ev(A, mb, n)
      <4>1. PICK y \in kSubset(ph, 1 .. d) \X MiniTiles(c, blk) \X (0 .. N - 1) :
              x = Evaluation(c, Sections(c)[s], Regions(c)[r], BaseOf(c, s, r, l),
                             RegionShiftNum(c, l), blk, y[1], y[2], y[3])
        BY <1>1, <3>1, Zenon DEF S, AllAt, EvaluationsOf, N
      <4>2. x = ev(y[1], y[2], y[3])
        BY <4>1, Zenon DEF ev, EvaluationAt
      <4>3. y[1] \in kSubset(ph, 1 .. d) /\ y[2] \in MiniTiles(c, blk) /\ y[3] \in 0 .. N - 1
        OBVIOUS
      <4> QED
        BY <4>2, <4>3
    <3> QED
      BY <1>4, <3>1
  <2>3. x \in Share(c, s, r, l, ph, blk) <=> x \in S /\ NonEmpty(x.box)
    BY Zenon DEF Share, S, AllAt
  <2> QED
    BY <1>11, <2>1, <2>2, <2>3
<1> QED
  BY <1>12, <1>13

-----------------------------------------------------------------------------
(* Whatever the loops evaluate at a later place may follow what they       *)
(* evaluate at an earlier one, and blocks of one phase follow each other.  *)
PlaceBefore(s, r, l, ph, s2, r2, l2, ph2) ==
  \/ s < s2
  \/ s = s2 /\ r < r2
  \/ s = s2 /\ r = r2 /\ l < l2
  \/ s = s2 /\ r = r2 /\ l = l2 /\ ph < ph2

LEMMA LaterPhaseShapes ==
  ASSUME NEW c, NEW d, Sound(c, d), NEW ph \in 0 .. NumPhases(c) - 1,
         NEW ph2 \in 0 .. NumPhases(c) - 1, ph < ph2,
         NEW A \in kSubset(ph, 1 .. d), NEW B \in kSubset(ph2, 1 .. d)
  PROVE  NumPhases(c) > 1 /\ B \subseteq 1 .. d /\ B \ A # {}
<1>1. d \in Nat
  BY DEF Sound, Adjusted
<1>2. A \subseteq 1 .. d /\ IsFiniteSet(A) /\ Cardinality(A) = ph
  BY <1>1, KSubsetIs
<1>3. B \subseteq 1 .. d /\ IsFiniteSet(B) /\ Cardinality(B) = ph2
  BY <1>1, KSubsetIs
<1>4. ASSUME B \subseteq A PROVE FALSE
  <2>1. Cardinality(B) <= Cardinality(A)
    BY <1>2, <1>4, FS_Subset
  <2> QED
    BY <1>2, <1>3, <2>1
<1>5. NumPhases(c) \in Nat
  <2>1. c.rank \in [1 .. d -> Nat \ {0}]
    BY DEF Sound, Adjusted, Sizes
  <2>2. Len(c.rank) \in Nat
    BY <1>1, <2>1
  <2> QED
    BY <2>2 DEF NumPhases
<1>6. NumPhases(c) > 1
  BY <1>5
<1> QED
  BY <1>3, <1>4, <1>6

LEMMA LaterPlaceFollows ==
  ASSUME NEW c, NEW d, WideRemainders(c),
         NEW s, NEW r, NEW l, NEW ph, AtPlace(c, d, s, r, l, ph),
         NEW s2, NEW r2, NEW l2, NEW ph2, AtPlace(c, d, s2, r2, l2, ph2),
         PlaceBefore(s, r, l, ph, s2, r2, l2, ph2),
         NEW b \in Blocks(c, BaseOf(c, s, r, l)), NEW f \in Share(c, s, r, l, ph, b),
         NEW b2 \in Blocks(c, BaseOf(c, s2, r2, l2)), NEW e \in Share(c, s2, r2, l2, ph2, b2)
  PROVE  MayFollow(c, e, f)
<1>1. PICK A \in kSubset(ph, 1 .. d), mb \in MiniTiles(c, b), n \in 0 .. Layers(c)[l] - 1 :
        MadeAt(f, c, d, s, r, l, b, A, mb, n)
  BY ShareIs, Zenon
<1>2. PICK B \in kSubset(ph2, 1 .. d), mb2 \in MiniTiles(c, b2), m \in 0 .. Layers(c)[l2] - 1 :
        MadeAt(e, c, d, s2, r2, l2, b2, B, mb2, m)
  BY ShareIs, Zenon
<1>3. Placed(f, c, d, Sections(c)[s], Regions(c)[r]) /\ f.level = RegionShiftNum(c, l) + n
  BY <1>1, MadeIsPlaced
<1>4. Placed(e, c, d, Sections(c)[s2], Regions(c)[r2]) /\ e.level = RegionShiftNum(c, l2) + m
  BY <1>2, MadeIsPlaced
<1>5. Sound(c, d) /\ d \in Nat /\ RegionShiftNum(c, l) \in Nat
  BY PlaceTypes
<1>5a. RegionShiftNum(c, l2) \in Nat
  BY PlaceTypes
<1>6. /\ s \in 1 .. Len(Sections(c)) /\ r \in DOMAIN Regions(c) /\ l \in 1 .. Len(Layers(c))
      /\ ph \in 0 .. NumPhases(c) - 1
  BY DEF AtPlace
<1>7. /\ s2 \in 1 .. Len(Sections(c)) /\ r2 \in DOMAIN Regions(c) /\ l2 \in 1 .. Len(Layers(c))
      /\ ph2 \in 0 .. NumPhases(c) - 1
  BY DEF AtPlace
<1>8. f.level \in Nat /\ e.level \in Nat
  BY <1>3, <1>4, <1>5, <1>5a
<1>9. SUFFICES ASSUME ~(e.level > f.level) PROVE MayFollow(c, e, f)
  BY Zenon DEF MayFollow
<1>10. e.level <= f.level
  BY <1>8, <1>9
<1>11. CASE s < s2
  <2>1. s \in 1 .. s2 - 1
    BY <1>6, <1>7, <1>11
  <2>2. SectionBefore(c, Sections(c)[s], Sections(c)[s2])
    BY <1>5, <1>7, <2>1, SectionsAre
  <2>3. Clear(c, e, f)
    BY <1>3, <1>4, <1>5, <1>10, <2>2, SectionsClear
  <2> QED
    BY <2>3, Zenon DEF MayFollow
<1>12. CASE s = s2 /\ r < r2
  <2>1. r \in 1 .. r2 - 1
    <3> DEFINE tiles == Tiles(ScanBox(c), StrideIn(ScanBox(c), c.region, c.rank))
               K == Cardinality(tiles)
    <3>1. K \in Nat /\ Regions(c) \in [1 .. K -> tiles]
      BY <1>5, RegionsAre
    <3> HIDE DEF K, tiles
    <3>2. r \in 1 .. K /\ r2 \in 1 .. K
      BY <1>6, <1>7, <3>1
    <3> QED
      BY <1>12, <3>1, <3>2
  <2>2. Clear(c, e, f)
    BY <1>3, <1>4, <1>5, <1>7, <1>10, <2>1, RegionsClear
  <2> QED
    BY <2>2, Zenon DEF MayFollow
<1>13. CASE s = s2 /\ r = r2 /\ l < l2
  <2>1. RegionShiftNum(c, l) + n < RegionShiftNum(c, l2)
    BY <1>5, <1>6, <1>7, <1>13, LayerRange
  <2>2. m \in Nat
    OBVIOUS
  <2> QED
    BY <1>3, <1>4, <1>5, <1>5a, <1>8, <1>10, <2>1, <2>2
<1>14. CASE s = s2 /\ r = r2 /\ l = l2 /\ ph < ph2
  <2>1. NumPhases(c) > 1 /\ B \subseteq 1 .. d /\ B \ A # {}
    BY <1>5, <1>6, <1>7, <1>14, LaterPhaseShapes
  <2>2. MadeAt(e, c, d, s, r, l, b2, B, mb2, m) /\ m \in 0 .. Layers(c)[l] - 1
    BY <1>2, <1>14
  <2> QED
    BY <1>1, <2>1, <2>2, ShapesClear
<1> QED
  BY <1>11, <1>12, <1>13, <1>14, Zenon DEF PlaceBefore

LEMMA OtherBlockFollows ==
  ASSUME NEW c, NEW d, WideRemainders(c),
         NEW s, NEW r, NEW l, NEW ph, AtPlace(c, d, s, r, l, ph),
         NEW x \in Blocks(c, BaseOf(c, s, r, l)), NEW y \in Blocks(c, BaseOf(c, s, r, l)), x # y,
         NEW f \in Share(c, s, r, l, ph, x), NEW e \in Share(c, s, r, l, ph, y)
  PROVE  MayFollow(c, e, f)
<1> DEFINE sec == Sections(c)[s]
           rgn == Regions(c)[r]
           shift == RegionShiftNum(c, l)
           base == BaseOf(c, s, r, l)
<1>1. LoopsAt(c, d, sec, r, l, ph, rgn, shift, base) /\ Dims(c) = 1 .. d
  BY PlaceTypes
<1>2. /\ f \in EvaluationsOf(c, sec, rgn, base, shift, Layers(c)[l], ph, x)
      /\ NonEmpty(f.box)
  BY Zenon DEF Share
<1>3. /\ e \in EvaluationsOf(c, sec, rgn, base, shift, Layers(c)[l], ph, y)
      /\ NonEmpty(e.box)
  BY Zenon DEF Share
<1>4. x \in Blocks(c, base) /\ y \in Blocks(c, base)
  OBVIOUS
<1> HIDE DEF sec, rgn, shift, base
<1>5. \E i \in 1 .. d :
        Apart(f.box[i], e.box[i], IF f.level = e.level THEN 0 ELSE c.max_halo[i])
  BY <1>1, <1>2, <1>3, <1>4, EvaluationsApart
<1>6. \E i \in 1 .. d : Apart(f.box[i], e.box[i], Gap(c, e.level, f.level, i))
  BY <1>5 DEF Gap
<1> QED
  BY <1>1, <1>6, Zenon DEF MayFollow, Clear

-----------------------------------------------------------------------------
(* No point is left out: whatever the wave front reaches at a level is in  *)
(* an evaluation of that level, at some place of the loops.                *)
Inside(c, d, n, p) == \A j \in 1 .. d : p[j] \in Int /\ Holds(Reach(c, n, j), p[j])

LEMMA OutsideInterior ==
  ASSUME NEW c, NEW d, Sound(c, d), NEW n \in Levels(c), NEW p, Inside(c, d, n, p),
         NEW j \in 1 .. d, ~Holds(InteriorSpan(c, n, j), p[j])
  PROVE  \/ p[j] < InteriorSpan(c, n, j).lo /\ DoesExteriorExist(c, j, TRUE)
         \/ /\ InteriorSpan(c, n, j).lo <= p[j] /\ InteriorSpan(c, n, j).hi <= p[j]
            /\ DoesExteriorExist(c, j, FALSE)
<1> DEFINE x == p[j]
           int == InteriorSpan(c, n, j)
           mpi == c.mpi_interior[j]
           ext == c.ext_bb[j]
           reach == Reach(c, n, j)
<1>1. /\ int.lo \in Int /\ int.hi \in Int /\ Grown(c, n, j) \in Nat
      /\ mpi.lo \in Int /\ mpi.hi \in Int
      /\ int.lo = mpi.lo + (IF mpi.lo > ext.lo THEN Grown(c, n, j) ELSE 0)
      /\ int.hi = mpi.hi - (IF mpi.hi < ext.hi THEN Grown(c, n, j) ELSE 0)
  BY InteriorIs
<1>2. reach.lo \in Int /\ reach.hi \in Int /\ ext.lo <= reach.lo /\ reach.hi <= ext.hi
  BY ReachIs
<1>3. ext \in Spans /\ Edges(c, j)
  BY DEF Sound, Bounded
<1>4. ext.lo \in Int /\ ext.hi \in Int /\ ext.lo <= mpi.lo /\ mpi.hi <= ext.hi
  BY <1>3 DEF Spans, Edges, Within
<1>5. x \in Int /\ reach.lo <= x /\ x < reach.hi
  BY DEF Inside, Holds
<1>6. (DoesExteriorExist(c, j, TRUE) <=> mpi.lo > ext.lo)
      /\ (DoesExteriorExist(c, j, FALSE) <=> mpi.hi < ext.hi)
  BY DEF DoesExteriorExist
<1>7. ~(int.lo <= x /\ x < int.hi)
  BY DEF Holds
<1> HIDE DEF x, int, mpi, ext, reach
<1>8. CASE x < int.lo
  <2>1. mpi.lo > ext.lo
    BY <1>1, <1>2, <1>4, <1>5, <1>8
  <2> QED
    BY <1>6, <1>8, <2>1 DEF x, int
<1>9. CASE int.lo <= x
  <2>1. int.hi <= x
    BY <1>1, <1>5, <1>7, <1>9
  <2>2. mpi.hi < ext.hi
    BY <1>1, <1>2, <1>4, <1>5, <2>1
  <2> QED
    BY <1>6, <1>9, <2>1, <2>2 DEF x, int
<1>10. x < int.lo \/ int.lo <= x
  BY <1>1, <1>5
<1> QED
  BY <1>8, <1>9, <1>10, Zenon

LEMMA SectionCovers ==
  ASSUME NEW c, NEW d, Sound(c, d), NEW n \in Levels(c), NEW p, Inside(c, d, n, p)
  PROVE  \E s \in 1 .. Len(Sections(c)) :
           \A j \in 1 .. d : InPart(c, n, Sections(c)[s], j, p[j])
<1>0. d \in Nat /\ Dims(c) = 1 .. d
  BY DimsAre DEF Sound, Adjusted
<1>1. /\ Sections(c) \in Seq(SectionTypes(d)) /\ Len(Sections(c)) > 0
      /\ ~c.overlap => Sections(c)[1].part = "whole"
      /\ c.overlap => /\ Sections(c)[Len(Sections(c))].part = "interior"
                      /\ \A side \in Exterior(c) :
                           \E s \in 1 .. Len(Sections(c)) : Sections(c)[s] = side
  BY SectionsAre
<1>2. Len(Sections(c)) \in 1 .. Len(Sections(c)) /\ 1 \in 1 .. Len(Sections(c))
  BY <1>1
<1>3. CASE ~c.overlap
  <2>1. \A j \in 1 .. d : InPart(c, n, Sections(c)[1], j, p[j])
    BY <1>1, <1>3 DEF InPart
  <2> QED
    BY <1>2, <2>1
<1>4. CASE c.overlap /\ \A j \in 1 .. d : Holds(InteriorSpan(c, n, j), p[j])
  <2> DEFINE k == Len(Sections(c))
  <2>1. \A j \in 1 .. d : InPart(c, n, Sections(c)[k], j, p[j])
    BY <1>1, <1>4 DEF InPart
  <2> QED
    BY <1>2, <2>1
<1>5. CASE c.overlap /\ ~ \A j \in 1 .. d : Holds(InteriorSpan(c, n, j), p[j])
  <2> DEFINE Out == {j \in 1 .. d : ~Holds(InteriorSpan(c, n, j), p[j])}
  <2>1. Out \subseteq Nat /\ Out # {}
    BY <1>0, <1>5
  <2>2. PICK j \in Out : \A i \in Out : j <= i
    BY <2>1, LeastNat
  <2>3. j \in 1 .. d /\ ~Holds(InteriorSpan(c, n, j), p[j])
    BY <2>2
  <2>4. \A i \in 1 .. d : i < j => Holds(InteriorSpan(c, n, i), p[i])
    BY <1>0, <2>2, <2>3
  <2>5. \/ p[j] < InteriorSpan(c, n, j).lo /\ DoesExteriorExist(c, j, TRUE)
        \/ /\ InteriorSpan(c, n, j).lo <= p[j] /\ InteriorSpan(c, n, j).hi <= p[j]
           /\ DoesExteriorExist(c, j, FALSE)
    BY <2>3, OutsideInterior
  <2> HIDE DEF Out
  <2>6. CASE p[j] < InteriorSpan(c, n, j).lo /\ DoesExteriorExist(c, j, TRUE)
    <3> DEFINE side == [part |-> "left", dim |-> j]
    <3>1. side \in Exterior(c)
      BY <1>0, <2>3, <2>6 DEF Exterior
    <3>2. side.part = "left" /\ side.dim = j
      OBVIOUS
    <3> HIDE DEF side
    <3>3. PICK s \in 1 .. Len(Sections(c)) : Sections(c)[s] = side
      BY <1>1, <1>5, <3>1
    <3>4. ASSUME NEW i \in 1 .. d PROVE InPart(c, n, side, i, p[i])
      BY <2>4, <2>6, <3>2 DEF InPart
    <3> QED
      BY <3>3, <3>4
  <2>7. CASE /\ InteriorSpan(c, n, j).lo <= p[j] /\ InteriorSpan(c, n, j).hi <= p[j]
             /\ DoesExteriorExist(c, j, FALSE)
    <3> DEFINE side == [part |-> "right", dim |-> j]
    <3>1. side \in Exterior(c)
      BY <1>0, <2>3, <2>7 DEF Exterior
    <3>2. side.part = "right" /\ side.dim = j
      OBVIOUS
    <3> HIDE DEF side
    <3>3. PICK s \in 1 .. Len(Sections(c)) : Sections(c)[s] = side
      BY <1>1, <1>5, <3>1
    <3>4. ASSUME NEW i \in 1 .. d PROVE InPart(c, n, side, i, p[i])
      BY <2>4, <2>7, <3>2 DEF InPart
    <3> QED
      BY <3>3, <3>4
  <2> QED
    BY <2>5, <2>6, <2>7
<1> QED
  BY <1>3, <1>4, <1>5

LEMMA ScanReaches ==
  ASSUME NEW c, NEW d, Sound(c, d), NEW n \in Levels(c), NEW p, Inside(c, d, n, p), NEW j \in 1 .. d
  PROVE  /\ p[j] \in Int /\ c.wf_angles[j] * n \in Nat
         /\ Holds(ScanBox(c)[j], p[j] + c.wf_angles[j] * n)
<1> DEFINE a == c.wf_angles[j] * n
           reach == Reach(c, n, j)
           ext == c.ext_bb[j]
           x == p[j]
           pts == c.wf_shift_pts[j]
<1>1. /\ a \in Nat /\ pts \in Nat /\ a <= pts /\ n \in Nat
      /\ c.wf_steps = 0 => n = 0 /\ pts = 0
  BY SlopeIs
<1>2. reach.lo \in Int /\ reach.hi \in Int /\ ext.lo <= reach.lo /\ reach.hi <= ext.hi
  BY ReachIs
<1>3. reach.hi = ext.hi - (IF c.right[j] THEN a ELSE 0)
  BY DEF Reach
<1>4. x \in Int /\ reach.lo <= x /\ x < reach.hi
  BY DEF Inside, Holds
<1>5. ext \in Spans /\ Fronted(c, j) /\ c.wf_steps \in Nat /\ c.right[j] \in BOOLEAN
  BY DEF Sound, Bounded, Waved, Adjusted
<1>6. ext.lo \in Int /\ ext.hi \in Int
  BY <1>5 DEF Spans
<1>7. c.right_wf_exts[j] = IF c.right[j] THEN pts ELSE 0
  BY <1>5 DEF Fronted
<1>8. Dims(c) = 1 .. d
  BY DimsAre DEF Sound
<1>9. /\ ScanBox(c)[j].lo = ext.lo
      /\ ScanBox(c)[j].hi = ext.hi + IF c.wf_steps > 0 /\ c.right_wf_exts[j] = 0 THEN pts ELSE 0
  <2>1. ScanBox(c)[j] = [ext EXCEPT !.hi = @ + IF c.wf_steps > 0 /\ c.right_wf_exts[j] = 0
                                                 THEN pts ELSE 0]
    BY <1>8 DEF ScanBox
  <2> HIDE DEF ext, pts
  <2> QED
    BY <1>5, <2>1 DEF Spans
<1> HIDE DEF a, reach, ext, x, pts
<1>10. x + a < ext.hi + IF c.wf_steps > 0 /\ c.right_wf_exts[j] = 0 THEN pts ELSE 0
  <2>1. CASE c.right[j]
    BY <1>1, <1>2, <1>3, <1>4, <1>6, <2>1
  <2>2. CASE ~c.right[j] /\ c.wf_steps > 0
    BY <1>1, <1>2, <1>3, <1>4, <1>6, <1>7, <2>2
  <2>3. CASE c.wf_steps = 0
    BY <1>1, <1>2, <1>3, <1>4, <1>6, <2>3
  <2> QED
    BY <1>5, <2>1, <2>2, <2>3
<1>11. ext.lo <= x + a
  BY <1>1, <1>2, <1>4, <1>6
<1>12. Holds(ScanBox(c)[j], x + a)
  BY <1>9, <1>10, <1>11 DEF Holds
<1> QED
  BY <1>1, <1>4, <1>12 DEF x, a

LEMMA ShiftedHolds ==
  ASSUME NEW c, NEW d, Sound(c, d), NEW rgn \in [1 .. d -> Spans], NEW n \in Int,
         NEW j \in 1 .. d, NEW x \in Int
  PROVE  Holds(Shifted(c, rgn, n)[j], x) <=>
           rgn[j].lo <= x + c.wf_angles[j] * n /\ x + c.wf_angles[j] * n < rgn[j].hi
<1> DEFINE a == c.wf_angles[j] * n
           s == Shifted(c, rgn, n)[j]
<1>1. Dims(c) = 1 .. d
  BY DimsAre DEF Sound
<1>2. s.lo = rgn[j].lo - a /\ s.hi = rgn[j].hi - a
  BY <1>1 DEF Shifted
<1>3. c.wf_angles[j] \in Nat
  BY DEF Sound, Waved
<1>4. a \in Int
  BY <1>3
<1>5. rgn[j].lo \in Int /\ rgn[j].hi \in Int
  BY DEF Spans
<1> HIDE DEF a, s
<1>6. Holds(s, x) <=> rgn[j].lo <= x + a /\ x + a < rgn[j].hi
  BY <1>2, <1>4, <1>5 DEF Holds
<1> QED
  BY <1>6 DEF a, s

LEMMA RegionCovers ==
  ASSUME NEW c, NEW d, Sound(c, d), NEW n \in Levels(c), NEW p, Inside(c, d, n, p)
  PROVE  \E r \in DOMAIN Regions(c) :
           \A j \in 1 .. d : Holds(Shifted(c, Regions(c)[r], n)[j], p[j])
<1> DEFINE box == ScanBox(c)
           stride == StrideIn(box, c.region, c.rank)
           q == [j \in 1 .. d |-> p[j] + c.wf_angles[j] * n]
<1>1. \A j \in 1 .. d : /\ p[j] \in Int /\ c.wf_angles[j] * n \in Nat
                        /\ Holds(box[j], p[j] + c.wf_angles[j] * n)
  BY ScanReaches
<1>2. \A j \in 1 .. d : q[j] = p[j] + c.wf_angles[j] * n /\ q[j] \in Int /\ Holds(box[j], q[j])
  <2> SUFFICES ASSUME NEW j \in 1 .. d
               PROVE  q[j] = p[j] + c.wf_angles[j] * n /\ q[j] \in Int /\ Holds(box[j], q[j])
    OBVIOUS
  <2> DEFINE a == c.wf_angles[j] * n
  <2>1. q[j] = p[j] + a /\ p[j] \in Int /\ a \in Nat /\ Holds(box[j], p[j] + a)
    BY <1>1
  <2> HIDE DEF a, q, box
  <2>2. q[j] \in Int /\ Holds(box[j], q[j])
    BY <2>1
  <2> QED
    BY <2>1, <2>2 DEF a
<1>3. DOMAIN box = 1 .. d /\ \A j \in 1 .. d : box[j] \in Spans /\ stride[j] \in Nat \ {0}
  BY ScanBoxIs
<1> HIDE DEF q
<1>4. \E t \in Tiles(box, stride) : \A j \in 1 .. d : Holds(t[j], q[j])
  <2> HIDE DEF box, stride
  <2>1. \A j \in DOMAIN box : /\ box[j] \in Spans /\ stride[j] \in Nat \ {0}
                              /\ q[j] \in Int /\ Holds(box[j], q[j])
    BY <1>2, <1>3
  <2>2. \E t \in Tiles(box, stride) : \A j \in DOMAIN box : Holds(t[j], q[j])
    BY <2>1, TilesCover
  <2> QED
    BY <1>3, <2>2
<1>5. PICK t \in Tiles(box, stride) : \A j \in 1 .. d : Holds(t[j], q[j])
  BY <1>4
<1>6. PICK r \in DOMAIN Regions(c) : Regions(c)[r] = t
  BY RegionsListed
<1>7. t \in [1 .. d -> Spans]
  BY <1>6, RegionsAre
<1>8. ASSUME NEW j \in 1 .. d PROVE Holds(Shifted(c, t, n)[j], p[j])
  <2> DEFINE a == c.wf_angles[j] * n
  <2>1. /\ Holds(Shifted(c, t, n)[j], p[j]) <=> t[j].lo <= p[j] + a /\ p[j] + a < t[j].hi
    <3>1. n \in Int /\ p[j] \in Int
      BY <1>1, SlopeIs
    <3> QED
      BY <1>7, <3>1, ShiftedHolds
  <2>2. t[j].lo <= q[j] /\ q[j] < t[j].hi /\ q[j] = p[j] + a
    BY <1>2, <1>5 DEF Holds
  <2> HIDE DEF a
  <2> QED
    BY <2>1, <2>2
<1> QED
  BY <1>6, <1>8

(* The block and the mini-block that a point of a shifted region falls in  *)
(* are those of the point moved back, or at the edge of the scan.          *)
BlockReach(c, blk, base, n, j, x) ==
  /\ base[j].lo < blk[j].lo => blk[j].lo + c.tb_angles[j] * n <= x
  /\ blk[j].hi < base[j].hi => x < blk[j].hi + c.tb_angles[j] * n

MiniReach(c, adj, mb, n, j, x) ==
  /\ adj[j].lo < mb[j].lo => mb[j].lo - c.mb_angles[j] * n <= x
  /\ mb[j].hi < adj[j].hi => x < mb[j].hi - c.mb_angles[j] * n

LEMMA TileAround ==
  ASSUME NEW d \in Nat, NEW box, NEW stride, DOMAIN box = 1 .. d,
         \A j \in 1 .. d : box[j] \in Spans /\ stride[j] \in Nat \ {0} /\ box[j].lo < box[j].hi,
         NEW x, \A j \in 1 .. d : x[j] \in Int
  PROVE  \E t \in Tiles(box, stride) : \A j \in 1 .. d :
           /\ box[j].lo < t[j].lo => t[j].lo <= x[j]
           /\ t[j].hi < box[j].hi => x[j] < t[j].hi
<1> DEFINE y(j) == IF x[j] < box[j].lo THEN box[j].lo
                   ELSE IF x[j] >= box[j].hi THEN box[j].hi - 1 ELSE x[j]
           z == [j \in 1 .. d |-> y(j)]
<1>1. \A j \in 1 .. d : /\ z[j] = y(j) /\ box[j].lo \in Int /\ box[j].hi \in Int
  BY DEF Spans
<1> HIDE DEF z
<1>2. \A j \in 1 .. d : z[j] \in Int /\ Holds(box[j], z[j])
  <2> SUFFICES ASSUME NEW j \in 1 .. d PROVE z[j] \in Int /\ Holds(box[j], z[j])
    OBVIOUS
  <2>1. z[j] = y(j) /\ box[j].lo \in Int /\ box[j].hi \in Int
    BY <1>1
  <2>2. x[j] \in Int /\ box[j].lo < box[j].hi
    OBVIOUS
  <2> QED
    BY <2>1, <2>2 DEF Holds
<1> HIDE DEF y
<1>3. \E t \in Tiles(box, stride) : \A j \in DOMAIN box : Holds(t[j], z[j])
  <2>1. \A j \in DOMAIN box : /\ box[j] \in Spans /\ stride[j] \in Nat \ {0}
                              /\ z[j] \in Int /\ Holds(box[j], z[j])
    BY <1>2
  <2> QED
    BY <2>1, TilesCover
<1>4. PICK t \in Tiles(box, stride) : \A j \in 1 .. d : Holds(t[j], z[j])
  BY <1>3
<1>5. t \in [1 .. d -> Spans] /\ \A j \in 1 .. d : TileOf(t[j], box[j], stride[j])
  BY TileSpans
<1>6. ASSUME NEW j \in 1 .. d
      PROVE  /\ box[j].lo < t[j].lo => t[j].lo <= x[j]
             /\ t[j].hi < box[j].hi => x[j] < t[j].hi
  <2>1. z[j] = y(j) /\ box[j].lo \in Int /\ box[j].hi \in Int /\ x[j] \in Int /\ z[j] \in Int
    BY <1>1, <1>2
  <2>2. t[j].lo \in Int /\ t[j].hi \in Int /\ box[j].lo < box[j].hi
    BY <1>5 DEF Spans
  <2>3. t[j].lo <= z[j] /\ z[j] < t[j].hi
    BY <1>4 DEF Holds
  <2>4. x[j] < box[j].lo => z[j] = box[j].lo
    BY <2>1 DEF y
  <2>5. x[j] >= box[j].lo /\ x[j] >= box[j].hi => z[j] = box[j].hi - 1
    BY <2>1 DEF y
  <2>6. x[j] >= box[j].lo /\ x[j] < box[j].hi => z[j] = x[j]
    BY <2>1 DEF y
  <2> QED
    BY <2>1, <2>2, <2>3, <2>4, <2>5, <2>6
<1> QED
  BY <1>6

LEMMA BlockCovers ==
  ASSUME NEW c, NEW d, Sound(c, d), NEW base \in [1 .. d -> Spans],
         \A j \in 1 .. d : base[j].lo < base[j].hi,
         NEW n \in Nat, NEW p, \A j \in 1 .. d : p[j] \in Int
  PROVE  \E blk \in Blocks(c, base) : \A j \in 1 .. d : BlockReach(c, blk, base, n, j, p[j])
<1> DEFINE stride == StrideIn(base, c.block, c.region)
           x == [j \in 1 .. d |-> p[j] - c.tb_angles[j] * n]
<1>1. d \in Nat /\ \A j \in 1 .. d : c.tb_angles[j] \in Nat /\ c.block[j] \in Nat \ {0}
  BY DEF Sound, Adjusted, Tempered, Sizes
<1>2. \A j \in 1 .. d : c.tb_angles[j] * n \in Int
  BY <1>1
<1>3. \A j \in 1 .. d : x[j] = p[j] - c.tb_angles[j] * n /\ x[j] \in Int
  <2> SUFFICES ASSUME NEW j \in 1 .. d
               PROVE  x[j] = p[j] - c.tb_angles[j] * n /\ x[j] \in Int
    OBVIOUS
  <2> DEFINE a == c.tb_angles[j] * n
  <2>1. x[j] = p[j] - a /\ a \in Int /\ p[j] \in Int
    BY <1>2
  <2> HIDE DEF a, x
  <2>2. x[j] \in Int
    BY <2>1
  <2> QED
    BY <2>1, <2>2 DEF a
<1> HIDE DEF x
<1>4. \A j \in 1 .. d : base[j] \in Spans /\ stride[j] \in Nat \ {0}
  BY <1>1, StrideInIs
<1> HIDE DEF stride
<1>5. DOMAIN base = 1 .. d
  OBVIOUS
<1>6. PICK t \in Tiles(base, stride) : \A j \in 1 .. d :
        /\ base[j].lo < t[j].lo => t[j].lo <= x[j]
        /\ t[j].hi < base[j].hi => x[j] < t[j].hi
  <2>1. \A j \in 1 .. d : base[j] \in Spans /\ stride[j] \in Nat \ {0} /\ base[j].lo < base[j].hi
    BY Zenon, <1>4
  <2>2. \A j \in 1 .. d : x[j] \in Int
    BY Zenon, <1>3
  <2> QED
    BY ZenonT(40), <1>1, <1>5, <2>1, <2>2, TileAround
<1>7. NonEmpty(base)
  BY DEF NonEmpty
<1>8. t \in Blocks(c, base)
  BY <1>7 DEF Blocks, stride
<1>9. t \in [1 .. d -> Spans]
  BY <1>1, <1>4, <1>5, TileSpans
<1>10. ASSUME NEW j \in 1 .. d PROVE BlockReach(c, t, base, n, j, p[j])
  <2> DEFINE a == c.tb_angles[j] * n
  <2>1. x[j] = p[j] - a /\ x[j] \in Int /\ a \in Int /\ p[j] \in Int
    BY <1>2, <1>3
  <2>2. t[j].lo \in Int /\ t[j].hi \in Int
    BY <1>9 DEF Spans
  <2> HIDE DEF a
  <2>3. /\ base[j].lo < t[j].lo => t[j].lo + a <= p[j]
        /\ t[j].hi < base[j].hi => p[j] < t[j].hi + a
    BY <1>6, <2>1, <2>2
  <2> QED
    BY <2>3 DEF BlockReach, a
<1> QED
  BY <1>8, <1>10

LEMMA MiniBlockCovers ==
  ASSUME NEW c, NEW d, Sound(c, d), NEW blk \in [1 .. d -> Spans],
         \A j \in 1 .. d : blk[j].lo < blk[j].hi,
         NEW n \in Nat, NEW p, \A j \in 1 .. d : p[j] \in Int
  PROVE  \E mb \in MiniTiles(c, blk) : \A j \in 1 .. d :
           MiniReach(c, AdjBlock(c, blk), mb, n, j, p[j])
<1> DEFINE adj == AdjBlock(c, blk)
           stride == MiniStride(c, adj)
           x == [j \in 1 .. d |-> p[j] + c.mb_angles[j] * n]
<1>1. d \in Nat /\ Dims(c) = 1 .. d /\ \A j \in 1 .. d : c.mb_angles[j] \in Nat
  BY DimsAre DEF Sound, Adjusted, Tempered
<1>2. \A j \in 1 .. d : c.mb_angles[j] * n \in Int
  BY <1>1
<1>3. \A j \in 1 .. d : x[j] = p[j] + c.mb_angles[j] * n /\ x[j] \in Int
  <2> SUFFICES ASSUME NEW j \in 1 .. d
               PROVE  x[j] = p[j] + c.mb_angles[j] * n /\ x[j] \in Int
    OBVIOUS
  <2> DEFINE a == c.mb_angles[j] * n
  <2>1. x[j] = p[j] + a /\ a \in Int /\ p[j] \in Int
    BY <1>2
  <2> HIDE DEF a, x
  <2>2. x[j] \in Int
    BY <2>1
  <2> QED
    BY <2>1, <2>2 DEF a
<1> HIDE DEF x
<1>4. adj \in [1 .. d -> Spans]
  BY AdjBlockIs
<1>5. \A j \in 1 .. d : adj[j].lo < adj[j].hi
  <2> SUFFICES ASSUME NEW j \in 1 .. d PROVE adj[j].lo < adj[j].hi
    OBVIOUS
  <2>1. blk[j] \in Spans /\ blk[j].lo \in Int /\ blk[j].hi \in Int /\ blk[j].lo < blk[j].hi
    BY DEF Spans
  <2>2. adj[j] = IF c.tb_steps = 0 THEN blk[j] ELSE [blk[j] EXCEPT !.hi = @ + (@ - blk[j].lo)]
    BY <1>1 DEF AdjBlock
  <2> HIDE DEF adj
  <2>3. adj[j].lo = blk[j].lo /\ (adj[j].hi = blk[j].hi \/ adj[j].hi = blk[j].hi + (blk[j].hi - blk[j].lo))
    BY <2>1, <2>2 DEF Spans
  <2> QED
    BY <2>1, <2>3
<1> HIDE DEF adj
<1>6. \A j \in 1 .. d : adj[j] \in Spans /\ stride[j] \in Nat \ {0}
  BY <1>4, MiniStrideIs
<1>7. MiniTiles(c, blk) = Tiles(adj, stride)
  BY Zenon DEF MiniTiles, adj
<1> HIDE DEF stride
<1>8. DOMAIN adj = 1 .. d
  BY <1>4
<1>9. PICK t \in Tiles(adj, stride) : \A j \in 1 .. d :
        /\ adj[j].lo < t[j].lo => t[j].lo <= x[j]
        /\ t[j].hi < adj[j].hi => x[j] < t[j].hi
  <2>1. \A j \in 1 .. d : adj[j] \in Spans /\ stride[j] \in Nat \ {0} /\ adj[j].lo < adj[j].hi
    BY Zenon, <1>5, <1>6
  <2>2. \A j \in 1 .. d : x[j] \in Int
    BY Zenon, <1>3
  <2> QED
    BY ZenonT(40), <1>1, <1>8, <2>1, <2>2, TileAround
<1>10. t \in [1 .. d -> Spans]
  BY <1>1, <1>6, <1>8, TileSpans
<1>11. ASSUME NEW j \in 1 .. d PROVE MiniReach(c, adj, t, n, j, p[j])
  <2> DEFINE a == c.mb_angles[j] * n
  <2>1. x[j] = p[j] + a /\ x[j] \in Int /\ a \in Int /\ p[j] \in Int
    BY <1>2, <1>3
  <2>2. t[j].lo \in Int /\ t[j].hi \in Int
    BY <1>10 DEF Spans
  <2> HIDE DEF a
  <2>3. /\ adj[j].lo < t[j].lo => t[j].lo - a <= p[j]
        /\ t[j].hi < adj[j].hi => p[j] < t[j].hi - a
    BY <1>9, <2>1, <2>2
  <2> QED
    BY <2>3 DEF MiniReach, a
<1> QED
  BY <1>7, <1>11 DEF adj

(* A point of the region that the block can reach is in the trapezoid or   *)
(* in the bridge of the block, according to where the trapezoid ends.      *)
LEMMA ShapeCovers ==
  ASSUME NEW c, NEW blk, NEW base, NEW box, NEW n, NEW nphases, NEW j,
         ShapeTypes(c, blk, base, box, n, j), NEW x \in Int, Holds(box[j], x),
         BlockReach(c, blk, base, n, j, x),
         NEW top, top = Shape(c, blk, base, n, nphases, {}, box, j).hi
  PROVE  /\ \A A : j \notin A /\ x < top =>
               Holds(Shape(c, blk, base, n, nphases, A, box, j), x)
         /\ \A A : j \in A /\ ~(x < top) =>
               Holds(Shape(c, blk, base, n, nphases, A, box, j), x)
         /\ nphases = 1 /\ n = 0 => x < top
<1> DEFINE shift == c.tb_angles[j] * n
           first == blk[j].lo <= base[j].lo
           last == blk[j].hi >= base[j].hi
           stop == IF nphases > 1 /\ ~(first /\ last)
                     THEN Min({blk[j].lo + c.tb_widths[j], blk[j].hi}) ELSE blk[j].hi
           start == IF first THEN box[j].lo ELSE blk[j].lo + shift
           end == IF (nphases = 1 \/ (first /\ last)) /\ last THEN box[j].hi ELSE stop - shift
           next == IF last THEN box[j].hi ELSE blk[j].hi + shift
<1>1. shift \in Int /\ blk[j].lo \in Int /\ blk[j].hi \in Int /\ box[j].lo \in Int
      /\ box[j].hi \in Int /\ c.tb_widths[j] \in Int /\ base[j].lo \in Int /\ base[j].hi \in Int
  BY SMT DEF ShapeTypes, Spans
<1>2. stop \in Int
  <2> DEFINE m == blk[j].lo + c.tb_widths[j]
             k == blk[j].hi
  <2>1. m \in Int /\ k \in Int
    BY <1>1
  <2>2. stop = (IF nphases > 1 /\ ~(first /\ last) THEN Min({m, k}) ELSE k)
    OBVIOUS
  <2> HIDE DEF m, k, stop, first, last
  <2>3. Min({m, k}) = IF m <= k THEN m ELSE k
    BY <2>1, MinOfTwo
  <2> QED
    BY <2>1, <2>2, <2>3
<1>3. \A A : Shape(c, blk, base, n, nphases, A, box, j)
               = IF j \in A THEN [lo |-> Max({end, start}), hi |-> next]
                            ELSE [lo |-> start, hi |-> end]
  BY DEF Shape
<1>4. /\ base[j].lo < blk[j].lo => blk[j].lo + shift <= x
      /\ blk[j].hi < base[j].hi => x < blk[j].hi + shift
  BY Zenon DEF BlockReach
<1>5. n = 0 => shift = 0
  BY DEF ShapeTypes
<1>6. nphases = 1 => stop = blk[j].hi
  OBVIOUS
<1>7. box[j].lo <= x /\ x < box[j].hi
  BY DEF Holds
<1> HIDE DEF shift, stop
<1>8. start <= x /\ x < next
  BY <1>1, <1>4, <1>7
<1>9. nphases = 1 /\ n = 0 => x < end
  BY <1>1, <1>2, <1>4, <1>5, <1>6, <1>7
<1>10. start \in Int /\ end \in Int
  BY <1>1, <1>2
<1> HIDE DEF start, end, next
<1>11. top = end
  BY <1>3
<1>12. Max({end, start}) = IF end >= start THEN end ELSE start
  BY <1>10, MaxOfTwo
<1>13. ASSUME NEW A, j \notin A, x < top
       PROVE  Holds(Shape(c, blk, base, n, nphases, A, box, j), x)
  <2>1. Shape(c, blk, base, n, nphases, A, box, j) = [lo |-> start, hi |-> end]
    BY <1>3, <1>13
  <2> QED
    BY <1>8, <1>11, <1>13, <2>1 DEF Holds
<1>14. ASSUME NEW A, j \in A, ~(x < top)
       PROVE  Holds(Shape(c, blk, base, n, nphases, A, box, j), x)
  <2>1. Shape(c, blk, base, n, nphases, A, box, j) = [lo |-> Max({end, start}), hi |-> next]
    BY <1>3, <1>14
  <2>2. Max({end, start}) <= x
    BY <1>8, <1>10, <1>11, <1>12, <1>14
  <2> QED
    BY <1>8, <2>1, <2>2 DEF Holds
<1> QED
  BY <1>9, <1>11, <1>13, <1>14

(* A point of the region and of a block's shape that a mini-block can      *)
(* reach is in what the mini-block evaluates.                              *)
LEMMA MiniBlockHolds ==
  ASSUME NEW c, NEW d, Sound(c, d), NEW mb \in [1 .. d -> Spans], NEW blk \in [1 .. d -> Spans],
         NEW base \in [1 .. d -> Spans], NEW n \in Nat, NEW A,
         NEW box \in [1 .. d -> Spans], NEW j \in 1 .. d, NEW x \in Int, Holds(box[j], x),
         Holds(Shape(c, blk, base, n, NumPhases(c), A, box, j), x),
         MiniReach(c, AdjBlock(c, blk), mb, n, j, x)
  PROVE  Holds(ShiftMiniBlock(c, mb, AdjBlock(c, blk), blk, base, n, NumPhases(c), A, box)[j], x)
<1> DEFINE adj == AdjBlock(c, blk)
           s == [i \in Dims(c) |-> Shape(c, blk, base, n, NumPhases(c), A, box, i)]
           first(i) == mb[i].lo <= adj[i].lo
           last(i) == mb[i].hi >= adj[i].hi
           shift(i) == IF first(i) /\ last(i) THEN 0 ELSE c.mb_angles[i] * n
           moved(i) == [lo |-> IF first(i) THEN s[i].lo ELSE mb[i].lo - shift(i),
                        hi |-> IF last(i) THEN s[i].hi ELSE mb[i].hi - shift(i)]
           e == ShiftMiniBlock(c, mb, adj, blk, base, n, NumPhases(c), A, box)
<1>1. Dims(c) = 1 .. d
  BY DimsAre DEF Sound
<1>2. e = [i \in Dims(c) |-> Cap(Cap(moved(i), box[i]), s[i])]
  BY Zenon DEF ShiftMiniBlock
<1>3. e[j] = Cap(Cap(moved(j), box[j]), s[j])
  BY <1>1, <1>2
<1> HIDE DEF e
<1>4. s[j] = Shape(c, blk, base, n, NumPhases(c), A, box, j)
  BY <1>1
<1> HIDE DEF s
<1>5. s[j] \in Spans
  <2>1. ShapeTypes(c, blk, base, box, n, j)
    BY DEF ShapeTypes, Sound, Tempered
  <2> QED
    BY <1>4, <2>1, ShapeIsSpan
<1>6. Holds(s[j], x) /\ s[j].lo <= x /\ x < s[j].hi
  BY <1>4 DEF Holds
<1>7. adj[j] \in Spans /\ adj[j].lo \in Int /\ adj[j].hi \in Int
  <2>1. adj \in [1 .. d -> Spans]
    BY AdjBlockIs
  <2> HIDE DEF adj
  <2> QED
    BY <2>1 DEF Spans
<1>8. s[j].lo \in Int /\ s[j].hi \in Int /\ mb[j].lo \in Int /\ mb[j].hi \in Int
  BY <1>5 DEF Spans
<1> DEFINE a == c.mb_angles[j] * n
<1>9. a \in Int
  <2>1. c.mb_angles[j] \in Nat
    BY DEF Sound, Tempered
  <2> QED
    BY <2>1
<1>10. /\ adj[j].lo < mb[j].lo => mb[j].lo - a <= x
       /\ mb[j].hi < adj[j].hi => x < mb[j].hi - a
  BY Zenon DEF MiniReach
<1>11. ~(first(j) /\ last(j)) => shift(j) = a
  OBVIOUS
<1>12. shift(j) \in Int
  BY <1>9
<1> HIDE DEF a, shift, adj
<1>13. moved(j) \in Spans /\ moved(j).lo <= x /\ x < moved(j).hi
  <2>1. moved(j).lo \in Int /\ moved(j).lo <= x
    <3>1. CASE first(j)
      BY <1>6, <1>8, <3>1
    <3>2. CASE ~first(j)
      BY <1>7, <1>8, <1>9, <1>10, <1>11, <3>2
    <3> QED
      BY Zenon, <3>1, <3>2
  <2>2. moved(j).hi \in Int /\ x < moved(j).hi
    <3>1. CASE last(j)
      BY <1>6, <1>8, <3>1
    <3>2. CASE ~last(j)
      BY <1>7, <1>8, <1>9, <1>10, <1>11, <3>2
    <3> QED
      BY Zenon, <3>1, <3>2
  <2> QED
    BY <2>1, <2>2 DEF Spans
<1>14. Holds(moved(j), x) /\ box[j] \in Spans
  BY <1>13 DEF Holds
<1> HIDE DEF moved
<1>15. Cap(moved(j), box[j]) \in Spans /\ Holds(Cap(moved(j), box[j]), x)
  BY <1>13, <1>14, CapHolds, CapIs
<1>16. Holds(Cap(Cap(moved(j), box[j]), s[j]), x)
  BY <1>5, <1>6, <1>15, CapHolds
<1>17. Holds(e[j], x)
  BY <1>3, <1>16
<1> QED
  BY <1>17 DEF e, adj

LEMMA RegionNotEmpty ==
  ASSUME NEW c, NEW d, Sound(c, d), NEW r \in DOMAIN Regions(c), NEW j \in 1 .. d
  PROVE  Regions(c)[r][j].lo < Regions(c)[r][j].hi
<1> DEFINE stride == StrideIn(ScanBox(c), c.region, c.rank)
           tiles == Tiles(ScanBox(c), stride)
<1>1. d \in Nat
  BY DEF Sound, Adjusted
<1>2. /\ DOMAIN ScanBox(c) = 1 .. d
      /\ \A i \in 1 .. d : ScanBox(c)[i] \in Spans /\ stride[i] \in Nat \ {0}
  BY ScanBoxIs
<1>3. Regions(c) \in [1 .. Cardinality(tiles) -> tiles]
  BY RegionsAre
<1> HIDE DEF tiles
<1>4. Regions(c)[r] \in tiles
  BY <1>3
<1> HIDE DEF stride
<1>5. TileOf(Regions(c)[r][j], ScanBox(c)[j], stride[j])
  BY <1>1, <1>2, <1>4, TileSpans DEF tiles
<1> QED
  BY <1>2, <1>5, TileBounds

LEMMA PhaseOfShape ==
  ASSUME NEW c, NEW d, Sound(c, d), NEW A, A \subseteq 1 .. d, c.tb_steps = 0 => A = {}
  PROVE  Cardinality(A) \in 0 .. NumPhases(c) - 1 /\ A \in kSubset(Cardinality(A), 1 .. d)
<1>1. d \in Nat
  BY DEF Sound, Adjusted
<1>2. IsFiniteSet(1 .. d) /\ Cardinality(1 .. d) = d
  BY <1>1, FS_Interval
<1>3. IsFiniteSet(A) /\ Cardinality(A) <= Cardinality(1 .. d)
  BY <1>2, FS_Subset
<1>4. Cardinality(A) \in Nat /\ Cardinality(A) <= d
  BY <1>2, <1>3, FS_CardinalityType
<1>5. A \in kSubset(Cardinality(A), 1 .. d)
  BY DEF kSubset
<1>6. Len(c.rank) = d
  <2>1. c.rank \in [1 .. d -> Nat \ {0}]
    BY DEF Sound, Adjusted, Sizes
  <2> QED
    BY <1>1, <2>1
<1>7. NumPhases(c) = IF c.tb_steps = 0 THEN 1 ELSE d + 1
  BY <1>6 DEF NumPhases
<1>8. c.tb_steps = 0 => Cardinality(A) = 0
  BY FS_EmptySet
<1>9. Cardinality(A) \in 0 .. NumPhases(c) - 1
  BY <1>1, <1>4, <1>7, <1>8
<1> QED
  BY <1>5, <1>9

(* Does evaluation "e" evaluate point p?                                   *)
Takes(e, d, p) == \A j \in 1 .. d : Holds(e.box[j], p[j])

LEMMA BaseNotEmpty ==
  ASSUME NEW c, NEW d, Sound(c, d), NEW s, NEW r \in DOMAIN Regions(c),
         NEW l \in 1 .. Len(Layers(c)), NEW box \in [1 .. d -> Spans],
         c.tb_steps = 0 => box = BaseOf(c, s, r, l),
         NEW p, \A j \in 1 .. d : p[j] \in Int /\ Holds(box[j], p[j]), NEW j \in 1 .. d
  PROVE  BaseOf(c, s, r, l)[j].lo < BaseOf(c, s, r, l)[j].hi
<1>1. CASE c.tb_steps = 0
  <2>1. BaseOf(c, s, r, l) = box
    BY <1>1
  <2>2. box[j].lo \in Int /\ box[j].hi \in Int /\ p[j] \in Int
    BY DEF Spans
  <2>3. box[j].lo <= p[j] /\ p[j] < box[j].hi
    BY DEF Holds
  <2> QED
    BY <2>1, <2>2, <2>3
<1>2. CASE c.tb_steps # 0
  <2> DEFINE rgn == Regions(c)[r]
             base == BaseOf(c, s, r, l)
  <2>1. rgn \in [1 .. d -> Spans] /\ RegionShiftNum(c, l) \in Nat
    BY RegionsAre, RegionShiftIs
  <2>2. c.tb_steps > 0
    BY <1>2 DEF Sound, Tempered
  <2>3. base \in [1 .. d -> Spans] /\ SameWidths(base, rgn, d)
    BY <2>1, <2>2, BaseSpans DEF BaseOf
  <2>4. rgn[j].lo < rgn[j].hi
    BY RegionNotEmpty
  <2> HIDE DEF rgn, base
  <2>5. base[j].hi - base[j].lo = rgn[j].hi - rgn[j].lo
    BY <2>3 DEF SameWidths
  <2>6. /\ base[j].hi \in Int /\ base[j].lo \in Int
        /\ rgn[j].hi \in Int /\ rgn[j].lo \in Int
    BY <2>1, <2>3 DEF Spans
  <2>7. base[j].lo < base[j].hi
    BY <2>4, <2>5, <2>6
  <2> QED
    BY <2>7 DEF base
<1> QED
  BY <1>1, <1>2

LEMMA HoldsNotEmpty ==
  ASSUME NEW d, NEW box \in [1 .. d -> Spans],
         NEW p, \A j \in 1 .. d : p[j] \in Int /\ Holds(box[j], p[j])
  PROVE  NonEmpty(box)
<1> SUFFICES ASSUME NEW j \in 1 .. d PROVE box[j].lo < box[j].hi
  BY DEF NonEmpty
<1>1. box[j].lo \in Int /\ box[j].hi \in Int /\ p[j] \in Int
  BY DEF Spans
<1>2. box[j].lo <= p[j] /\ p[j] < box[j].hi
  BY DEF Holds
<1> QED
  BY <1>1, <1>2

(* Every point of a region after a shift is evaluated then, in some phase  *)
(* by some block.                                                          *)
LEMMA LayerCovers ==
  ASSUME NEW c, NEW d, Sound(c, d), NEW s \in 1 .. Len(Sections(c)), NEW r \in DOMAIN Regions(c),
         NEW l \in 1 .. Len(Layers(c)), NEW k \in 0 .. Layers(c)[l] - 1,
         NEW box, box = ShiftRegion(c, Sections(c)[s], Regions(c)[r], RegionShiftNum(c, l) + k),
         NEW p, \A j \in 1 .. d : p[j] \in Int /\ Holds(box[j], p[j])
  PROVE  \E ph \in 0 .. NumPhases(c) - 1 : \E b \in Blocks(c, BaseOf(c, s, r, l)) :
           \E e \in Share(c, s, r, l, ph, b) :
              e.level = RegionShiftNum(c, l) + k /\ Takes(e, d, p)
<1> DEFINE sec == Sections(c)[s]
           rgn == Regions(c)[r]
           shift == RegionShiftNum(c, l)
           base == BaseOf(c, s, r, l)
<1>1. d \in Nat /\ Dims(c) = 1 .. d
  BY DimsAre DEF Sound, Adjusted
<1>2. rgn \in [1 .. d -> Spans] /\ shift \in Nat
  BY RegionsAre, RegionShiftIs
<1>3. k \in Nat /\ (c.tb_steps = 0 => k = 0)
  <2>1. Layers(c)[l] \in Nat /\ (c.tb_steps = 0 => Layers(c)[l] = 1)
    BY LayersAre
  <2> QED
    BY <2>1
<1>4. BoxFits(c, d, base, box)
  BY <1>2, <1>3, BaseIs DEF BaseOf
<1> HIDE DEF sec, rgn, shift, base
<1>5. /\ base \in [1 .. d -> Spans] /\ box \in [1 .. d -> Spans]
      /\ c.tb_steps = 0 => box = base
  BY <1>4 DEF BoxFits
<1>6. \A j \in 1 .. d : base[j].lo < base[j].hi
  BY <1>5, BaseNotEmpty DEF base
<1>7. PICK blk \in Blocks(c, base) : \A j \in 1 .. d : BlockReach(c, blk, base, k, j, p[j])
  BY <1>3, <1>5, <1>6, BlockCovers
<1>8. /\ blk \in [1 .. d -> Spans]
      /\ \A j \in 1 .. d : blk[j].lo < blk[j].hi
  <2>1. /\ blk \in [1 .. d -> Spans]
        /\ \A j \in 1 .. d : /\ BlockOf(c, blk, base, j)
                             /\ StrideIn(base, c.block, c.region)[j] \in Nat \ {0}
    BY <1>5, BlocksAre
  <2>2. \A j \in 1 .. d : blk[j].lo < blk[j].hi
    BY <1>5, <2>1, TileBounds DEF BlockOf
  <2> QED
    BY <2>1, <2>2
<1> DEFINE top(j) == Shape(c, blk, base, k, NumPhases(c), {}, box, j).hi
           A == {j \in 1 .. d : ~(p[j] < top(j))}
<1>9. ASSUME NEW j \in 1 .. d
      PROVE  /\ \A B : j \notin B /\ p[j] < top(j) =>
                   Holds(Shape(c, blk, base, k, NumPhases(c), B, box, j), p[j])
             /\ \A B : j \in B /\ ~(p[j] < top(j)) =>
                   Holds(Shape(c, blk, base, k, NumPhases(c), B, box, j), p[j])
             /\ NumPhases(c) = 1 /\ k = 0 => p[j] < top(j)
  <2>1. ShapeTypes(c, blk, base, box, k, j)
    BY <1>3, <1>5, <1>8 DEF ShapeTypes, Sound, Tempered
  <2>2. p[j] \in Int /\ Holds(box[j], p[j]) /\ BlockReach(c, blk, base, k, j, p[j])
    BY <1>7
  <2> QED
    BY <2>1, <2>2, ShapeCovers
<1>10. c.tb_steps = 0 => A = {}
  <2>1. c.tb_steps = 0 => NumPhases(c) = 1 /\ k = 0
    BY <1>3 DEF NumPhases
  <2> QED
    BY <1>9, <2>1
<1>11. \A j \in 1 .. d : Holds(Shape(c, blk, base, k, NumPhases(c), A, box, j), p[j])
  <2> SUFFICES ASSUME NEW j \in 1 .. d
               PROVE  Holds(Shape(c, blk, base, k, NumPhases(c), A, box, j), p[j])
    OBVIOUS
  <2>1. j \in A <=> ~(p[j] < top(j))
    OBVIOUS
  <2> HIDE DEF top, A
  <2> QED
    BY <1>9, <2>1, Zenon
<1>12. A \subseteq 1 .. d
  OBVIOUS
<1> HIDE DEF top, A
<1> DEFINE ph == Cardinality(A)
<1>13. ph \in 0 .. NumPhases(c) - 1 /\ A \in kSubset(ph, 1 .. d)
  BY <1>10, <1>12, PhaseOfShape
<1> HIDE DEF ph
<1>14. PICK mb \in MiniTiles(c, blk) : \A j \in 1 .. d :
         MiniReach(c, AdjBlock(c, blk), mb, k, j, p[j])
  BY <1>3, <1>8, MiniBlockCovers
<1>15. mb \in [1 .. d -> Spans]
  BY <1>8, MiniBlocksAre
<1> DEFINE moved == ShiftMiniBlock(c, mb, AdjBlock(c, blk), blk, base, k, NumPhases(c), A, box)
           e == EvaluationAt(c, s, r, l, blk, A, mb, k)
<1>16. \A j \in 1 .. d : Holds(moved[j], p[j])
  BY <1>3, <1>5, <1>8, <1>11, <1>14, <1>15, MiniBlockHolds
<1>17. moved \in [1 .. d -> Spans]
  BY <1>3, <1>5, <1>8, <1>15, ShiftMiniBlockIs, Zenon
<1>18. NonEmpty(box)
  BY <1>5, HoldsNotEmpty
<1>19. e.level = shift + k /\ e.box = moved
  <2>1. e = [level |-> shift + k, box |-> IF NonEmpty(box) THEN moved ELSE box]
    BY Zenon DEF EvaluationAt, Evaluation, shift, base
  <2> HIDE DEF e, moved
  <2> QED
    BY <1>18, <2>1
<1>20. NonEmpty(moved)
  <2> HIDE DEF moved
  <2> QED
    BY <1>16, <1>17, HoldsNotEmpty
<1>21. e \in AllAt(c, s, r, l, ph, blk)
  BY <1>1, <1>13, <1>14, EvaluationListed
<1> HIDE DEF e, moved
<1>22. e \in Share(c, s, r, l, ph, blk)
  BY <1>19, <1>20, <1>21 DEF Share, AllAt
<1>23. e.level = RegionShiftNum(c, l) + k /\ Takes(e, d, p)
  BY <1>16, <1>19 DEF Takes, shift
<1>24. blk \in Blocks(c, BaseOf(c, s, r, l))
  BY <1>7 DEF base
<1> QED
  BY <1>13, <1>22, <1>23, <1>24

(* Every point that is inside the rank at some level is taken to the next  *)
(* one at some place of the loops.                                         *)
LEMMA EveryLevelTaken ==
  ASSUME NEW c, NEW d, Sound(c, d), NEW n \in 0 .. NumLevels(c) - 1, NEW p, Inside(c, d, n, p)
  PROVE  \E s \in 1 .. Len(Sections(c)), r \in DOMAIN Regions(c), l \in 1 .. Len(Layers(c)),
            ph \in 0 .. NumPhases(c) - 1 :
           \E b \in Blocks(c, BaseOf(c, s, r, l)) : \E e \in Share(c, s, r, l, ph, b) :
              e.level = n /\ Takes(e, d, p)
<1>1. d \in Nat /\ n \in Levels(c)
  BY FewLevels DEF Sound, Adjusted
<1>2. PICK s \in 1 .. Len(Sections(c)) : \A j \in 1 .. d : InPart(c, n, Sections(c)[s], j, p[j])
  BY <1>1, SectionCovers
<1>3. PICK r \in DOMAIN Regions(c) : \A j \in 1 .. d : Holds(Shifted(c, Regions(c)[r], n)[j], p[j])
  BY <1>1, RegionCovers
<1>4. PICK l \in 1 .. Len(Layers(c)) : \E k \in 0 .. Layers(c)[l] - 1 : n = RegionShiftNum(c, l) + k
  BY LayerOfLevel
<1>5. PICK k \in 0 .. Layers(c)[l] - 1 : n = RegionShiftNum(c, l) + k
  BY <1>4
<1> DEFINE box == ShiftRegion(c, Sections(c)[s], Regions(c)[r], n)
<1>6. Regions(c)[r] \in [1 .. d -> Spans]
  BY RegionsAre
<1>7. Sections(c)[s] \in SectionTypes(d)
  BY SectionsAre
<1>8. \A j \in 1 .. d : p[j] \in Int /\ Holds(Reach(c, n, j), p[j])
  BY DEF Inside
<1>9. \A j \in 1 .. d : p[j] \in Int /\ Holds(box[j], p[j])
  BY <1>1, <1>2, <1>3, <1>6, <1>7, <1>8, ShiftRegionHolds
<1>10. box = ShiftRegion(c, Sections(c)[s], Regions(c)[r], RegionShiftNum(c, l) + k)
  BY <1>5
<1> HIDE DEF box
<1>11. \E ph \in 0 .. NumPhases(c) - 1 : \E b \in Blocks(c, BaseOf(c, s, r, l)) :
         \E e \in Share(c, s, r, l, ph, b) :
            e.level = RegionShiftNum(c, l) + k /\ Takes(e, d, p)
  BY ZenonT(40), <1>9, <1>10, LayerCovers
<1> QED
  BY <1>5, <1>11

LEMMA PointsAre ==
  ASSUME NEW d, NEW box \in [1 .. d -> Spans], NEW p
  PROVE  p \in BoxPoints(box) <=>
           p \in [1 .. d -> Int] /\ \A j \in 1 .. d : Holds(box[j], p[j])
<1> DEFINE R == UNION {box[j].lo..(box[j].hi - 1) : j \in DOMAIN box}
<1>1. BoxPoints(box) = {q \in [1 .. d -> R] : InBox(q, box)}
  BY DEF BoxPoints
<1>2. \A j \in 1 .. d : box[j].lo \in Int /\ box[j].hi \in Int
  BY DEF Spans
<1>3. R \subseteq Int
  BY <1>2
<1>4. \A j \in 1 .. d : \A x \in Int : Holds(box[j], x) => x \in R
  <2> SUFFICES ASSUME NEW j \in 1 .. d, NEW x \in Int, Holds(box[j], x) PROVE x \in R
    OBVIOUS
  <2>1. x \in box[j].lo..(box[j].hi - 1)
    BY <1>2 DEF Holds
  <2> QED
    BY <2>1
<1> HIDE DEF R
<1>5. ASSUME p \in BoxPoints(box)
      PROVE  p \in [1 .. d -> Int] /\ \A j \in 1 .. d : Holds(box[j], p[j])
  <2>1. p \in [1 .. d -> R] /\ InBox(p, box)
    BY <1>1, <1>5
  <2>2. p \in [1 .. d -> Int]
    BY <1>3, <2>1
  <2> QED
    BY <2>1, <2>2 DEF InBox, Holds
<1>6. ASSUME p \in [1 .. d -> Int], \A j \in 1 .. d : Holds(box[j], p[j])
      PROVE  p \in BoxPoints(box)
  <2>1. p \in [1 .. d -> R]
    BY <1>4, <1>6
  <2>2. InBox(p, box)
    BY <1>6 DEF InBox, Holds
  <2> QED
    BY <1>1, <2>1, <2>2
<1> QED
  BY <1>5, <1>6

(* Two points within the halo of each other.                               *)
Close(c, d, p, q) ==
  \A j \in 1 .. d : p[j] <= q[j] + c.max_halo[j] /\ q[j] <= p[j] + c.max_halo[j]

(* An evaluation that may follow one of the same point, or one of a point  *)
(* near by at another level, is of a later level.                          *)
LEMMA MustBeLater ==
  ASSUME NEW c, NEW d, Sound(c, d), NEW e, NEW f, MayFollow(c, e, f),
         e.box \in [1 .. d -> Spans], f.box \in [1 .. d -> Spans],
         NEW p \in [1 .. d -> Int], NEW q \in [1 .. d -> Int],
         Takes(e, d, p), Takes(f, d, q), Close(c, d, p, q), e.level # f.level \/ p = q
  PROVE  e.level > f.level
<1> SUFFICES ASSUME Clear(c, e, f) PROVE FALSE
  BY DEF MayFollow
<1>1. Dims(c) = 1 .. d
  BY DimsAre DEF Sound
<1>2. PICK j \in 1 .. d : Apart(f.box[j], e.box[j], Gap(c, e.level, f.level, j))
  BY <1>1 DEF Clear
<1> DEFINE gap == Gap(c, e.level, f.level, j)
<1>3. c.max_halo[j] \in Nat /\ gap = IF e.level = f.level THEN 0 ELSE c.max_halo[j]
  BY DEF Gap, Sound, Adjusted
<1>4. gap \in Nat
  BY <1>3
<1> HIDE DEF gap
<1>5. p[j] \in Int /\ q[j] \in Int /\ (e.level = f.level => p[j] = q[j])
  BY <1>1
<1>6. /\ e.box[j].lo \in Int /\ e.box[j].hi \in Int
      /\ f.box[j].lo \in Int /\ f.box[j].hi \in Int
  BY DEF Spans
<1>7. /\ e.box[j].lo <= p[j] /\ p[j] < e.box[j].hi
      /\ f.box[j].lo <= q[j] /\ q[j] < f.box[j].hi
  BY DEF Takes, Holds
<1>8. p[j] <= q[j] + c.max_halo[j] /\ q[j] <= p[j] + c.max_halo[j]
  BY DEF Close
<1>9. p[j] <= q[j] + gap /\ q[j] <= p[j] + gap
  BY <1>3, <1>5, <1>8
<1>10. f.box[j].hi + gap <= e.box[j].lo \/ e.box[j].hi + gap <= f.box[j].lo
  BY <1>2 DEF Apart, gap
<1> DEFINE elo == e.box[j].lo
           ehi == e.box[j].hi
           flo == f.box[j].lo
           fhi == f.box[j].hi
           x == p[j]
           y == q[j]
<1>11. /\ elo \in Int /\ ehi \in Int /\ flo \in Int /\ fhi \in Int /\ x \in Int /\ y \in Int
       /\ elo <= x /\ x < ehi /\ flo <= y /\ y < fhi
       /\ x <= y + gap /\ y <= x + gap
       /\ fhi + gap <= elo \/ ehi + gap <= flo
  BY <1>5, <1>6, <1>7, <1>9, <1>10
<1> HIDE DEF elo, ehi, flo, fhi, x, y
<1>12. fhi + gap <= elo
  BY <1>4, <1>11
<1> QED
  BY <1>4, <1>11, <1>12

LEMMA CloseToSelf ==
  ASSUME NEW c, NEW d, Sound(c, d), NEW p \in [1 .. d -> Int]
  PROVE  Close(c, d, p, p)
<1>1. \A j \in 1 .. d : p[j] \in Int /\ c.max_halo[j] \in Nat
  BY DEF Sound, Adjusted
<1> QED
  BY <1>1 DEF Close

(* What is inside the rank at one level is so at every earlier level; the  *)
(* points it reads are too.                                                *)
LEMMA SlopeSteps ==
  ASSUME NEW a \in Nat, NEW n \in Nat, NEW m \in Nat, m <= n
  PROVE  a * m \in Nat /\ a * n \in Nat /\ a * m <= a * n /\ (m < n => a * m + a <= a * n)
<1>1. a * m \in Nat /\ a * n \in Nat
  OBVIOUS
<1>2. CASE m = n
  BY <1>1, <1>2
<1>3. CASE m < n
  BY <1>3, TimesMonotone
<1> QED
  BY <1>2, <1>3

LEMMA InsideEarlier ==
  ASSUME NEW c, NEW d, Sound(c, d), NEW n \in Levels(c), NEW m \in Levels(c), m <= n,
         NEW p, Inside(c, d, n, p)
  PROVE  Inside(c, d, m, p)
<1> SUFFICES ASSUME NEW j \in 1 .. d
             PROVE  p[j] \in Int /\ Holds(Reach(c, m, j), p[j])
  BY DEF Inside
<1>1. p[j] \in Int /\ Holds(Reach(c, n, j), p[j])
  BY DEF Inside
<1>2. c.wf_angles[j] \in Nat /\ n \in Nat /\ m \in Nat
  BY SlopeIs
<1> DEFINE an == c.wf_angles[j] * n
           am == c.wf_angles[j] * m
<1>3. an \in Nat /\ am \in Nat /\ am <= an
  BY <1>2, SlopeSteps
<1>4. c.ext_bb[j].lo \in Int /\ c.ext_bb[j].hi \in Int
  BY DEF Sound, Bounded, Spans
<1> HIDE DEF an, am
<1>5. /\ c.ext_bb[j].lo + (IF c.left[j] THEN an ELSE 0) <= p[j]
      /\ p[j] < c.ext_bb[j].hi - (IF c.right[j] THEN an ELSE 0)
  BY <1>1 DEF Holds, Reach, an
<1>6. /\ c.ext_bb[j].lo + (IF c.left[j] THEN am ELSE 0) <= p[j]
      /\ p[j] < c.ext_bb[j].hi - (IF c.right[j] THEN am ELSE 0)
  BY <1>1, <1>3, <1>4, <1>5
<1> QED
  BY <1>1, <1>6 DEF Holds, Reach, am

LEMMA StoredIs ==
  ASSUME NEW c, NEW d, Sound(c, d)
  PROVE  /\ Stored(c) \in [1 .. d -> Spans]
         /\ \A j \in 1 .. d :
              /\ Stored(c)[j].lo = c.ext_bb[j].lo - (IF c.left[j] THEN c.max_halo[j] ELSE 0)
              /\ Stored(c)[j].hi = c.ext_bb[j].hi + (IF c.right[j] THEN c.max_halo[j] ELSE 0)
              /\ Within(c.ext_bb[j], Stored(c)[j])
<1>1. Dims(c) = 1 .. d
  BY DimsAre DEF Sound
<1> DEFINE lo(j) == c.ext_bb[j].lo - (IF c.left[j] THEN c.max_halo[j] ELSE 0)
           hi(j) == c.ext_bb[j].hi + (IF c.right[j] THEN c.max_halo[j] ELSE 0)
<1>2. Stored(c) = [j \in 1 .. d |-> [lo |-> lo(j), hi |-> hi(j)]]
  BY <1>1 DEF Stored
<1>3. \A j \in 1 .. d : c.max_halo[j] \in Nat /\ c.ext_bb[j].lo \in Int /\ c.ext_bb[j].hi \in Int
  BY DEF Sound, Adjusted, Bounded, Spans
<1>4. \A j \in 1 .. d : /\ lo(j) \in Int /\ hi(j) \in Int
                        /\ lo(j) <= c.ext_bb[j].lo /\ c.ext_bb[j].hi <= hi(j)
  BY <1>3
<1> HIDE DEF lo, hi
<1>5. \A j \in 1 .. d : [lo |-> lo(j), hi |-> hi(j)] \in Spans
  BY <1>4 DEF Spans
<1>6. Stored(c) \in [1 .. d -> Spans] /\ \A j \in 1 .. d : Stored(c)[j].lo = lo(j) /\ Stored(c)[j].hi = hi(j)
  BY <1>2, <1>5
<1> QED
  BY <1>4, <1>6 DEF Within, lo, hi

LEMMA ReadsInside ==
  ASSUME NEW c, NEW d, Sound(c, d), NEW n \in Levels(c), NEW m \in Levels(c), m < n,
         NEW p \in [1 .. d -> Int], Inside(c, d, n, p), NEW q \in BoxPoints(Stored(c)),
         Close(c, d, p, q)
  PROVE  Inside(c, d, m, q)
<1>0. q \in [1 .. d -> Int] /\ \A j \in 1 .. d : Holds(Stored(c)[j], q[j])
  BY StoredIs, PointsAre
<1> SUFFICES ASSUME NEW j \in 1 .. d
             PROVE  q[j] \in Int /\ Holds(Reach(c, m, j), q[j])
  BY DEF Inside
<1>1. p[j] \in Int /\ q[j] \in Int /\ Holds(Reach(c, n, j), p[j])
  BY <1>0 DEF Inside
<1>2. c.wf_angles[j] \in Nat /\ n \in Nat /\ m \in Nat /\ c.max_halo[j] \in Nat
  BY SlopeIs DEF Sound, Adjusted
<1> DEFINE an == c.wf_angles[j] * n
           am == c.wf_angles[j] * m
<1>3. an \in Nat /\ am \in Nat /\ am + c.wf_angles[j] <= an
  BY <1>2, TimesMonotone
<1>4. c.ext_bb[j].lo \in Int /\ c.ext_bb[j].hi \in Int
  BY DEF Sound, Bounded, Spans
<1>5. c.left[j] \/ c.right[j] => c.max_halo[j] <= c.wf_angles[j]
  BY DEF Sound, Waved, Fronted
<1>6. /\ Stored(c)[j].lo = c.ext_bb[j].lo - (IF c.left[j] THEN c.max_halo[j] ELSE 0)
      /\ Stored(c)[j].hi = c.ext_bb[j].hi + (IF c.right[j] THEN c.max_halo[j] ELSE 0)
      /\ Stored(c)[j].lo <= q[j] /\ q[j] < Stored(c)[j].hi
  BY <1>0, StoredIs DEF Holds
<1>7. p[j] <= q[j] + c.max_halo[j] /\ q[j] <= p[j] + c.max_halo[j]
  BY DEF Close
<1> HIDE DEF an, am
<1>8. /\ c.ext_bb[j].lo + (IF c.left[j] THEN an ELSE 0) <= p[j]
      /\ p[j] < c.ext_bb[j].hi - (IF c.right[j] THEN an ELSE 0)
  BY <1>1 DEF Holds, Reach, an
<1> DEFINE a == c.wf_angles[j]
           h == c.max_halo[j]
           lo == c.ext_bb[j].lo
           hi == c.ext_bb[j].hi
<1>9. /\ a \in Nat /\ h \in Nat /\ lo \in Int /\ hi \in Int /\ am + a <= an
      /\ p[j] <= q[j] + h /\ q[j] <= p[j] + h
  BY <1>2, <1>3, <1>4, <1>7
<1>10. /\ c.left[j] => h <= a /\ lo + an <= p[j]
       /\ ~c.left[j] => lo <= q[j]
       /\ c.right[j] => h <= a /\ p[j] < hi - an
       /\ ~c.right[j] => q[j] < hi
  <2>1. /\ ~c.left[j] => Stored(c)[j].lo = lo - 0
        /\ ~c.right[j] => Stored(c)[j].hi = hi + 0
    BY <1>6
  <2>2. (c.left[j] => h <= a) /\ (c.right[j] => h <= a)
    BY <1>5
  <2>3. (c.left[j] => lo + an <= p[j]) /\ (c.right[j] => p[j] < hi - an)
    BY <1>8
  <2> QED
    BY <1>4, <1>6, <2>1, <2>2, <2>3
<1> HIDE DEF a, h, lo, hi
<1>11. /\ c.left[j] => lo + am <= q[j]
       /\ c.right[j] => q[j] < hi - am
  BY <1>1, <1>3, <1>9, <1>10
<1>12. /\ lo + (IF c.left[j] THEN am ELSE 0) <= q[j]
       /\ q[j] < hi - (IF c.right[j] THEN am ELSE 0)
  BY <1>9, <1>10, <1>11
<1> QED
  BY <1>1, <1>12 DEF Holds, Reach, am, lo, hi

LEMMA RankInside ==
  ASSUME NEW c, NEW d, Sound(c, d), NEW n \in Levels(c), NEW p \in [1 .. d -> Int],
         \A j \in 1 .. d : 0 <= p[j] /\ p[j] < c.rank[j]
  PROVE  Inside(c, d, n, p) /\ p \in BoxPoints(Stored(c))
<1>1. ASSUME NEW j \in 1 .. d
      PROVE  /\ p[j] \in Int /\ Holds(Reach(c, n, j), p[j])
             /\ Holds(Stored(c)[j], p[j])
  <2>1. /\ Reach(c, n, j).lo \in Int /\ Reach(c, n, j).hi \in Int
        /\ c.ext_bb[j].lo <= Reach(c, n, j).lo /\ Reach(c, n, j).lo <= 0
        /\ Reach(c, n, j).hi <= c.ext_bb[j].hi /\ c.rank[j] <= Reach(c, n, j).hi
    BY ReachIs
  <2>2. /\ p[j] \in Int /\ c.rank[j] \in Int /\ 0 <= p[j] /\ p[j] < c.rank[j]
        /\ c.ext_bb[j].lo \in Int /\ c.ext_bb[j].hi \in Int
    <3>1. c.rank[j] \in Int
      BY DEF Sound, Adjusted, Sizes
    <3>2. c.ext_bb[j].lo \in Int /\ c.ext_bb[j].hi \in Int
      BY DEF Sound, Bounded, Spans
    <3> QED
      BY <3>1, <3>2
  <2>3. Reach(c, n, j).lo <= p[j] /\ p[j] < Reach(c, n, j).hi
    BY <2>1, <2>2
  <2>4. /\ Stored(c)[j].lo \in Int /\ Stored(c)[j].hi \in Int
        /\ Stored(c)[j].lo <= c.ext_bb[j].lo /\ c.ext_bb[j].hi <= Stored(c)[j].hi
    BY StoredIs DEF Spans, Within
  <2>5. Stored(c)[j].lo <= p[j] /\ p[j] < Stored(c)[j].hi
    BY <2>1, <2>2, <2>3, <2>4
  <2> QED
    BY <2>2, <2>3, <2>5 DEF Holds
<1>2. p \in BoxPoints(Stored(c))
  BY <1>1, StoredIs, PointsAre
<1> QED
  BY <1>1, <1>2 DEF Inside

(* What a block evaluates is inside the rank.                              *)
LEMMA ShareInside ==
  ASSUME NEW c, NEW d, NEW s, NEW r, NEW l, NEW ph, AtPlace(c, d, s, r, l, ph),
         NEW b \in Blocks(c, BaseOf(c, s, r, l)), NEW e \in Share(c, s, r, l, ph, b)
  PROVE  /\ e.box \in [1 .. d -> Spans] /\ e.level \in 0 .. NumLevels(c) - 1
         /\ e.level \in Levels(c) /\ e.level \in Nat
         /\ \A p \in [1 .. d -> Int] : Takes(e, d, p) => Inside(c, d, e.level, p)
<1>1. Placed(e, c, d, Sections(c)[s], Regions(c)[r]) /\ e.level \in 0 .. NumLevels(c) - 1
  BY ShareIs
<1>2. e.level \in Nat
  BY <1>1 DEF Placed, Levels
<1>3. ASSUME NEW p \in [1 .. d -> Int], Takes(e, d, p) PROVE Inside(c, d, e.level, p)
  <2>1. \A j \in 1 .. d : p[j] \in Int /\ Holds(e.box[j], p[j])
    BY <1>3 DEF Takes
  <2> QED
    BY <1>1, <2>1 DEF Inside, Placed
<1> QED
  BY <1>1, <1>2, <1>3 DEF Placed

(* With the set "work" of evaluations still to come: every level that a    *)
(* point lacks is among them, and none of them should have been made       *)
(* before the last evaluation of a point.                                  *)
NothingMissed(c, d, work, lv) ==
  \A p \in DOMAIN lv : \A n \in 0 .. NumLevels(c) - 1 :
    lv[p] <= n /\ Inside(c, d, n, p) => \E f \in work : f.level = n /\ Takes(f, d, p)

NothingEarly(c, d, work, lv) ==
  \A p \in DOMAIN lv : lv[p] > 0 =>
    \E g : /\ g.level \in 0 .. NumLevels(c) - 1 /\ g.level + 1 = lv[p]
           /\ g.box \in [1 .. d -> Spans] /\ Takes(g, d, p)
           /\ \A f \in work : MayFollow(c, f, g)

Proper(c, d, e) ==
  /\ e.box \in [1 .. d -> Spans] /\ e.level \in 0 .. NumLevels(c) - 1
  /\ e.level \in Levels(c) /\ e.level \in Nat
  /\ \A p \in [1 .. d -> Int] : Takes(e, d, p) => Inside(c, d, e.level, p)

OnTime(c, d, work, lv) ==
  /\ lv \in [BoxPoints(Stored(c)) -> Nat]
  /\ \A e \in work : Proper(c, d, e)
  /\ NothingMissed(c, d, work, lv) /\ NothingEarly(c, d, work, lv)

(* "e" is in "work" and may be made before all the others.                 *)
First(c, work, e) == e \in work /\ \A f \in work : f = e \/ MayFollow(c, f, e)

LEMMA LevelledPoint ==
  ASSUME NEW c, NEW d, Sound(c, d), NEW work, NEW lv, OnTime(c, d, work, lv), NEW p \in DOMAIN lv
  PROVE  p \in [1 .. d -> Int] /\ p \in BoxPoints(Stored(c)) /\ lv[p] \in Nat /\ Close(c, d, p, p)
<1>1. p \in BoxPoints(Stored(c)) /\ lv[p] \in Nat
  BY DEF OnTime
<1>2. p \in [1 .. d -> Int]
  BY <1>1, StoredIs, PointsAre
<1> QED
  BY <1>1, <1>2, CloseToSelf

LEMMA FirstInTurn ==
  ASSUME NEW c, NEW d, Sound(c, d), NEW work, NEW lv, OnTime(c, d, work, lv),
         NEW e, First(c, work, e), NEW p \in DOMAIN lv, Takes(e, d, p)
  PROVE  lv[p] = e.level
<1>1. p \in [1 .. d -> Int] /\ lv[p] \in Nat /\ Close(c, d, p, p)
  BY LevelledPoint
<1>2. e \in work /\ Proper(c, d, e)
  BY DEF First, OnTime
<1>3. e.box \in [1 .. d -> Spans] /\ e.level \in 0 .. NumLevels(c) - 1 /\ e.level \in Nat
      /\ e.level \in Levels(c) /\ Inside(c, d, e.level, p) /\ NumLevels(c) \in Nat
  BY <1>1, <1>2, FewLevels DEF Proper
<1>4. ~(lv[p] < e.level)
  <2> SUFFICES ASSUME lv[p] < e.level PROVE FALSE
    OBVIOUS
  <2>1. lv[p] \in 0 .. NumLevels(c) - 1
    BY <1>1, <1>3
  <2>2. lv[p] \in Levels(c)
    BY <2>1, FewLevels
  <2>3. Inside(c, d, lv[p], p)
    <3>1. lv[p] <= e.level
      BY <1>1, <1>3
    <3> QED
      BY <1>3, <2>2, <3>1, InsideEarlier
  <2>4. PICK f \in work : f.level = lv[p] /\ Takes(f, d, p)
    <3>1. lv[p] <= lv[p]
      BY <1>1
    <3> QED
      BY <2>1, <2>3, <3>1 DEF OnTime, NothingMissed
  <2>5. f # e
    BY <1>1, <1>3, <2>4
  <2>6. MayFollow(c, f, e)
    BY <2>4, <2>5 DEF First
  <2>7. f.box \in [1 .. d -> Spans]
    BY <2>4 DEF OnTime, Proper
  <2>8. f.level > e.level
    BY <1>1, <1>3, <2>4, <2>6, <2>7, MustBeLater
  <2> QED
    BY <1>1, <1>3, <2>4, <2>8
<1>5. ~(lv[p] > e.level)
  <2> SUFFICES ASSUME lv[p] > e.level PROVE FALSE
    OBVIOUS
  <2>1. lv[p] > 0
    BY <1>1, <1>3
  <2>2. PICK g : /\ g.level \in 0 .. NumLevels(c) - 1 /\ g.level + 1 = lv[p]
                 /\ g.box \in [1 .. d -> Spans] /\ Takes(g, d, p)
                 /\ \A f \in work : MayFollow(c, f, g)
    BY <2>1 DEF OnTime, NothingEarly
  <2>3. MayFollow(c, e, g)
    BY <1>2, <2>2
  <2>4. e.level > g.level
    BY <1>1, <1>3, <2>2, <2>3, MustBeLater
  <2> QED
    BY <1>1, <1>3, <2>2, <2>4
<1> QED
  BY <1>1, <1>3, <1>4, <1>5

(* Making the first evaluation leaves the rest on time.                    *)
LEMMA FirstMade ==
  ASSUME NEW c, NEW d, Sound(c, d), NEW work, NEW lv, OnTime(c, d, work, lv),
         NEW e, First(c, work, e), NEW rest, rest \subseteq work, work \subseteq rest \cup {e},
         \A f \in rest : MayFollow(c, f, e),
         NEW lv2, lv2 = [p \in DOMAIN lv |-> IF Takes(e, d, p) THEN e.level + 1 ELSE lv[p]]
  PROVE  OnTime(c, d, rest, lv2)
<1>1. e \in work /\ Proper(c, d, e) /\ \A f \in rest : Proper(c, d, f)
  BY DEF First, OnTime
<1>2. e.level \in Nat /\ e.box \in [1 .. d -> Spans] /\ e.level \in 0 .. NumLevels(c) - 1
  BY <1>1 DEF Proper
<1>3. DOMAIN lv2 = DOMAIN lv /\ DOMAIN lv = BoxPoints(Stored(c))
  BY DEF OnTime
<1>4. \A p \in DOMAIN lv : /\ Takes(e, d, p) => lv2[p] = e.level + 1
                           /\ ~Takes(e, d, p) => lv2[p] = lv[p]
                           /\ lv[p] \in Nat
  BY DEF OnTime
<1>5. lv2 \in [BoxPoints(Stored(c)) -> Nat]
  <2>1. \A p \in DOMAIN lv : lv2[p] \in Nat
    BY <1>2, <1>4
  <2>2. lv2 = [p \in BoxPoints(Stored(c)) |-> lv2[p]]
    BY <1>3
  <2> QED
    BY <1>3, <2>1, <2>2
<1>6. NothingMissed(c, d, rest, lv2)
  <2> SUFFICES ASSUME NEW p \in DOMAIN lv2, NEW n \in 0 .. NumLevels(c) - 1,
                      lv2[p] <= n, Inside(c, d, n, p)
               PROVE  \E f \in rest : f.level = n /\ Takes(f, d, p)
    BY DEF NothingMissed
  <2>1. p \in DOMAIN lv /\ lv[p] \in Nat /\ n \in Int /\ lv[p] <= n
    <3>1. p \in DOMAIN lv /\ lv[p] \in Nat /\ n \in Int
      BY <1>3, <1>4
    <3>2. CASE Takes(e, d, p)
      <4>1. lv[p] = e.level
        BY <3>1, <3>2, FirstInTurn
      <4>2. lv2[p] = e.level + 1
        BY <1>4, <3>1, <3>2
      <4> QED
        BY <1>2, <3>1, <4>1, <4>2
    <3>3. CASE ~Takes(e, d, p)
      BY <1>4, <3>1, <3>3
    <3> QED
      BY <3>2, <3>3
  <2>2. PICK f \in work : f.level = n /\ Takes(f, d, p)
    BY <2>1 DEF OnTime, NothingMissed
  <2>3. f # e
    <3> SUFFICES ASSUME f = e PROVE FALSE
      OBVIOUS
    <3>1. Takes(e, d, p) /\ e.level = n
      BY <2>2
    <3>2. lv2[p] = e.level + 1
      BY <1>4, <2>1, <3>1
    <3> QED
      BY <1>2, <2>1, <3>1, <3>2
  <2> QED
    BY <2>2, <2>3
<1>7. NothingEarly(c, d, rest, lv2)
  <2> SUFFICES ASSUME NEW p \in DOMAIN lv2, lv2[p] > 0
               PROVE  \E g : /\ g.level \in 0 .. NumLevels(c) - 1 /\ g.level + 1 = lv2[p]
                             /\ g.box \in [1 .. d -> Spans] /\ Takes(g, d, p)
                             /\ \A f \in rest : MayFollow(c, f, g)
    BY DEF NothingEarly
  <2>1. p \in DOMAIN lv
    BY <1>3
  <2>2. CASE Takes(e, d, p)
    <3>1. e.level + 1 = lv2[p]
      BY <1>4, <2>1, <2>2
    <3> QED
      BY <1>2, <2>2, <3>1
  <2>3. CASE ~Takes(e, d, p)
    <3>1. lv2[p] = lv[p]
      BY <1>4, <2>1, <2>3
    <3>2. PICK g : /\ g.level \in 0 .. NumLevels(c) - 1 /\ g.level + 1 = lv[p]
                   /\ g.box \in [1 .. d -> Spans] /\ Takes(g, d, p)
                   /\ \A f \in work : MayFollow(c, f, g)
      BY <2>1, <3>1 DEF OnTime, NothingEarly
    <3>3. \A f \in rest : MayFollow(c, f, g)
      BY <3>2
    <3> QED
      BY <3>1, <3>2, <3>3
  <2> QED
    BY <2>2, <2>3
<1> QED
  BY <1>1, <1>5, <1>6, <1>7 DEF OnTime

(* The points that the first evaluation reads hold its level or the next.  *)
LEMMA FirstReads ==
  ASSUME NEW c, NEW d, Sound(c, d), NEW work, NEW lv, OnTime(c, d, work, lv),
         NEW e, First(c, work, e), NEW p \in DOMAIN lv, Takes(e, d, p),
         NEW q \in DOMAIN lv, Close(c, d, p, q)
  PROVE  lv[q] \in {lv[p], lv[p] + 1}
<1>1. lv[p] = e.level
  BY FirstInTurn
<1>2. p \in [1 .. d -> Int] /\ q \in [1 .. d -> Int] /\ q \in BoxPoints(Stored(c)) /\ lv[q] \in Nat
  BY LevelledPoint
<1>3. Close(c, d, q, p)
  BY DEF Close
<1>4. e \in work /\ Proper(c, d, e)
  BY DEF First, OnTime
<1>5. e.box \in [1 .. d -> Spans] /\ e.level \in 0 .. NumLevels(c) - 1 /\ e.level \in Nat
      /\ e.level \in Levels(c) /\ Inside(c, d, e.level, p) /\ NumLevels(c) \in Nat
  BY <1>2, <1>4, FewLevels DEF Proper
<1>6. ~(lv[q] < e.level)
  <2> SUFFICES ASSUME lv[q] < e.level PROVE FALSE
    OBVIOUS
  <2>1. lv[q] \in 0 .. NumLevels(c) - 1
    BY <1>2, <1>5
  <2>2. lv[q] \in Levels(c)
    BY <2>1, FewLevels
  <2>3. Inside(c, d, lv[q], q)
    BY <1>2, <1>5, <2>2, ReadsInside
  <2>4. PICK f \in work : f.level = lv[q] /\ Takes(f, d, q)
    <3>1. lv[q] <= lv[q]
      BY <1>2
    <3> QED
      BY <2>1, <2>3, <3>1 DEF OnTime, NothingMissed
  <2>5. f # e /\ f.level # e.level
    BY <1>2, <1>5, <2>4
  <2>6. MayFollow(c, f, e)
    BY <2>4, <2>5 DEF First
  <2>7. f.box \in [1 .. d -> Spans]
    BY <2>4 DEF OnTime, Proper
  <2>8. f.level > e.level
    BY <1>2, <1>3, <1>5, <2>4, <2>5, <2>6, <2>7, MustBeLater
  <2> QED
    BY <1>2, <1>5, <2>4, <2>8
<1>7. ~(lv[q] > e.level + 1)
  <2> SUFFICES ASSUME lv[q] > e.level + 1 PROVE FALSE
    OBVIOUS
  <2>1. lv[q] > 0
    BY <1>2, <1>5
  <2>2. PICK g : /\ g.level \in 0 .. NumLevels(c) - 1 /\ g.level + 1 = lv[q]
                 /\ g.box \in [1 .. d -> Spans] /\ Takes(g, d, q)
                 /\ \A f \in work : MayFollow(c, f, g)
    BY <2>1 DEF OnTime, NothingEarly
  <2>3. MayFollow(c, e, g)
    BY <1>4, <2>2
  <2>4. e.level # g.level
    BY <1>2, <1>5, <2>2
  <2>5. e.level > g.level
    BY <1>2, <1>5, <2>2, <2>3, <2>4, MustBeLater
  <2> QED
    BY <1>2, <1>5, <2>2, <2>5
<1> QED
  BY <1>1, <1>2, <1>5, <1>6, <1>7

(* Points that no evaluation to come takes have all their levels.          *)
LEMMA AllLevels ==
  ASSUME NEW c, NEW d, Sound(c, d), NEW work, NEW lv, OnTime(c, d, work, lv),
         NEW p \in [1 .. d -> Int], \A j \in 1 .. d : 0 <= p[j] /\ p[j] < c.rank[j],
         \A f \in work : ~Takes(f, d, p)
  PROVE  lv[p] = NumLevels(c)
<1>1. NumLevels(c) \in Nat
  BY FewLevels
<1>2. 0 \in Levels(c)
  BY DEF Levels, Sound, Waved
<1>3. p \in DOMAIN lv
  BY <1>2, RankInside DEF OnTime
<1>4. lv[p] \in Nat
  BY <1>3, LevelledPoint
<1>5. ~(lv[p] < NumLevels(c))
  <2> SUFFICES ASSUME lv[p] < NumLevels(c) PROVE FALSE
    OBVIOUS
  <2>1. lv[p] \in 0 .. NumLevels(c) - 1 /\ lv[p] <= lv[p]
    BY <1>1, <1>4
  <2>2. Inside(c, d, lv[p], p)
    BY <2>1, FewLevels, RankInside
  <2> QED
    BY <1>3, <2>1, <2>2 DEF OnTime, NothingMissed
<1>6. ~(lv[p] > NumLevels(c))
  <2> SUFFICES ASSUME lv[p] > NumLevels(c) PROVE FALSE
    OBVIOUS
  <2>1. lv[p] > 0
    BY <1>1, <1>4
  <2>2. PICK g : g.level \in 0 .. NumLevels(c) - 1 /\ g.level + 1 = lv[p]
    BY <1>3, <2>1 DEF OnTime, NothingEarly
  <2> QED
    BY <1>1, <1>4, <2>2
<1> QED
  BY <1>1, <1>4, <1>5, <1>6

(* What is to come: the rest of every thread's work, and the work of every *)
(* later place of the loops.                                               *)
Places(c) ==
  (1 .. Len(Sections(c))) \X (DOMAIN Regions(c)) \X (1 .. Len(Layers(c))) \X (0 .. NumPhases(c) - 1)

SharedAt(c, s, r, l, ph) == UNION {Share(c, s, r, l, ph, b) : b \in Blocks(c, BaseOf(c, s, r, l))}

LaterWork(c, s, r, l, ph) ==
  UNION {SharedAt(c, x[1], x[2], x[3], x[4]) :
           x \in {y \in Places(c) : PlaceBefore(s, r, l, ph, y[1], y[2], y[3], y[4])}}

ThreadsWork(t) == UNION {Members(t[b]) : b \in DOMAIN t}

WorkToCome(c, s, r, l, ph, t) == ThreadsWork(t) \cup LaterWork(c, s, r, l, ph)

InThread(c, s, r, l, ph, b, w) ==
  /\ w \in Seq(Share(c, s, r, l, ph, b))
  /\ \A i, k \in 1 .. Len(w) : i < k => MayFollow(c, w[k], w[i])

Threads(c, d, s, r, l, ph, t) ==
  /\ AtPlace(c, d, s, r, l, ph)
  /\ DOMAIN t = Blocks(c, BaseOf(c, s, r, l))
  /\ \A b \in DOMAIN t : InThread(c, s, r, l, ph, b, t[b])

LEMMA LaterWorkIs ==
  ASSUME NEW c, NEW d, Sound(c, d), NEW s, NEW r, NEW l, NEW ph, NEW e
  PROVE  e \in LaterWork(c, s, r, l, ph) <=>
           \E s2, r2, l2, ph2 : /\ AtPlace(c, d, s2, r2, l2, ph2)
                                /\ PlaceBefore(s, r, l, ph, s2, r2, l2, ph2)
                                /\ e \in SharedAt(c, s2, r2, l2, ph2)
<1>1. ASSUME e \in LaterWork(c, s, r, l, ph)
      PROVE  \E s2, r2, l2, ph2 : /\ AtPlace(c, d, s2, r2, l2, ph2)
                                  /\ PlaceBefore(s, r, l, ph, s2, r2, l2, ph2)
                                  /\ e \in SharedAt(c, s2, r2, l2, ph2)
  <2>1. PICK x \in Places(c) : /\ PlaceBefore(s, r, l, ph, x[1], x[2], x[3], x[4])
                               /\ e \in SharedAt(c, x[1], x[2], x[3], x[4])
    BY <1>1 DEF LaterWork
  <2>2. AtPlace(c, d, x[1], x[2], x[3], x[4])
    BY DEF Places, AtPlace
  <2> QED
    BY <2>1, <2>2
<1>2. ASSUME NEW s2, NEW r2, NEW l2, NEW ph2, AtPlace(c, d, s2, r2, l2, ph2),
             PlaceBefore(s, r, l, ph, s2, r2, l2, ph2), e \in SharedAt(c, s2, r2, l2, ph2)
      PROVE  e \in LaterWork(c, s, r, l, ph)
  <2> DEFINE x == <<s2, r2, l2, ph2>>
  <2>1. x[1] = s2 /\ x[2] = r2 /\ x[3] = l2 /\ x[4] = ph2
    OBVIOUS
  <2>2. x \in Places(c)
    BY <1>2 DEF AtPlace, Places
  <2> HIDE DEF x
  <2>3. /\ PlaceBefore(s, r, l, ph, x[1], x[2], x[3], x[4])
        /\ e \in SharedAt(c, x[1], x[2], x[3], x[4])
    BY <1>2, <2>1
  <2> QED
    BY <2>2, <2>3 DEF LaterWork
<1> QED
  BY <1>1, <1>2

LEMMA SharedProper ==
  ASSUME NEW c, NEW d, NEW s, NEW r, NEW l, NEW ph, AtPlace(c, d, s, r, l, ph),
         NEW e \in SharedAt(c, s, r, l, ph)
  PROVE  Proper(c, d, e)
<1>1. PICK b \in Blocks(c, BaseOf(c, s, r, l)) : e \in Share(c, s, r, l, ph, b)
  BY DEF SharedAt
<1> QED
  BY <1>1, ShareInside DEF Proper

LEMMA HeadAndTail ==
  ASSUME NEW S, NEW w \in Seq(S), w # << >>
  PROVE  /\ Head(w) = w[1] /\ Head(w) \in S /\ Head(w) \in Members(w)
         /\ Tail(w) \in Seq(S) /\ Len(w) \in Nat /\ Len(w) > 0
         /\ Len(Tail(w)) = Len(w) - 1
         /\ \A i \in 1 .. Len(Tail(w)) : Tail(w)[i] = w[i + 1] /\ i + 1 \in 1 .. Len(w)
         /\ Members(Tail(w)) \subseteq Members(w) /\ Members(w) \subseteq Members(Tail(w)) \cup {Head(w)}
<1>1. Len(w) \in Nat /\ Len(w) > 0
  OBVIOUS
<1>2. Head(w) = w[1] /\ w[1] \in S /\ Tail(w) \in Seq(S) /\ Len(Tail(w)) = Len(w) - 1
  BY <1>1
<1>3. \A i \in 1 .. Len(Tail(w)) : Tail(w)[i] = w[i + 1] /\ i + 1 \in 1 .. Len(w)
  BY <1>1, <1>2
<1>4. Head(w) \in Members(w)
  BY <1>1, <1>2 DEF Members
<1>5. Members(Tail(w)) \subseteq Members(w)
  BY <1>3 DEF Members
<1>6. ASSUME NEW i \in 1 .. Len(w) PROVE w[i] \in Members(Tail(w)) \cup {Head(w)}
  <2>1. CASE i = 1
    BY <1>2, <2>1
  <2>2. CASE i # 1
    <3>1. i - 1 \in 1 .. Len(Tail(w)) /\ (i - 1) + 1 = i
      BY <1>1, <1>2, <2>2
    <3>2. Tail(w)[i - 1] = w[i]
      BY <1>3, <3>1
    <3>3. w[i] \in Members(Tail(w))
      BY <3>1, <3>2 DEF Members
    <3> QED
      BY <3>3
  <2> QED
    BY <2>1, <2>2
<1>7. Members(w) \subseteq Members(Tail(w)) \cup {Head(w)}
  BY <1>6 DEF Members
<1> QED
  BY <1>1, <1>2, <1>3, <1>4, <1>5, <1>7

(* The thread of block "b" has made its next evaluation.                    *)
OneMade(t, b) == [t EXCEPT ![b] = Tail(@)]

(* What a thread is about to evaluate may be made before all the rest.     *)
LEMMA HeadIsFirst ==
  ASSUME NEW c, NEW d, NEW s, NEW r, NEW l, NEW ph, NEW t, Threads(c, d, s, r, l, ph, t),
         WideRemainders(c), NEW b \in DOMAIN t, t[b] # << >>,
         NEW t2, t2 = OneMade(t, b),
         NEW e, e = Head(t[b]), NEW work, work = WorkToCome(c, s, r, l, ph, t),
         NEW rest, rest = WorkToCome(c, s, r, l, ph, t2)
  PROVE  /\ First(c, work, e) /\ rest \subseteq work /\ work \subseteq rest \cup {e}
         /\ \A f \in rest : MayFollow(c, f, e)
         /\ Threads(c, d, s, r, l, ph, t2)
<1> DEFINE w == t[b]
           S == Share(c, s, r, l, ph, b)
<1>1. AtPlace(c, d, s, r, l, ph) /\ DOMAIN t = Blocks(c, BaseOf(c, s, r, l)) /\ Sound(c, d)
  BY DEF Threads, AtPlace
<1>2. /\ w \in Seq(S) /\ w # << >> /\ e = Head(w)
      /\ \A i, k \in 1 .. Len(w) : i < k => MayFollow(c, w[k], w[i])
  BY DEF Threads, InThread
<1>3. DOMAIN t2 = DOMAIN t /\ t2[b] = Tail(w) /\ \A x \in DOMAIN t : x # b => t2[x] = t[x]
  BY DEF OneMade
<1> HIDE DEF w, S
<1>4. /\ e = w[1] /\ e \in S /\ e \in Members(w) /\ Tail(w) \in Seq(S)
      /\ Len(w) \in Nat /\ Len(w) > 0 /\ Len(Tail(w)) = Len(w) - 1
      /\ \A i \in 1 .. Len(Tail(w)) : Tail(w)[i] = w[i + 1] /\ i + 1 \in 1 .. Len(w)
      /\ Members(Tail(w)) \subseteq Members(w) /\ Members(w) \subseteq Members(Tail(w)) \cup {e}
  BY <1>2, HeadAndTail
<1>5. rest \subseteq work /\ work \subseteq rest \cup {e} /\ e \in work
  <2>1. ThreadsWork(t2) \subseteq ThreadsWork(t)
    <3> SUFFICES ASSUME NEW x \in DOMAIN t, NEW f \in Members(t2[x])
                 PROVE  f \in Members(t[x])
      BY <1>3 DEF ThreadsWork
    <3>1. CASE x = b
      BY <1>3, <1>4, <3>1 DEF w
    <3>2. CASE x # b
      BY <1>3, <3>2
    <3> QED
      BY <3>1, <3>2
  <2>2. ThreadsWork(t) \subseteq ThreadsWork(t2) \cup {e}
    <3> SUFFICES ASSUME NEW x \in DOMAIN t, NEW f \in Members(t[x])
                 PROVE  f \in Members(t2[x]) \cup {e}
      BY <1>3 DEF ThreadsWork
    <3>1. CASE x = b
      BY <1>3, <1>4, <3>1 DEF w
    <3>2. CASE x # b
      BY <1>3, <3>2
    <3> QED
      BY <3>1, <3>2
  <2>3. e \in ThreadsWork(t)
    BY <1>4 DEF ThreadsWork, w
  <2> QED
    BY <2>1, <2>2, <2>3 DEF WorkToCome
<1>6. ASSUME NEW f \in rest PROVE MayFollow(c, f, e)
  <2>1. CASE f \in Members(Tail(w))
    <3>1. PICK i \in 1 .. Len(Tail(w)) : f = Tail(w)[i]
      BY <2>1 DEF Members
    <3>2. f = w[i + 1] /\ i + 1 \in 1 .. Len(w) /\ 1 \in 1 .. Len(w) /\ 1 < i + 1
      BY <1>4, <3>1
    <3> QED
      BY <1>2, <1>4, <3>2
  <2>2. CASE \E x \in DOMAIN t : x # b /\ f \in Members(t[x])
    <3>1. PICK x \in DOMAIN t : x # b /\ f \in Members(t[x])
      BY <2>2
    <3>2. t[x] \in Seq(Share(c, s, r, l, ph, x))
      BY DEF Threads, InThread
    <3>3. f \in Share(c, s, r, l, ph, x)
      BY <3>1, <3>2 DEF Members
    <3>4. e \in Share(c, s, r, l, ph, b)
      BY <1>4 DEF S
    <3>5. x \in Blocks(c, BaseOf(c, s, r, l)) /\ b \in Blocks(c, BaseOf(c, s, r, l)) /\ b # x
      BY <1>1, <3>1
    <3> QED
      BY <1>1, <3>3, <3>4, <3>5, OtherBlockFollows
  <2>3. CASE f \in LaterWork(c, s, r, l, ph)
    <3>1. PICK s2, r2, l2, ph2 : /\ AtPlace(c, d, s2, r2, l2, ph2)
                                 /\ PlaceBefore(s, r, l, ph, s2, r2, l2, ph2)
                                 /\ f \in SharedAt(c, s2, r2, l2, ph2)
      BY <1>1, <2>3, LaterWorkIs
    <3>2. PICK x \in Blocks(c, BaseOf(c, s2, r2, l2)) : f \in Share(c, s2, r2, l2, ph2, x)
      BY <3>1 DEF SharedAt
    <3>3. e \in Share(c, s, r, l, ph, b) /\ b \in Blocks(c, BaseOf(c, s, r, l))
      BY <1>1, <1>4 DEF S
    <3> QED
      BY <1>1, <3>1, <3>2, <3>3, LaterPlaceFollows
  <2>4. \/ f \in LaterWork(c, s, r, l, ph)
        \/ \E x \in DOMAIN t : f \in Members(t2[x])
    BY <1>3 DEF WorkToCome, ThreadsWork
  <2>5. ASSUME NEW x \in DOMAIN t, f \in Members(t2[x]) PROVE MayFollow(c, f, e)
    <3>1. CASE x = b
      BY <1>3, <2>1, <2>5, <3>1
    <3>2. CASE x # b
      BY <1>3, <2>2, <2>5, <3>2
    <3> QED
      BY <3>1, <3>2
  <2> QED
    BY <2>3, <2>4, <2>5
<1>7. First(c, work, e)
  BY <1>5, <1>6 DEF First
<1>8. ASSUME NEW x \in DOMAIN t2 PROVE InThread(c, s, r, l, ph, x, t2[x])
  <2>1. CASE x # b
    BY <1>3, <2>1 DEF Threads
  <2>2. CASE x = b
    <3> DEFINE v == Tail(w)
    <3>1. \A i \in 1 .. Len(v) : v[i] = w[i + 1] /\ i + 1 \in 1 .. Len(w)
      BY <1>4
    <3>2. v \in Seq(S) /\ t2[x] = v
      BY <1>3, <1>4, <2>2
    <3> HIDE DEF v
    <3>3. ASSUME NEW i \in 1 .. Len(v), NEW k \in 1 .. Len(v), i < k
          PROVE  MayFollow(c, v[k], v[i])
      <4>1. v[i] = w[i + 1] /\ i + 1 \in 1 .. Len(w) /\ v[k] = w[k + 1] /\ k + 1 \in 1 .. Len(w)
        BY <3>1
      <4>2. i + 1 < k + 1
        BY <3>3
      <4> QED
        BY <1>2, <4>1, <4>2
    <3> QED
      BY <2>2, <3>2, <3>3 DEF InThread, S
  <2> QED
    BY <2>1, <2>2
<1>9. Threads(c, d, s, r, l, ph, t2)
  BY <1>1, <1>3, <1>8 DEF Threads
<1> QED
  BY <1>5, <1>6, <1>7, <1>9

(* A place starts with all of its work, in the order of WorkInOrder.       *)
LEMMA StartInOrder ==
  ASSUME NEW c, NEW d, NEW s, NEW r, NEW l, NEW ph, AtPlace(c, d, s, r, l, ph),
         WideRemainders(c), NEW t, t = Work(c, s, r, l, ph)
  PROVE  Threads(c, d, s, r, l, ph, t) /\ ThreadsWork(t) = SharedAt(c, s, r, l, ph)
<1>1. Sound(c, d) /\ r \in DOMAIN Regions(c) /\ l \in 1 .. Len(Layers(c))
  BY DEF AtPlace
<1>2. /\ DOMAIN t = Blocks(c, BaseOf(c, s, r, l))
      /\ \A b \in Blocks(c, BaseOf(c, s, r, l)) : t[b] \in Seq(Share(c, s, r, l, ph, b))
  BY <1>1, WorkIs
<1>3. ASSUME NEW b \in Blocks(c, BaseOf(c, s, r, l))
      PROVE  /\ \A i, k \in 1 .. Len(t[b]) : i < k => MayFollow(c, t[b][k], t[b][i])
             /\ Members(t[b]) = Share(c, s, r, l, ph, b)
  BY WorkInOrder
<1>4. Threads(c, d, s, r, l, ph, t)
  BY <1>2, <1>3 DEF Threads, InThread
<1>5. ThreadsWork(t) = SharedAt(c, s, r, l, ph)
  BY <1>2, <1>3 DEF ThreadsWork, SharedAt
<1> QED
  BY <1>4, <1>5

(* The order in which the loops visit their places.                        *)
NextPlace(c, s, r, l, ph, s2, r2, l2, ph2) ==
  \/ ph + 1 < NumPhases(c) /\ s2 = s /\ r2 = r /\ l2 = l /\ ph2 = ph + 1
  \/ /\ ph + 1 = NumPhases(c) /\ l < Len(Layers(c))
     /\ s2 = s /\ r2 = r /\ l2 = l + 1 /\ ph2 = 0
  \/ /\ ph + 1 = NumPhases(c) /\ l = Len(Layers(c)) /\ r < Len(Regions(c))
     /\ s2 = s /\ r2 = r + 1 /\ l2 = 1 /\ ph2 = 0
  \/ /\ ph + 1 = NumPhases(c) /\ l = Len(Layers(c)) /\ r = Len(Regions(c)) /\ s < Len(Sections(c))
     /\ s2 = s + 1 /\ r2 = 1 /\ l2 = 1 /\ ph2 = 0

LastPlace(c, s, r, l, ph) ==
  /\ ph + 1 = NumPhases(c) /\ l = Len(Layers(c)) /\ r = Len(Regions(c)) /\ s = Len(Sections(c))

PlaceRanges(c, S, R, L, P) ==
  /\ S = Len(Sections(c)) /\ R = Len(Regions(c)) /\ L = Len(Layers(c)) /\ P = NumPhases(c)
  /\ S \in Nat /\ R \in Nat /\ L \in Nat /\ P \in Nat
  /\ S > 0 /\ R > 0 /\ L > 0 /\ P > 0
  /\ DOMAIN Regions(c) = 1 .. R

LEMMA PlaceRangesAre ==
  ASSUME NEW c, NEW d, Sound(c, d)
  PROVE  \E S, R, L, P : PlaceRanges(c, S, R, L, P)
<1> DEFINE S == Len(Sections(c))
           R == Len(Regions(c))
           L == Len(Layers(c))
           P == NumPhases(c)
<1>1. S \in Nat /\ S > 0
  BY SectionsAre
<1>2. DOMAIN Regions(c) = 1 .. R /\ R \in Nat
  <2> DEFINE tiles == Tiles(ScanBox(c), StrideIn(ScanBox(c), c.region, c.rank))
  <2>1. Cardinality(tiles) \in Nat /\ Regions(c) \in [1 .. Cardinality(tiles) -> tiles]
    BY RegionsAre
  <2> HIDE DEF tiles
  <2> QED
    BY <2>1
<1>3. R > 0
  BY <1>2, SomeRegion
<1>4. L \in Nat
  BY LayersAre
<1>5. L > 0
  BY <1>4, SomeLayer
<1>6. P \in Nat /\ P > 0
  <2>1. c.rank \in [1 .. d -> Nat \ {0}] /\ d \in Nat
    BY DEF Sound, Adjusted, Sizes
  <2>2. Len(c.rank) \in Nat
    BY <2>1
  <2> QED
    BY <2>2 DEF NumPhases
<1> QED
  BY <1>1, <1>2, <1>3, <1>4, <1>5, <1>6 DEF PlaceRanges

LEMMA NothingBetween ==
  ASSUME NEW c, NEW d, NEW s, NEW r, NEW l, NEW ph, AtPlace(c, d, s, r, l, ph),
         NEW s2, NEW r2, NEW l2, NEW ph2, NextPlace(c, s, r, l, ph, s2, r2, l2, ph2)
  PROVE  /\ AtPlace(c, d, s2, r2, l2, ph2) /\ PlaceBefore(s, r, l, ph, s2, r2, l2, ph2)
         /\ \A s3, r3, l3, ph3 : AtPlace(c, d, s3, r3, l3, ph3) =>
              (PlaceBefore(s, r, l, ph, s3, r3, l3, ph3) <=>
                 \/ s3 = s2 /\ r3 = r2 /\ l3 = l2 /\ ph3 = ph2
                 \/ PlaceBefore(s2, r2, l2, ph2, s3, r3, l3, ph3))
<1>1. Sound(c, d)
  BY DEF AtPlace
<1>2. PICK S, R, L, P : PlaceRanges(c, S, R, L, P)
  BY <1>1, PlaceRangesAre
<1>3. /\ S \in Nat /\ R \in Nat /\ L \in Nat /\ P \in Nat
      /\ S > 0 /\ R > 0 /\ L > 0 /\ P > 0
  BY <1>2 DEF PlaceRanges
<1>4. s \in 1 .. S /\ r \in 1 .. R /\ l \in 1 .. L /\ ph \in 0 .. P - 1
  BY <1>2 DEF PlaceRanges, AtPlace
<1>5. \/ ph + 1 < P /\ s2 = s /\ r2 = r /\ l2 = l /\ ph2 = ph + 1
      \/ ph + 1 = P /\ l < L /\ s2 = s /\ r2 = r /\ l2 = l + 1 /\ ph2 = 0
      \/ ph + 1 = P /\ l = L /\ r < R /\ s2 = s /\ r2 = r + 1 /\ l2 = 1 /\ ph2 = 0
      \/ ph + 1 = P /\ l = L /\ r = R /\ s < S /\ s2 = s + 1 /\ r2 = 1 /\ l2 = 1 /\ ph2 = 0
  BY <1>2, Zenon DEF PlaceRanges, NextPlace
<1>6. s2 \in 1 .. S /\ r2 \in 1 .. R /\ l2 \in 1 .. L /\ ph2 \in 0 .. P - 1
  BY <1>3, <1>4, <1>5
<1>7. AtPlace(c, d, s2, r2, l2, ph2)
  BY <1>1, <1>2, <1>6 DEF AtPlace, PlaceRanges
<1>8. PlaceBefore(s, r, l, ph, s2, r2, l2, ph2)
  BY <1>3, <1>4, <1>5 DEF PlaceBefore
<1>9. ASSUME NEW s3, NEW r3, NEW l3, NEW ph3, AtPlace(c, d, s3, r3, l3, ph3)
      PROVE  PlaceBefore(s, r, l, ph, s3, r3, l3, ph3) <=>
               \/ s3 = s2 /\ r3 = r2 /\ l3 = l2 /\ ph3 = ph2
               \/ PlaceBefore(s2, r2, l2, ph2, s3, r3, l3, ph3)
  <2>1. s3 \in 1 .. S /\ r3 \in 1 .. R /\ l3 \in 1 .. L /\ ph3 \in 0 .. P - 1
    BY <1>2, <1>9 DEF PlaceRanges, AtPlace
  <2> QED
    BY <1>3, <1>4, <1>5, <2>1 DEF PlaceBefore
<1> QED
  BY <1>7, <1>8, <1>9

LEMMA MoveOn ==
  ASSUME NEW c, NEW d, NEW s, NEW r, NEW l, NEW ph, NEW t, Threads(c, d, s, r, l, ph, t),
         WideRemainders(c), \A b \in DOMAIN t : t[b] = << >>,
         NEW s2, NEW r2, NEW l2, NEW ph2, NextPlace(c, s, r, l, ph, s2, r2, l2, ph2),
         NEW t2, t2 = Work(c, s2, r2, l2, ph2)
  PROVE  /\ Threads(c, d, s2, r2, l2, ph2, t2)
         /\ WorkToCome(c, s, r, l, ph, t) = WorkToCome(c, s2, r2, l2, ph2, t2)
<1>1. AtPlace(c, d, s, r, l, ph) /\ Sound(c, d)
  BY DEF Threads, AtPlace
<1>2. /\ AtPlace(c, d, s2, r2, l2, ph2) /\ PlaceBefore(s, r, l, ph, s2, r2, l2, ph2)
      /\ \A s3, r3, l3, ph3 : AtPlace(c, d, s3, r3, l3, ph3) =>
              (PlaceBefore(s, r, l, ph, s3, r3, l3, ph3) <=>
                 \/ s3 = s2 /\ r3 = r2 /\ l3 = l2 /\ ph3 = ph2
                 \/ PlaceBefore(s2, r2, l2, ph2, s3, r3, l3, ph3))
  BY <1>1, NothingBetween
<1>3. Threads(c, d, s2, r2, l2, ph2, t2) /\ ThreadsWork(t2) = SharedAt(c, s2, r2, l2, ph2)
  BY <1>2, StartInOrder
<1>4. ThreadsWork(t) = {}
  <2>1. \A b \in DOMAIN t : Members(t[b]) = {}
    BY DEF Members
  <2> QED
    BY <2>1 DEF ThreadsWork
<1>5. ASSUME NEW f \in LaterWork(c, s, r, l, ph)
      PROVE  f \in SharedAt(c, s2, r2, l2, ph2) \cup LaterWork(c, s2, r2, l2, ph2)
  <2>1. PICK s3, r3, l3, ph3 : /\ AtPlace(c, d, s3, r3, l3, ph3)
                               /\ PlaceBefore(s, r, l, ph, s3, r3, l3, ph3)
                               /\ f \in SharedAt(c, s3, r3, l3, ph3)
    BY <1>1, LaterWorkIs
  <2>2. \/ s3 = s2 /\ r3 = r2 /\ l3 = l2 /\ ph3 = ph2
        \/ PlaceBefore(s2, r2, l2, ph2, s3, r3, l3, ph3)
    BY <1>2, <2>1, Zenon
  <2>3. CASE s3 = s2 /\ r3 = r2 /\ l3 = l2 /\ ph3 = ph2
    BY <2>1, <2>3
  <2>4. CASE PlaceBefore(s2, r2, l2, ph2, s3, r3, l3, ph3)
    <3>1. f \in LaterWork(c, s2, r2, l2, ph2)
      BY <1>1, <2>1, <2>4, LaterWorkIs
    <3> QED
      BY <3>1
  <2> QED
    BY <2>2, <2>3, <2>4
<1>6. ASSUME NEW f \in SharedAt(c, s2, r2, l2, ph2) PROVE f \in LaterWork(c, s, r, l, ph)
  BY <1>1, <1>2, <1>6, LaterWorkIs
<1>7. ASSUME NEW f \in LaterWork(c, s2, r2, l2, ph2) PROVE f \in LaterWork(c, s, r, l, ph)
  <2>1. PICK s3, r3, l3, ph3 : /\ AtPlace(c, d, s3, r3, l3, ph3)
                               /\ PlaceBefore(s2, r2, l2, ph2, s3, r3, l3, ph3)
                               /\ f \in SharedAt(c, s3, r3, l3, ph3)
    BY <1>1, LaterWorkIs
  <2>2. PlaceBefore(s, r, l, ph, s3, r3, l3, ph3)
    BY <1>2, <2>1, Zenon
  <2> QED
    BY <1>1, <2>1, <2>2, LaterWorkIs
<1>8. LaterWork(c, s, r, l, ph) = SharedAt(c, s2, r2, l2, ph2) \cup LaterWork(c, s2, r2, l2, ph2)
  BY <1>5, <1>6, <1>7
<1> QED
  BY <1>3, <1>4, <1>8 DEF WorkToCome

(* After the last place there is nothing to come.                          *)
LEMMA NothingLater ==
  ASSUME NEW c, NEW d, Sound(c, d), NEW s, NEW r, NEW l, NEW ph,
         (ph \in Int /\ LastPlace(c, s, r, l, ph)) \/ s = Len(Sections(c)) + 1
  PROVE  LaterWork(c, s, r, l, ph) = {}
<1> SUFFICES ASSUME NEW f \in LaterWork(c, s, r, l, ph) PROVE FALSE
  OBVIOUS
<1>1. PICK s3, r3, l3, ph3 : /\ AtPlace(c, d, s3, r3, l3, ph3)
                             /\ PlaceBefore(s, r, l, ph, s3, r3, l3, ph3)
  BY LaterWorkIs
<1>2. PICK S, R, L, P : PlaceRanges(c, S, R, L, P)
  BY PlaceRangesAre
<1>3. /\ S \in Nat /\ R \in Nat /\ L \in Nat /\ P \in Nat
  BY <1>2 DEF PlaceRanges
<1>4. s3 \in 1 .. S /\ r3 \in 1 .. R /\ l3 \in 1 .. L /\ ph3 \in 0 .. P - 1
  BY <1>1, <1>2 DEF PlaceRanges, AtPlace
<1>5. (ph \in Int /\ ph + 1 = P /\ l = L /\ r = R /\ s = S) \/ s = S + 1
  BY <1>2, Zenon DEF PlaceRanges, LastPlace
<1>6. PlaceBefore(s, r, l, ph, s3, r3, l3, ph3)
  BY <1>1
<1>7. CASE s = S + 1
  BY <1>3, <1>4, <1>6, <1>7 DEF PlaceBefore
<1>8. CASE ph \in Int /\ ph + 1 = P /\ l = L /\ r = R /\ s = S
  BY <1>3, <1>4, <1>6, <1>8 DEF PlaceBefore
<1> QED
  BY <1>5, <1>7, <1>8

LEMMA WorkProper ==
  ASSUME NEW c, NEW d, NEW s, NEW r, NEW l, NEW ph, NEW t, Threads(c, d, s, r, l, ph, t),
         NEW e \in WorkToCome(c, s, r, l, ph, t)
  PROVE  Proper(c, d, e)
<1>1. AtPlace(c, d, s, r, l, ph) /\ Sound(c, d)
  BY DEF Threads, AtPlace
<1>2. CASE e \in ThreadsWork(t)
  <2>1. PICK b \in DOMAIN t : e \in Members(t[b])
    BY <1>2 DEF ThreadsWork
  <2>2. t[b] \in Seq(Share(c, s, r, l, ph, b)) /\ b \in Blocks(c, BaseOf(c, s, r, l))
    BY DEF Threads, InThread
  <2>3. e \in Share(c, s, r, l, ph, b)
    BY <2>1, <2>2 DEF Members
  <2> QED
    BY <1>1, <2>2, <2>3, ShareInside DEF Proper
<1>3. CASE e \in LaterWork(c, s, r, l, ph)
  <2>1. PICK s2, r2, l2, ph2 : /\ AtPlace(c, d, s2, r2, l2, ph2)
                               /\ e \in SharedAt(c, s2, r2, l2, ph2)
    BY <1>1, <1>3, LaterWorkIs
  <2> QED
    BY <2>1, SharedProper
<1> QED
  BY <1>2, <1>3 DEF WorkToCome

LEMMA FirstPlace ==
  ASSUME NEW c, NEW d, Sound(c, d)
  PROVE  /\ AtPlace(c, d, 1, 1, 1, 0)
         /\ \A s, r, l, ph : AtPlace(c, d, s, r, l, ph) =>
              \/ s = 1 /\ r = 1 /\ l = 1 /\ ph = 0
              \/ PlaceBefore(1, 1, 1, 0, s, r, l, ph)
<1>1. PICK S, R, L, P : PlaceRanges(c, S, R, L, P)
  BY PlaceRangesAre
<1>2. /\ S \in Nat /\ R \in Nat /\ L \in Nat /\ P \in Nat
      /\ S > 0 /\ R > 0 /\ L > 0 /\ P > 0
  BY <1>1 DEF PlaceRanges
<1>3. 1 \in 1 .. S /\ 1 \in 1 .. R /\ 1 \in 1 .. L /\ 0 \in 0 .. P - 1
  BY <1>2
<1>4. AtPlace(c, d, 1, 1, 1, 0)
  BY <1>1, <1>3 DEF AtPlace, PlaceRanges
<1>5. ASSUME NEW s, NEW r, NEW l, NEW ph, AtPlace(c, d, s, r, l, ph)
      PROVE  \/ s = 1 /\ r = 1 /\ l = 1 /\ ph = 0
             \/ PlaceBefore(1, 1, 1, 0, s, r, l, ph)
  <2>1. s \in 1 .. S /\ r \in 1 .. R /\ l \in 1 .. L /\ ph \in 0 .. P - 1
    BY <1>1, <1>5 DEF PlaceRanges, AtPlace
  <2> QED
    BY <1>2, <2>1 DEF PlaceBefore
<1> QED
  BY <1>4, <1>5

(* At the start nothing is missed, for every level of every point is taken *)
(* somewhere, and nothing has been made.                                   *)
LEMMA StartsOnTime ==
  ASSUME NEW c, NEW d, Sound(c, d), WideRemainders(c), NEW t, t = Work(c, 1, 1, 1, 0),
         NEW lv, lv = [p \in BoxPoints(Stored(c)) |-> 0]
  PROVE  Threads(c, d, 1, 1, 1, 0, t) /\ OnTime(c, d, WorkToCome(c, 1, 1, 1, 0, t), lv)
<1>1. AtPlace(c, d, 1, 1, 1, 0)
  BY FirstPlace
<1>2. Threads(c, d, 1, 1, 1, 0, t) /\ ThreadsWork(t) = SharedAt(c, 1, 1, 1, 0)
  BY <1>1, StartInOrder
<1> DEFINE work == WorkToCome(c, 1, 1, 1, 0, t)
<1>3. \A e \in work : Proper(c, d, e)
  BY <1>2, WorkProper
<1>4. NothingMissed(c, d, work, lv)
  <2> SUFFICES ASSUME NEW p \in DOMAIN lv, NEW n \in 0 .. NumLevels(c) - 1, Inside(c, d, n, p)
               PROVE  \E f \in work : f.level = n /\ Takes(f, d, p)
    BY DEF NothingMissed
  <2>1. PICK s \in 1 .. Len(Sections(c)), r \in DOMAIN Regions(c), l \in 1 .. Len(Layers(c)),
             ph \in 0 .. NumPhases(c) - 1 :
           \E b \in Blocks(c, BaseOf(c, s, r, l)) : \E e \in Share(c, s, r, l, ph, b) :
              e.level = n /\ Takes(e, d, p)
    BY EveryLevelTaken
  <2>2. PICK b \in Blocks(c, BaseOf(c, s, r, l)) : \E e \in Share(c, s, r, l, ph, b) :
              e.level = n /\ Takes(e, d, p)
    BY <2>1
  <2>3. PICK e \in Share(c, s, r, l, ph, b) : e.level = n /\ Takes(e, d, p)
    BY <2>2
  <2>4. AtPlace(c, d, s, r, l, ph)
    BY DEF AtPlace
  <2>5. e \in SharedAt(c, s, r, l, ph)
    BY DEF SharedAt
  <2>6. CASE s = 1 /\ r = 1 /\ l = 1 /\ ph = 0
    <3>1. e \in ThreadsWork(t)
      BY <1>2, <2>5, <2>6
    <3> QED
      BY <2>3, <3>1 DEF WorkToCome
  <2>7. CASE PlaceBefore(1, 1, 1, 0, s, r, l, ph)
    <3>1. e \in LaterWork(c, 1, 1, 1, 0)
      BY <2>4, <2>5, <2>7, LaterWorkIs
    <3> QED
      BY <2>3, <3>1 DEF WorkToCome
  <2>8. \/ s = 1 /\ r = 1 /\ l = 1 /\ ph = 0
        \/ PlaceBefore(1, 1, 1, 0, s, r, l, ph)
    BY <2>4, FirstPlace, Zenon
  <2> QED
    BY <2>6, <2>7, <2>8
<1> HIDE DEF work
<1>5. NothingEarly(c, d, work, lv)
  BY DEF NothingEarly
<1>6. lv \in [BoxPoints(Stored(c)) -> Nat]
  OBVIOUS
<1>7. OnTime(c, d, work, lv)
  BY <1>3, <1>4, <1>5, <1>6 DEF OnTime
<1> QED
  BY <1>2, <1>7 DEF work

-----------------------------------------------------------------------------
(* The invariant for the order of evaluation, where the last blocks are    *)
(* wide enough.                                                            *)
InOrderAt(c, d, s, r, l, ph, t, lv) ==
  /\ OnTime(c, d, WorkToCome(c, s, r, l, ph, t), lv)
  /\ \/ Threads(c, d, s, r, l, ph, t)
     \/ s = Len(Sections(c)) + 1 /\ \A b \in DOMAIN t : t[b] = << >>

InTurnInv ==
  WideRemainders(ctx) =>
    InOrderAt(ctx, Len(ctx.rank), section, region, layer, phase, todo, level)

LEMMA EvaluationMovesOn ==
  ASSUME NEW c, NEW d, Sound(c, d), WideRemainders(c), NEW s, NEW r, NEW l, NEW ph, NEW t, NEW lv,
         InOrderAt(c, d, s, r, l, ph, t, lv), NEW b \in DOMAIN t, t[b] # << >>,
         NEW t2, t2 = OneMade(t, b),
         NEW lv2, lv2 = [p \in DOMAIN lv |-> IF InBox(p, Head(t[b]).box)
                                               THEN Head(t[b]).level + 1 ELSE lv[p]]
  PROVE  InOrderAt(c, d, s, r, l, ph, t2, lv2)
<1> DEFINE e == Head(t[b])
           work == WorkToCome(c, s, r, l, ph, t)
           rest == WorkToCome(c, s, r, l, ph, t2)
<1>1. Threads(c, d, s, r, l, ph, t) /\ OnTime(c, d, work, lv)
  BY DEF InOrderAt
<1>3. lv2 = [p \in DOMAIN lv |-> IF InBox(p, e.box) THEN e.level + 1 ELSE lv[p]]
  OBVIOUS
<1>8. e = Head(t[b]) /\ work = WorkToCome(c, s, r, l, ph, t) /\ rest = WorkToCome(c, s, r, l, ph, t2)
  OBVIOUS
<1> HIDE DEF e, work, rest
<1>2. /\ First(c, work, e) /\ rest \subseteq work /\ work \subseteq rest \cup {e}
      /\ \A f \in rest : MayFollow(c, f, e)
      /\ Threads(c, d, s, r, l, ph, t2)
  BY <1>1, <1>8, HeadIsFirst
<1>4. e.box \in [1 .. d -> Spans]
  BY <1>1, <1>2 DEF First, OnTime, Proper
<1>5. \A p : InBox(p, e.box) <=> Takes(e, d, p)
  <2>1. DOMAIN e.box = 1 .. d
    BY <1>4
  <2> QED
    BY <2>1 DEF InBox, Takes, Holds
<1>6. lv2 = [p \in DOMAIN lv |-> IF Takes(e, d, p) THEN e.level + 1 ELSE lv[p]]
  BY <1>3, <1>5
<1>7. OnTime(c, d, rest, lv2)
  BY <1>1, <1>2, <1>6, FirstMade
<1> QED
  BY <1>2, <1>7, <1>8 DEF InOrderAt

LEMMA PlaceMovesOn ==
  ASSUME NEW c, NEW d, WideRemainders(c), NEW s, NEW r, NEW l, NEW ph, NEW t, NEW lv,
         InOrderAt(c, d, s, r, l, ph, t, lv), \A b \in DOMAIN t : t[b] = << >>,
         Threads(c, d, s, r, l, ph, t),
         NEW s2, NEW r2, NEW l2, NEW ph2, NextPlace(c, s, r, l, ph, s2, r2, l2, ph2),
         NEW t2, t2 = Work(c, s2, r2, l2, ph2)
  PROVE  InOrderAt(c, d, s2, r2, l2, ph2, t2, lv)
<1>1. /\ Threads(c, d, s2, r2, l2, ph2, t2)
      /\ WorkToCome(c, s, r, l, ph, t) = WorkToCome(c, s2, r2, l2, ph2, t2)
  BY MoveOn
<1>2. OnTime(c, d, WorkToCome(c, s, r, l, ph, t), lv)
  BY DEF InOrderAt
<1>3. OnTime(c, d, WorkToCome(c, s2, r2, l2, ph2, t2), lv)
  BY <1>1, <1>2
<1> QED
  BY <1>1, <1>3 DEF InOrderAt

LEMMA SynchedWork ==
  ASSUME NEW c, NEW s, NEW r, NEW l, NEW ph, NEW t, \A b \in DOMAIN t : t[b] = << >>
  PROVE  WorkToCome(c, s, r, l, ph, t) = LaterWork(c, s, r, l, ph)
<1>1. \A b \in DOMAIN t : Members(t[b]) = {}
  BY DEF Members
<1>2. ThreadsWork(t) = {}
  BY <1>1 DEF ThreadsWork
<1> QED
  BY <1>2 DEF WorkToCome

LEMMA AllSectionsDone ==
  ASSUME NEW c, NEW d, Sound(c, d), NEW s, NEW r, NEW l, NEW ph, NEW t, NEW lv,
         InOrderAt(c, d, s, r, l, ph, t, lv), \A b \in DOMAIN t : t[b] = << >>,
         ph \in Int, LastPlace(c, s, r, l, ph)
  PROVE  InOrderAt(c, d, s + 1, r, l, ph, t, lv)
<1>1. s + 1 = Len(Sections(c)) + 1
  BY DEF LastPlace
<1>2. LaterWork(c, s, r, l, ph) = {}
  BY NothingLater
<1>3. LaterWork(c, s + 1, r, l, ph) = {}
  BY <1>1, NothingLater
<1>4. WorkToCome(c, s, r, l, ph, t) = {}
  BY <1>2, SynchedWork
<1>5. WorkToCome(c, s + 1, r, l, ph, t) = {}
  BY <1>3, SynchedWork
<1>6. OnTime(c, d, {}, lv)
  BY <1>4 DEF InOrderAt
<1> QED
  BY <1>1, <1>5, <1>6 DEF InOrderAt

SoundHere == ctx \in {Context(s) : s \in Settings} /\ Sound(ctx, Len(ctx.rank))

LEMMA InvSound ==
  ASSUME TilingInv
  PROVE  SoundHere /\ Len(ctx.rank) \in Nat
<1>1. ctx \in {Context(s) : s \in Settings}
  BY DEF TilingInv, InLoops
<1> QED
  BY <1>1, SoundContext DEF SoundHere

LEMMA InitInTurn ==
  ASSUME Init
  PROVE  InTurnInv
<1>1. /\ ctx \in {Context(s) : s \in Settings}
      /\ section = 1 /\ region = 1 /\ layer = 1 /\ phase = 0 /\ todo = Work(ctx, 1, 1, 1, 0)
      /\ level = [p \in BoxPoints(Stored(ctx)) |-> 0]
  BY DEF Init
<1> DEFINE d == Len(ctx.rank)
<1>2. Sound(ctx, d)
  BY <1>1, SoundContext
<1> HIDE DEF d
<1>3. ASSUME WideRemainders(ctx)
      PROVE  InOrderAt(ctx, d, 1, 1, 1, 0, todo, level)
  <2>1. Threads(ctx, d, 1, 1, 1, 0, todo) /\ OnTime(ctx, d, WorkToCome(ctx, 1, 1, 1, 0, todo), level)
    BY <1>1, <1>2, <1>3, StartsOnTime
  <2> QED
    BY <2>1 DEF InOrderAt
<1> QED
  BY <1>1, <1>3 DEF InTurnInv, d

LEMMA EvaluationKeepsTurn ==
  ASSUME TilingInv, InTurnInv, WideRemainders(ctx), NEW b \in DOMAIN todo, CalcMiniBlock(b)
  PROVE  InOrderAt(ctx, Len(ctx.rank), section, region, layer, phase, todo', level')
<1>1. todo[b] # << >> /\ todo' = OneMade(todo, b)
  BY DEF CalcMiniBlock, OneMade
<1>2. level' = [p \in DOMAIN level |-> IF InBox(p, Head(todo[b]).box)
                                         THEN Head(todo[b]).level + 1 ELSE level[p]]
  BY DEF CalcMiniBlock
<1> DEFINE d == Len(ctx.rank)
<1>3. Sound(ctx, d) /\ InOrderAt(ctx, d, section, region, layer, phase, todo, level)
  BY InvSound DEF InTurnInv, SoundHere
<1> HIDE DEF d
<1>4. InOrderAt(ctx, d, section, region, layer, phase, todo', level')
  BY <1>1, <1>2, <1>3, EvaluationMovesOn
<1> QED
  BY <1>4 DEF d

LEMMA StartKeepsTurn ==
  ASSUME TilingInv, InTurnInv, WideRemainders(ctx), ThreadsSynced, ~Done,
         NEW s, NEW r, NEW l, NEW ph, Start(s, r, l, ph),
         NextPlace(ctx, section, region, layer, phase, s, r, l, ph)
  PROVE  InOrderAt(ctx, Len(ctx.rank), s, r, l, ph, todo', level')
<1> DEFINE d == Len(ctx.rank)
<1>1. Sound(ctx, d) /\ InOrderAt(ctx, d, section, region, layer, phase, todo, level)
  BY InvSound DEF InTurnInv, SoundHere
<1>2. todo' = Work(ctx, s, r, l, ph) /\ level' = level
  BY DEF Start
<1> HIDE DEF d
<1>3. section # Len(Sections(ctx)) + 1
  <2>1. Len(Sections(ctx)) \in Nat
    BY <1>1, SectionsAre
  <2> QED
    BY <2>1 DEF Done
<1>4. Threads(ctx, d, section, region, layer, phase, todo)
  BY <1>1, <1>3 DEF InOrderAt
<1>5. \A b \in DOMAIN todo : todo[b] = << >>
  BY DEF ThreadsSynced
<1>6. InOrderAt(ctx, d, s, r, l, ph, todo', level)
  BY <1>1, <1>2, <1>4, <1>5, PlaceMovesOn
<1> QED
  BY <1>2, <1>6 DEF d

LEMMA NextInTurn ==
  ASSUME TilingInv, InTurnInv, [Next]_vars
  PROVE  InTurnInv'
<1> SUFFICES ASSUME WideRemainders(ctx') PROVE InOrderAt(ctx, Len(ctx.rank), section, region, layer, phase, todo, level)'
  BY DEF InTurnInv
<1>0. ctx' = ctx
  BY DEF Next, vars, CalcMiniBlock, NextPhase, NextLayer, NextRegion, NextSection, Start, Returned
<1> DEFINE d == Len(ctx.rank)
<1>1. WideRemainders(ctx)
  BY <1>0
<1>2. /\ Sound(ctx, d) /\ ctx \in {Context(s) : s \in Settings}
      /\ InOrderAt(ctx, d, section, region, layer, phase, todo, level)
  BY <1>1, InvSound DEF InTurnInv, SoundHere
<1>3. /\ region \in 1 .. Len(Regions(ctx)) /\ layer \in 1 .. Len(Layers(ctx))
      /\ phase \in 0 .. NumPhases(ctx) - 1
      /\ Len(Regions(ctx)) \in Nat /\ Len(Layers(ctx)) \in Nat /\ NumPhases(ctx) \in Nat
  BY <1>2, FirstLoops, FirstPhase DEF TilingInv, InLoops
<1>4. ASSUME NEW b \in DOMAIN todo, CalcMiniBlock(b)
      PROVE  InOrderAt(ctx, d, section, region, layer, phase, todo, level)'
  <2>1. InOrderAt(ctx, d, section, region, layer, phase, todo', level')
    BY <1>1, <1>4, EvaluationKeepsTurn
  <2>2. section' = section /\ region' = region /\ layer' = layer /\ phase' = phase
    BY <1>4 DEF CalcMiniBlock
  <2> QED
    BY <1>0, <2>1, <2>2
<1>5. ASSUME ~Done, ThreadsSynced, NEW s, NEW r, NEW l, NEW ph, Start(s, r, l, ph),
             NextPlace(ctx, section, region, layer, phase, s, r, l, ph)
      PROVE  InOrderAt(ctx, d, section, region, layer, phase, todo, level)'
  <2>1. InOrderAt(ctx, d, s, r, l, ph, todo', level')
    BY <1>1, <1>5, StartKeepsTurn
  <2>2. section' = s /\ region' = r /\ layer' = l /\ phase' = ph
    BY <1>5 DEF Start
  <2> QED
    BY <1>0, <2>1, <2>2
<1>6. CASE NextPhase
  <2>1. ~Done /\ ThreadsSynced /\ Start(section, region, layer, phase + 1)
    BY <1>6 DEF NextPhase
  <2>2. phase + 1 < NumPhases(ctx)
    BY <1>3, <1>6 DEF NextPhase, LastPhase
  <2>3. NextPlace(ctx, section, region, layer, phase, section, region, layer, phase + 1)
    BY <2>2 DEF NextPlace
  <2> QED
    BY <1>5, <2>1, <2>3
<1>7. CASE NextLayer
  <2>1. ~Done /\ ThreadsSynced /\ Start(section, region, layer + 1, 0)
    BY <1>7 DEF NextLayer
  <2>2. phase + 1 = NumPhases(ctx) /\ layer < Len(Layers(ctx))
    BY <1>3, <1>7 DEF NextLayer, LastPhase, LastLayer
  <2>3. NextPlace(ctx, section, region, layer, phase, section, region, layer + 1, 0)
    BY <2>2 DEF NextPlace
  <2> QED
    BY <1>5, <2>1, <2>3
<1>8. CASE NextRegion
  <2>1. ~Done /\ ThreadsSynced /\ Start(section, region + 1, 1, 0)
    BY <1>8 DEF NextRegion
  <2>2. /\ phase + 1 = NumPhases(ctx) /\ layer = Len(Layers(ctx))
        /\ region < Len(Regions(ctx))
    BY <1>3, <1>8 DEF NextRegion, LastPhase, LastLayer, LastRegion
  <2>3. NextPlace(ctx, section, region, layer, phase, section, region + 1, 1, 0)
    BY <2>2 DEF NextPlace
  <2> QED
    BY <1>5, <2>1, <2>3
<1>9. CASE NextSection
  <2>0. ~Done /\ ThreadsSynced
    BY <1>9 DEF NextSection
  <2>1. /\ phase + 1 = NumPhases(ctx) /\ layer = Len(Layers(ctx))
        /\ region = Len(Regions(ctx))
    BY <1>9 DEF NextSection, LastPhase, LastLayer, LastRegion
  <2>2. CASE section < Len(Sections(ctx))
    <3>1. Start(section + 1, 1, 1, 0)
      BY <1>9, <2>2 DEF NextSection
    <3>2. NextPlace(ctx, section, region, layer, phase, section + 1, 1, 1, 0)
      BY <2>1, <2>2 DEF NextPlace
    <3> QED
      BY <1>5, <2>0, <3>1, <3>2
  <2>3. CASE ~(section < Len(Sections(ctx)))
    <3>1. /\ section' = section + 1 /\ region' = region /\ layer' = layer /\ phase' = phase
          /\ todo' = todo /\ level' = level
      BY <1>9, <2>3 DEF NextSection
    <3> HIDE DEF d
    <3>2. Len(Sections(ctx)) \in Nat
      BY <1>2, SectionsAre
    <3>3. section \in 1 .. Len(Sections(ctx))
      <4>1. section # Len(Sections(ctx)) + 1
        BY <2>0, <3>2 DEF Done
      <4>2. Threads(ctx, d, section, region, layer, phase, todo)
        BY <1>2, <4>1 DEF InOrderAt
      <4> QED
        BY <4>2 DEF Threads, AtPlace
    <3>4. section = Len(Sections(ctx))
      BY <2>3, <3>2, <3>3
    <3>5. LastPlace(ctx, section, region, layer, phase) /\ phase \in Int
      BY <1>3, <2>1, <3>4 DEF LastPlace
    <3>6. \A b \in DOMAIN todo : todo[b] = << >>
      BY <2>0 DEF ThreadsSynced
    <3>7. InOrderAt(ctx, d, section + 1, region, layer, phase, todo, level)
      BY <1>2, <3>5, <3>6, AllSectionsDone
    <3> QED
      BY <1>0, <3>1, <3>7 DEF d
  <2> QED
    BY <2>2, <2>3
<1>10. CASE UNCHANGED vars
  <2>1. /\ section' = section /\ region' = region /\ layer' = layer /\ phase' = phase
        /\ todo' = todo /\ level' = level
    BY <1>10 DEF vars
  <2> QED
    BY <1>0, <1>2, <2>1
<1>11. CASE Returned
  BY <1>10, <1>11 DEF Returned
<1> QED
  BY <1>4, <1>6, <1>7, <1>8, <1>9, <1>10, <1>11 DEF Next

(* The work to come can always be made in an order that respects every     *)
(* point, whatever thread goes first.                                      *)
THEOREM WorkStaysInTurn == Spec => []InTurnInv
<1>1. Init => InTurnInv
  BY InitInTurn
<1>2. TilingInv /\ InTurnInv /\ [Next]_vars => InTurnInv'
  BY NextInTurn
<1> QED
  BY <1>1, <1>2, TilingInvariant, PTL DEF Spec

-----------------------------------------------------------------------------
(* What a thread is about to evaluate is the first of the work to come.    *)
LEMMA HeadInTurn ==
  ASSUME TilingInv, InTurnInv, WideRemainders(ctx), NEW b \in DOMAIN todo, todo[b] # << >>,
         NEW e, e = Head(todo[b])
  PROVE  \E work : /\ OnTime(ctx, Len(ctx.rank), work, level) /\ First(ctx, work, e)
                   /\ \A p : InBox(p, e.box) <=> Takes(e, Len(ctx.rank), p)
<1> DEFINE d == Len(ctx.rank)
<1>1. Sound(ctx, d) /\ InOrderAt(ctx, d, section, region, layer, phase, todo, level)
  BY InvSound DEF InTurnInv, SoundHere
<1> HIDE DEF d
<1> DEFINE work == WorkToCome(ctx, section, region, layer, phase, todo)
           t2 == OneMade(todo, b)
           rest == WorkToCome(ctx, section, region, layer, phase, t2)
<1>2. OnTime(ctx, d, work, level) /\ Threads(ctx, d, section, region, layer, phase, todo)
  BY <1>1 DEF InOrderAt
<1>3. /\ t2 = OneMade(todo, b) /\ work = WorkToCome(ctx, section, region, layer, phase, todo)
      /\ rest = WorkToCome(ctx, section, region, layer, phase, t2)
  OBVIOUS
<1> HIDE DEF work, t2, rest
<1>4. First(ctx, work, e)
  BY <1>2, <1>3, HeadIsFirst
<1>5. e.box \in [1 .. d -> Spans]
  BY <1>2, <1>4 DEF First, OnTime, Proper
<1>6. \A p : InBox(p, e.box) <=> Takes(e, d, p)
  <2>1. DOMAIN e.box = 1 .. d
    BY <1>5
  <2> QED
    BY <2>1 DEF InBox, Takes, Holds
<1> QED
  BY <1>2, <1>4, <1>6 DEF d

LEMMA InvInTurn ==
  ASSUME TilingInv, InTurnInv, WideRemainders(ctx)
  PROVE  EvaluatedInTurn
<1> SUFFICES ASSUME NEW b \in DOMAIN todo, todo[b] # << >>, NEW p \in DOMAIN level,
                    InBox(p, Head(todo[b]).box)
             PROVE  level[p] = Head(todo[b]).level
  BY DEF EvaluatedInTurn
<1> DEFINE d == Len(ctx.rank)
           e == Head(todo[b])
<1>1. Sound(ctx, d)
  BY InvSound DEF SoundHere
<1>2. e = Head(todo[b])
  OBVIOUS
<1>3. InBox(p, e.box)
  OBVIOUS
<1> HIDE DEF d, e
<1>4. PICK work : OnTime(ctx, d, work, level) /\ First(ctx, work, e) /\ Takes(e, d, p)
  BY <1>2, <1>3, HeadInTurn DEF d
<1>5. level[p] = e.level
  BY <1>1, <1>4, FirstInTurn
<1> QED
  BY <1>5 DEF e

(* Every point gets its levels in turn, whatever order the threads take    *)
(* their boxes in, if no remainder block is too narrow for its bridge.     *)
THEOREM PointsEvaluatedInTurn == Spec => [](WideRemainders(ctx) => EvaluatedInTurn)
<1>1. TilingInv /\ InTurnInv => (WideRemainders(ctx) => EvaluatedInTurn)
  BY InvInTurn
<1> QED
  BY <1>1, TilingInvariant, WorkStaysInTurn, PTL

(* The points of the rank's domain.                                        *)
LEMMA DomainPoints ==
  ASSUME NEW c, NEW d, Sound(c, d),
         NEW p \in BoxPoints([j \in Dims(c) |-> [lo |-> 0, hi |-> c.rank[j]]])
  PROVE  p \in [1 .. d -> Int] /\ \A j \in 1 .. d : 0 <= p[j] /\ p[j] < c.rank[j]
<1> DEFINE box == [j \in Dims(c) |-> [lo |-> 0, hi |-> c.rank[j]]]
<1>1. Dims(c) = 1 .. d
  BY DimsAre DEF Sound
<1>2. c.rank \in [1 .. d -> Nat \ {0}]
  BY DEF Sound, Adjusted, Sizes
<1>3. ASSUME NEW j \in 1 .. d
      PROVE  box[j] \in Spans /\ box[j].lo = 0 /\ box[j].hi = c.rank[j]
  <2>1. c.rank[j] \in Nat \ {0}
    BY <1>2
  <2>2. box[j] = [lo |-> 0, hi |-> c.rank[j]]
    BY <1>1
  <2> HIDE DEF box
  <2> QED
    BY <2>1, <2>2 DEF Spans
<1>4. box \in [1 .. d -> Spans]
  BY <1>1, <1>3
<1>5. p \in BoxPoints(box)
  OBVIOUS
<1> HIDE DEF box
<1>6. p \in [1 .. d -> Int] /\ \A j \in 1 .. d : Holds(box[j], p[j])
  BY <1>4, <1>5, PointsAre
<1> QED
  BY <1>3, <1>6 DEF Holds

(* A point of the rank that nothing to come takes has had all its levels.  *)
LEMMA NoMoreToCome ==
  ASSUME TilingInv, InTurnInv, WideRemainders(ctx), NEW d, d = Len(ctx.rank),
         NEW p \in BoxPoints([j \in Dims(ctx) |-> [lo |-> 0, hi |-> ctx.rank[j]]]),
         NEW work, work = WorkToCome(ctx, section, region, layer, phase, todo),
         \A f \in work : ~Takes(f, d, p)
  PROVE  level[p] = NumLevels(ctx)
<1>1. Sound(ctx, d) /\ InOrderAt(ctx, d, section, region, layer, phase, todo, level)
  BY InvSound DEF InTurnInv, SoundHere
<1>2. OnTime(ctx, d, work, level)
  BY <1>1 DEF InOrderAt
<1>3. p \in [1 .. d -> Int] /\ \A i \in 1 .. d : 0 <= p[i] /\ p[i] < ctx.rank[i]
  BY <1>1, DomainPoints
<1> QED
  BY <1>1, <1>2, <1>3, AllLevels

(* When all sections are done, nothing is to come.                         *)
LEMMA InvRankDone ==
  ASSUME TilingInv, InTurnInv, WideRemainders(ctx)
  PROVE  WholeRankDone
<1> SUFFICES ASSUME Done,
                    NEW p \in BoxPoints([j \in Dims(ctx) |-> [lo |-> 0, hi |-> ctx.rank[j]]])
             PROVE  level[p] = NumLevels(ctx)
  BY DEF WholeRankDone
<1> DEFINE d == Len(ctx.rank)
<1>1. Sound(ctx, d) /\ InOrderAt(ctx, d, section, region, layer, phase, todo, level)
  BY InvSound DEF InTurnInv, SoundHere
<1> HIDE DEF d
<1> DEFINE work == WorkToCome(ctx, section, region, layer, phase, todo)
<1>3. section = Len(Sections(ctx)) + 1 /\ \A b \in DOMAIN todo : todo[b] = << >>
  <2>1. ~Threads(ctx, d, section, region, layer, phase, todo)
    <3>1. Len(Sections(ctx)) \in Nat
      BY <1>1, SectionsAre
    <3>2. ~(section \in 1 .. Len(Sections(ctx)))
      BY <3>1 DEF Done
    <3> QED
      BY <3>2 DEF Threads, AtPlace
  <2> QED
    BY <1>1, <2>1 DEF InOrderAt
<1>4. work = {}
  <2>1. work = LaterWork(ctx, section, region, layer, phase)
    BY <1>3, SynchedWork
  <2>2. LaterWork(ctx, section, region, layer, phase) = {}
    BY <1>1, <1>3, NothingLater
  <2> QED
    BY <2>1, <2>2
<1>5. work = WorkToCome(ctx, section, region, layer, phase, todo) /\ d = Len(ctx.rank)
  BY DEF d
<1> HIDE DEF work
<1> QED
  BY <1>4, <1>5, NoMoreToCome

(* At the end of the stride every point of the rank has had all its        *)
(* levels, if no remainder block is too narrow for its bridge.             *)
THEOREM RankIsCompleted == Spec => [](WideRemainders(ctx) => WholeRankDone)
<1>1. TilingInv /\ InTurnInv => (WideRemainders(ctx) => WholeRankDone)
  BY InvRankDone
<1> QED
  BY <1>1, TilingInvariant, WorkStaysInTurn, PTL

-----------------------------------------------------------------------------
(* The interior is the last section, and only with overlap.                *)
LEMMA InteriorLast ==
  ASSUME NEW c, NEW d, Sound(c, d), NEW s \in 1 .. Len(Sections(c)),
         Sections(c)[s].part = "interior"
  PROVE  c.overlap /\ \A s2 \in 1 .. Len(Sections(c)) : ~(s < s2)
<1>1. \A x \in Exterior(c) : x.part # "interior" /\ x.part # "whole"
  BY DEF Exterior
<1> DEFINE n == Len(Sections(c))
<1>2. n \in Nat /\ n > 0
  BY SectionsAre
<1>3. \A t \in 1 .. n : \A x \in 1 .. t - 1 : Sections(c)[x] \in Exterior(c)
  BY SectionsAre DEF SectionBefore
<1>4. ~c.overlap => Sections(c)[1].part = "whole"
  BY SectionsAre
<1> HIDE DEF n
<1>5. ASSUME NEW s2 \in 1 .. n, s < s2 PROVE FALSE
  <2>1. s \in 1 .. s2 - 1
    BY <1>2, <1>5 DEF n
  <2> QED
    BY <1>1, <1>3, <2>1
<1>6. c.overlap
  <2> SUFFICES ASSUME ~c.overlap PROVE FALSE
    OBVIOUS
  <2>1. s # 1 /\ Sections(c)[1].part = "whole"
    BY <1>4
  <2>2. 1 \in 1 .. s - 1 /\ s \in 1 .. n
    BY <1>2, <2>1 DEF n
  <2>3. Sections(c)[1] \in Exterior(c)
    BY <1>3, <2>2
  <2> QED
    BY <1>1, <2>1, <2>3
<1> QED
  BY <1>5, <1>6 DEF n

(* From then on only points of the interior are evaluated.                 *)
LEMMA InteriorTakes ==
  ASSUME NEW c, NEW d, NEW s, NEW r, NEW l, NEW ph, NEW t, Threads(c, d, s, r, l, ph, t),
         Sections(c)[s].part = "interior", NEW f \in WorkToCome(c, s, r, l, ph, t),
         NEW p \in [1 .. d -> Int], Takes(f, d, p), NEW j \in 1 .. d
  PROVE  f.level \in Levels(c) /\ Holds(InteriorSpan(c, f.level, j), p[j])
<1>1. AtPlace(c, d, s, r, l, ph) /\ Sound(c, d) /\ s \in 1 .. Len(Sections(c))
  BY DEF Threads, AtPlace
<1>2. ASSUME NEW r2, NEW l2, NEW ph2, AtPlace(c, d, s, r2, l2, ph2),
             NEW b \in Blocks(c, BaseOf(c, s, r2, l2)), f \in Share(c, s, r2, l2, ph2, b)
      PROVE  f.level \in Levels(c) /\ Holds(InteriorSpan(c, f.level, j), p[j])
  <2>1. Placed(f, c, d, Sections(c)[s], Regions(c)[r2])
    BY <1>2, ShareIs
  <2>2. Holds(f.box[j], p[j]) /\ p[j] \in Int
    BY DEF Takes
  <2>3. f.level \in Levels(c) /\ InPart(c, f.level, Sections(c)[s], j, p[j])
    BY <2>1, <2>2 DEF Placed
  <2> QED
    BY <2>3 DEF InPart
<1>3. CASE f \in ThreadsWork(t)
  <2>1. PICK b \in DOMAIN t : f \in Members(t[b])
    BY <1>3 DEF ThreadsWork
  <2>2. t[b] \in Seq(Share(c, s, r, l, ph, b)) /\ b \in Blocks(c, BaseOf(c, s, r, l))
    BY DEF Threads, InThread
  <2>3. f \in Share(c, s, r, l, ph, b)
    BY <2>1, <2>2 DEF Members
  <2> QED
    BY <1>1, <1>2, <2>2, <2>3
<1>4. CASE f \in LaterWork(c, s, r, l, ph)
  <2>1. PICK s2, r2, l2, ph2 : /\ AtPlace(c, d, s2, r2, l2, ph2)
                               /\ PlaceBefore(s, r, l, ph, s2, r2, l2, ph2)
                               /\ f \in SharedAt(c, s2, r2, l2, ph2)
    BY <1>1, <1>4, LaterWorkIs
  <2>2. s2 \in 1 .. Len(Sections(c))
    BY <2>1 DEF AtPlace
  <2>3. ~(s < s2)
    BY <1>1, <2>2, InteriorLast
  <2>4. s2 = s
    BY <2>1, <2>3 DEF PlaceBefore
  <2>5. PICK b \in Blocks(c, BaseOf(c, s, r2, l2)) : f \in Share(c, s, r2, l2, ph2, b)
    BY <2>1, <2>4 DEF SharedAt
  <2> QED
    BY <1>2, <2>1, <2>4, <2>5
<1> QED
  BY <1>3, <1>4 DEF WorkToCome

(* The slabs that are packed for the neighbours are beyond the interior at *)
(* every level.                                                            *)
LEMMA SlabOutside ==
  ASSUME NEW c, NEW d, Sound(c, d), c.overlap, NEW n \in Levels(c), NEW j \in 1 .. d,
         NEW x \in Int,
         \/ c.left[j] /\ x < c.max_halo[j] + c.wf_shift_pts[j]
         \/ c.right[j] /\ x >= c.rank[j] - (c.max_halo[j] + c.wf_shift_pts[j])
  PROVE  ~Holds(InteriorSpan(c, n, j), x)
<1> DEFINE lo == c.mpi_interior[j].lo
           hi == c.mpi_interior[j].hi
           below == IF lo > c.ext_bb[j].lo THEN Grown(c, n, j) ELSE 0
           above == IF hi < c.ext_bb[j].hi THEN Grown(c, n, j) ELSE 0
           width == c.max_halo[j] + c.wf_shift_pts[j]
           int == InteriorSpan(c, n, j)
<1>1. /\ lo \in Int /\ hi \in Int /\ Grown(c, n, j) \in Nat
      /\ int.lo = lo + below /\ int.hi = hi - above
  BY InteriorIs
<1>2. below \in Nat /\ above \in Nat
  BY <1>1
<1>3. Edges(c, j)
  BY DEF Sound, Bounded
<1>4. c.left[j] => lo >= width
  BY <1>3 DEF Edges
<1>5. c.right[j] => hi <= c.rank[j] - width
  BY <1>3 DEF Edges
<1>6. c.max_halo[j] \in Nat /\ c.wf_shift_pts[j] \in Nat /\ c.rank[j] \in Nat
  <2>1. c.wf_shift_pts[j] \in Nat
    BY SlopeIs
  <2>2. c.max_halo[j] \in Nat
    BY DEF Sound, Adjusted
  <2>3. c.rank \in [1 .. d -> Nat \ {0}]
    BY DEF Sound, Adjusted, Sizes
  <2> QED
    BY <2>1, <2>2, <2>3
<1> DEFINE N == c.rank[j]
<1>7. width \in Nat /\ N \in Nat
  BY <1>6
<1>8. \/ c.left[j] /\ x < width
      \/ c.right[j] /\ x >= N - width
  OBVIOUS
<1> HIDE DEF lo, hi, below, above, width, int, N
<1>9. CASE c.left[j] /\ x < width
  <2>1. x < int.lo
    BY <1>1, <1>2, <1>4, <1>7, <1>9
  <2> QED
    BY <1>1, <1>2, <2>1 DEF Holds, int
<1>10. CASE c.right[j] /\ x >= N - width
  <2>1. x >= int.hi
    BY <1>1, <1>2, <1>5, <1>7, <1>10 DEF N
  <2> QED
    BY <1>1, <1>2, <2>1 DEF Holds, int
<1> QED
  BY <1>8, <1>9, <1>10

LEMMA InvSlabsFinal ==
  ASSUME TilingInv, InTurnInv, WideRemainders(ctx)
  PROVE  SlabsFinalBeforeSend
<1> SUFFICES ASSUME ~Done, Sections(ctx)[section].part = "interior",
                    NEW p \in BoxPoints([j \in Dims(ctx) |-> [lo |-> 0, hi |-> ctx.rank[j]]]),
                    NEW j \in Dims(ctx),
                    \/ ctx.left[j] /\ p[j] < ctx.max_halo[j] + ctx.wf_shift_pts[j]
                    \/ /\ ctx.right[j]
                       /\ p[j] >= ctx.rank[j] - (ctx.max_halo[j] + ctx.wf_shift_pts[j])
             PROVE  level[p] = NumLevels(ctx)
  BY DEF SlabsFinalBeforeSend
<1> DEFINE d == Len(ctx.rank)
<1>1. Sound(ctx, d) /\ InOrderAt(ctx, d, section, region, layer, phase, todo, level)
  BY InvSound DEF InTurnInv, SoundHere
<1> HIDE DEF d
<1>2. Dims(ctx) = 1 .. d
  BY <1>1, DimsAre DEF Sound
<1> DEFINE work == WorkToCome(ctx, section, region, layer, phase, todo)
<1>4. Threads(ctx, d, section, region, layer, phase, todo) /\ section \in 1 .. Len(Sections(ctx))
  <2>1. Len(Sections(ctx)) \in Nat
    BY <1>1, SectionsAre
  <2>2. section # Len(Sections(ctx)) + 1
    BY <2>1 DEF Done
  <2>3. Threads(ctx, d, section, region, layer, phase, todo)
    BY <1>1, <2>2 DEF InOrderAt
  <2> QED
    BY <2>3 DEF Threads, AtPlace
<1>5. ctx.overlap
  BY <1>1, <1>4, InteriorLast
<1>6. p \in [1 .. d -> Int] /\ \A i \in 1 .. d : 0 <= p[i] /\ p[i] < ctx.rank[i]
  BY <1>1, DomainPoints
<1>7. j \in 1 .. d /\ p[j] \in Int
  BY <1>2, <1>6
<1>8. ASSUME NEW f \in work, Takes(f, d, p) PROVE FALSE
  <2>1. f.level \in Levels(ctx) /\ Holds(InteriorSpan(ctx, f.level, j), p[j])
    BY <1>4, <1>6, <1>7, <1>8, InteriorTakes
  <2> HIDE DEF work
  <2> QED
    BY <1>1, <1>5, <1>7, <2>1, SlabOutside
<1>9. work = WorkToCome(ctx, section, region, layer, phase, todo) /\ d = Len(ctx.rank)
  BY DEF d
<1> HIDE DEF work
<1> QED
  BY <1>8, <1>9, NoMoreToCome

(* When the exterior is done and the halos go out, every point of the      *)
(* slabs that are packed has its final value, if no remainder block is too *)
(* narrow for its bridge.                                                  *)
THEOREM SlabsAreFinal == Spec => [](WideRemainders(ctx) => SlabsFinalBeforeSend)
<1>1. TilingInv /\ InTurnInv => (WideRemainders(ctx) => SlabsFinalBeforeSend)
  BY InvSlabsFinal
<1> QED
  BY <1>1, TilingInvariant, WorkStaysInTurn, PTL

(* What a point reads is stored, and within the halo of it.                *)
LEMMA ReadsAre ==
  ASSUME NEW c, NEW d, Sound(c, d)
  PROVE  /\ DOMAIN Reads(c) = BoxPoints(c.ext_bb)
         /\ BoxPoints(c.ext_bb) \subseteq BoxPoints(Stored(c))
         /\ \A p \in BoxPoints(c.ext_bb) : \A q \in Reads(c)[p] :
              q \in BoxPoints(Stored(c)) /\ Close(c, d, p, q)
<1>1. Dims(c) = 1 .. d
  BY DimsAre DEF Sound
<1>2. /\ c.ext_bb \in [1 .. d -> Spans] /\ Stored(c) \in [1 .. d -> Spans]
      /\ \A j \in 1 .. d : c.max_halo[j] \in Nat /\ Within(c.ext_bb[j], Stored(c)[j])
  BY StoredIs DEF Sound, Adjusted, Bounded
<1>3. DOMAIN Reads(c) = BoxPoints(c.ext_bb)
  BY DEF Reads
<1>4. ASSUME NEW p \in BoxPoints(c.ext_bb) PROVE p \in BoxPoints(Stored(c))
  <2>1. p \in [1 .. d -> Int] /\ \A j \in 1 .. d : Holds(c.ext_bb[j], p[j])
    BY <1>2, <1>4, PointsAre
  <2>2. ASSUME NEW j \in 1 .. d PROVE Holds(Stored(c)[j], p[j])
    <3> DEFINE a == c.ext_bb[j]
               b == Stored(c)[j]
               x == p[j]
    <3>1. a \in Spans /\ b \in Spans /\ Within(a, b) /\ x \in Int /\ Holds(a, x)
      BY <1>2, <2>1
    <3> HIDE DEF a, b, x
    <3>2. a.lo \in Int /\ a.hi \in Int /\ b.lo \in Int /\ b.hi \in Int
      BY <3>1 DEF Spans
    <3>3. Holds(b, x)
      BY <3>1, <3>2 DEF Within, Holds
    <3> QED
      BY <3>3 DEF b, x
  <2> QED
    BY <1>2, <2>1, <2>2, PointsAre
<1>5. ASSUME NEW p \in BoxPoints(c.ext_bb), NEW q \in Reads(c)[p]
      PROVE  q \in BoxPoints(Stored(c)) /\ Close(c, d, p, q)
  <2> DEFINE pt == [i \in Dims(c) |-> [lo |-> p[i], hi |-> p[i] + 1]]
             zone == [j \in Dims(c) |-> Cap(Around(c, pt)[j], Stored(c)[j])]
             near(j) == [lo |-> p[j] - c.max_halo[j], hi |-> p[j] + 1 + c.max_halo[j]]
  <2>1. p \in [1 .. d -> Int]
    BY <1>2, PointsAre
  <2>2. q \in BoxPoints(zone)
    BY Zenon DEF Reads
  <2>3. \A j \in 1 .. d : zone[j] = Cap(near(j), Stored(c)[j])
    BY <1>1 DEF Around
  <2>4. zone = [j \in 1 .. d |-> zone[j]]
    BY <1>1
  <2> HIDE DEF zone, near
  <2>5. ASSUME NEW j \in 1 .. d
        PROVE  /\ zone[j] \in Spans
               /\ zone[j].lo \in Int /\ zone[j].hi \in Int
               /\ zone[j].lo >= p[j] - c.max_halo[j] /\ zone[j].hi <= p[j] + 1 + c.max_halo[j]
               /\ zone[j].lo >= Stored(c)[j].lo /\ zone[j].hi <= Stored(c)[j].hi
    <3>1. p[j] \in Int /\ c.max_halo[j] \in Nat /\ Stored(c)[j] \in Spans
      BY <1>2, <2>1
    <3>2. near(j) \in Spans /\ near(j).lo = p[j] - c.max_halo[j] /\ near(j).hi = p[j] + 1 + c.max_halo[j]
      BY <3>1 DEF near, Spans
    <3> DEFINE a == near(j)
               b == Stored(c)[j]
               z == zone[j]
    <3>3. a \in Spans /\ b \in Spans /\ z = Cap(a, b)
      BY <2>3, <3>1, <3>2
    <3> HIDE DEF a, b, z
    <3>4. z \in Spans /\ z.lo >= a.lo /\ z.lo >= b.lo /\ z.hi <= a.hi /\ z.hi <= b.hi
      BY <3>3, CapIs
    <3>5. z.lo \in Int /\ z.hi \in Int
      BY <3>4 DEF Spans
    <3> QED
      BY <3>2, <3>4, <3>5 DEF a, b, z
  <2>6. zone \in [1 .. d -> Spans]
    BY <2>4, <2>5
  <2>7. q \in [1 .. d -> Int] /\ \A j \in 1 .. d : Holds(zone[j], q[j])
    BY <2>2, <2>6, PointsAre
  <2>8. ASSUME NEW j \in 1 .. d
        PROVE  /\ Holds(Stored(c)[j], q[j])
               /\ p[j] <= q[j] + c.max_halo[j] /\ q[j] <= p[j] + c.max_halo[j]
    <3> DEFINE z == zone[j]
               b == Stored(c)[j]
               h == c.max_halo[j]
               x == p[j]
               y == q[j]
    <3>1. /\ h \in Nat /\ x \in Int /\ y \in Int /\ b.lo \in Int /\ b.hi \in Int
          /\ z.lo <= y /\ y < z.hi
      BY <1>2, <2>1, <2>7 DEF Spans, Holds
    <3>2. /\ z.lo \in Int /\ z.hi \in Int /\ z.lo >= x - h /\ z.hi <= x + 1 + h
          /\ z.lo >= b.lo /\ z.hi <= b.hi
      BY <2>5
    <3> HIDE DEF z, b, h, x, y
    <3>3. Holds(b, y) /\ x <= y + h /\ y <= x + h
      BY <3>1, <3>2 DEF Holds
    <3> QED
      BY <3>3 DEF b, h, x, y
  <2>9. q \in BoxPoints(Stored(c))
    BY <1>2, <2>7, <2>8, PointsAre
  <2> QED
    BY <2>8, <2>9 DEF Close
<1>6. BoxPoints(c.ext_bb) \subseteq BoxPoints(Stored(c))
  BY <1>4
<1> QED
  BY <1>3, <1>5, <1>6

LEMMA SameReads ==
  ASSUME NEW c, NEW x, x.rank = c.rank, x.ext_bb = c.ext_bb, x.max_halo = c.max_halo,
         x.left = c.left, x.right = c.right
  PROVE  Reads(x) = Reads(c)
<1>1. Dims(x) = Dims(c)
  BY DEF Dims
<1>2. Stored(x) = Stored(c)
  BY <1>1 DEF Stored
<1>3. \A box : Around(x, box) = Around(c, box)
  BY <1>1 DEF Around
<1> QED
  BY <1>1, <1>2, <1>3 DEF Reads

LEMMA ContextReads ==
  ASSUME ctx \in {Context(s) : s \in Settings}
  PROVE  ctx.reads = Reads(ctx)
<1>1. PICK s \in Settings : ctx = Context(s)
  OBVIOUS
<1> DEFINE d == Len(s.rank)
           c == PrepareSolution(s)
           g == [reads |-> Reads(c)]
<1>2. GoodSettings(s, d)
  <2>1. /\ s.rank \in Seq(Nat \ {0}) /\ s \in RankSettings(d)
        /\ \A i \in DOMAIN s.valid : s.valid[i] <= s.packs
        /\ TupleSum(s.valid) > 0
        /\ Len(s.valid) <= Max({1, s.region_steps, s.block_steps})
    BY SettingsAssumption, Zenon
  <2>2. d \in Nat
    BY <2>1
  <2> QED
    BY <2>1, <2>2 DEF GoodSettings
<1> HIDE DEF d
<1>3. DOMAIN c = SettingFields \cup WaveFields \cup TbFields \cup BoundFields
  BY <1>2, PreparedIs
<1>4. ctx = Extend(c, g)
  BY <1>1, Zenon DEF Context
<1> HIDE DEF c
<1>5. DOMAIN g = {"reads"} /\ DOMAIN c \cap DOMAIN g = {} /\ g.reads = Reads(c)
  BY <1>3 DEF SettingFields, WaveFields, TbFields, BoundFields
<1> HIDE DEF g
<1>6. ctx.reads = Reads(c) /\ \A f \in DOMAIN c : ctx[f] = c[f]
  <2>1. /\ \A f \in DOMAIN c : Extend(c, g)[f] = c[f]
        /\ \A f \in DOMAIN g : Extend(c, g)[f] = g[f]
    BY <1>5, ExtendIs
  <2> QED
    BY <1>4, <1>5, <2>1
<1>7. /\ ctx.rank = c.rank /\ ctx.ext_bb = c.ext_bb /\ ctx.max_halo = c.max_halo
      /\ ctx.left = c.left /\ ctx.right = c.right
  BY <1>3, <1>6 DEF SettingFields, BoundFields
<1>8. Reads(ctx) = Reads(c)
  BY <1>7, SameReads
<1> QED
  BY <1>6, <1>8

-----------------------------------------------------------------------------
(* Tiling implements the order of StencilOrder.                            *)
LEMMA InitOrder ==
  ASSUME Init
  PROVE  Order!Init
<1>1. ctx \in {Context(s) : s \in Settings} /\ level = [p \in BoxPoints(Stored(ctx)) |-> 0]
  BY DEF Init
<1>2. PICK d \in Nat : Sound(ctx, d)
  BY <1>1, SoundContext
<1>3. ctx.reads = Reads(ctx)
  BY <1>1, ContextReads
<1>4. /\ DOMAIN ctx.reads = BoxPoints(ctx.ext_bb)
      /\ BoxPoints(ctx.ext_bb) \subseteq BoxPoints(Stored(ctx))
      /\ \A p \in BoxPoints(ctx.ext_bb) : \A q \in ctx.reads[p] : q \in BoxPoints(Stored(ctx))
  BY <1>2, <1>3, ReadsAre
<1>5. DOMAIN level = BoxPoints(Stored(ctx)) /\ level = [q \in DOMAIN level |-> 0]
  BY <1>1
<1> QED
  BY <1>4, <1>5 DEF Order!Init

(* A box evaluated in turn is a step of the order.                         *)
LEMMA BoxIsEvaluated ==
  ASSUME NEW c, NEW d, Sound(c, d), NEW work, NEW lv, OnTime(c, d, work, lv),
         NEW e, First(c, work, e),
         NEW S, S = {p \in DOMAIN lv : Takes(e, d, p)}
  PROVE  /\ S \subseteq BoxPoints(c.ext_bb)
         /\ \A p \in S : lv[p] = e.level
         /\ \A p \in S : \A q \in Reads(c)[p] : lv[q] \in {lv[p], lv[p] + 1}
<1>1. \A p \in S : lv[p] = e.level
  BY FirstInTurn
<1>2. ASSUME NEW p \in S PROVE p \in BoxPoints(c.ext_bb)
  <2>1. p \in [1 .. d -> Int] /\ Takes(e, d, p)
    BY <1>2, LevelledPoint
  <2>2. e.level \in Levels(c) /\ Inside(c, d, e.level, p)
    BY <2>1 DEF First, OnTime, Proper
  <2>3. ASSUME NEW j \in 1 .. d PROVE Holds(c.ext_bb[j], p[j])
    <3> DEFINE a == Reach(c, e.level, j)
               b == c.ext_bb[j]
               x == p[j]
    <3>1. Holds(a, x) /\ x \in Int
      BY <2>1, <2>2 DEF Inside
    <3>2. a.lo \in Int /\ a.hi \in Int /\ b.lo <= a.lo /\ a.hi <= b.hi
      BY <2>2, ReachIs
    <3>3. b.lo \in Int /\ b.hi \in Int
      BY DEF Sound, Bounded, Spans
    <3> HIDE DEF a, b, x
    <3>4. Holds(b, x)
      BY <3>1, <3>2, <3>3 DEF Holds
    <3> QED
      BY <3>4 DEF b, x
  <2>4. c.ext_bb \in [1 .. d -> Spans]
    BY DEF Sound, Bounded
  <2> QED
    BY <2>1, <2>3, <2>4, PointsAre
<1>3. ASSUME NEW p \in S, NEW q \in Reads(c)[p] PROVE lv[q] \in {lv[p], lv[p] + 1}
  <2>1. q \in BoxPoints(Stored(c)) /\ Close(c, d, p, q)
    BY <1>2, <1>3, ReadsAre
  <2>2. q \in DOMAIN lv
    BY <2>1 DEF OnTime
  <2>3. p \in DOMAIN lv /\ Takes(e, d, p)
    BY <1>3
  <2> QED
    BY <2>1, <2>2, <2>3, FirstReads
<1>4. S \subseteq BoxPoints(c.ext_bb)
  BY <1>2
<1> QED
  BY <1>1, <1>3, <1>4

LEMMA EvaluationOrdered ==
  ASSUME TilingInv, InTurnInv, WideRemainders(ctx), NEW b \in DOMAIN todo, CalcMiniBlock(b)
  PROVE  Order!Next
<1> DEFINE d == Len(ctx.rank)
           e == Head(todo[b])
           S == {p \in DOMAIN level : Takes(e, d, p)}
<1>1. /\ todo[b] # << >> /\ ctx' = ctx
      /\ level' = [p \in DOMAIN level |-> IF InBox(p, e.box) THEN e.level + 1 ELSE level[p]]
  BY DEF CalcMiniBlock
<1>2. Sound(ctx, d) /\ ctx.reads = Reads(ctx)
  BY InvSound, ContextReads DEF SoundHere
<1>3. e = Head(todo[b]) /\ d = Len(ctx.rank)
  OBVIOUS
<1> HIDE DEF d, e
<1>4. PICK work : /\ OnTime(ctx, d, work, level) /\ First(ctx, work, e)
                  /\ \A p : InBox(p, e.box) <=> Takes(e, d, p)
  BY <1>1, <1>3, HeadInTurn
<1>5. S = {p \in DOMAIN level : Takes(e, d, p)}
  OBVIOUS
<1> HIDE DEF S
<1>6. /\ S \subseteq BoxPoints(ctx.ext_bb)
      /\ \A p \in S : level[p] = e.level
      /\ \A p \in S : \A q \in Reads(ctx)[p] : level[q] \in {level[p], level[p] + 1}
  BY <1>2, <1>4, <1>5, BoxIsEvaluated
<1>7. \A p \in DOMAIN level : level[p] \in Nat
  BY <1>4 DEF OnTime
<1>8. level' = [q \in DOMAIN level |-> IF q \in S THEN level[q] + 1 ELSE level[q]]
  BY <1>1, <1>4, <1>5, <1>6
<1>9. S = {q \in DOMAIN level : level'[q] # level[q]}
  <2>1. \A q \in DOMAIN level : level'[q] # level[q] <=> q \in S
    BY <1>7, <1>8
  <2>2. S \subseteq DOMAIN level
    BY <1>5
  <2> QED
    BY <2>1, <2>2
<1>10. DOMAIN ctx.reads = BoxPoints(ctx.ext_bb)
  BY <1>2, ReadsAre
<1>11. \A p \in S : \A q \in ctx.reads[p] : Order!Readable(p, q)
  BY <1>2, <1>6 DEF Order!Readable
<1>12. \A p, q \in S : level[p] = level[q]
  BY <1>6
<1>13. Order!Evaluate(S)
  BY <1>1, <1>6, <1>8, <1>10, <1>11, <1>12 DEF Order!Evaluate
<1> QED
  BY <1>9, <1>13 DEF Order!Next

LEMMA NextOrder ==
  ASSUME TilingInv, InTurnInv, WideRemainders(ctx), [Next]_vars
  PROVE  [Order!Next]_<<ctx.reads, level>> /\ WideRemainders(ctx)'
<1>1. ctx' = ctx
  BY DEF Next, vars, CalcMiniBlock, NextPhase, NextLayer, NextRegion, NextSection, Start, Returned
<1>2. CASE \E b \in DOMAIN todo : CalcMiniBlock(b)
  BY <1>1, <1>2, EvaluationOrdered
<1>3. CASE ~\E b \in DOMAIN todo : CalcMiniBlock(b)
  <2>1. level' = level
    BY <1>3 DEF Next, vars, NextPhase, NextLayer, NextRegion, NextSection, Start, Returned
  <2> QED
    BY <1>1, <2>1
<1> QED
  BY <1>2, <1>3

(* Tiling evaluates points in an order that the plain loop's results       *)
(* allow: it implements StencilOrder for every setting whose remainder     *)
(* blocks are wide enough.                                                 *)
THEOREM TilingRefinesOrder == Spec /\ WideRemainders(ctx) => RespectsOrder
<1>1. Init => Order!Init
  BY InitOrder
<1>2. TilingInv /\ InTurnInv /\ WideRemainders(ctx) /\ [Next]_vars
        => [Order!Next]_<<ctx.reads, level>> /\ WideRemainders(ctx)'
  BY NextOrder
<1> QED
  BY <1>1, <1>2, TilingInvariant, WorkStaysInTurn, PTL DEF Spec, RespectsOrder, Order!Spec
=============================================================================
