-------------------------- MODULE HaloMatchProofs --------------------------
(***************************************************************************)
(* The messages of HaloExchange, and the shared buffers, hold exactly what *)
(* has been sent and not yet received: nothing is lost, nothing is left    *)
(* over, and a message meets the receive of its own var and exchange.      *)
(* This rests on the agreement of the ranks: the n-th exchange of one rank *)
(* swaps what the n-th exchange of the other does.  With it goes what      *)
(* follows for the pace of the ranks.                                      *)
(*                                                                         *)
(* The second half is what the exchange is for: when a pack is evaluated   *)
(* every halo point it reads holds what the exterior holds on the other    *)
(* side, and a run leaves no halo out of date.  For every line of ranks,   *)
(* vars and packs, messages or shared memory, overlap or not, wave fronts  *)
(* or not, and every program that all ranks answer alike.                  *)
(***************************************************************************)
EXTENDS HaloExchangeProofs

-----------------------------------------------------------------------------
(* What a rank has sent to a side, and received from it, by exchange e.    *)

SentIn(q, d, v, e) ==
  /\ e \in 1 .. Len(trail[q])
  /\ Swapped(trail[q][e].swap[v])
  /\ SendBuf(v, d)
  /\ ~ (e = Len(trail[q]) /\ It(HaloPackIsend, v, d) \in todo[q])

(* In the exchange a rank is in, a receive is still to come or to match;   *)
(* in shared memory, the buffer is still to be read.                       *)
Awaits(r, s, v) ==
  IF UsesShm(r, s)
  THEN pc[r] \in Halfway \/ It(HaloUnpack, v, s) \in todo[r]
  ELSE \/ It(HaloIrecv, v, s) \in todo[r]
       \/ \E i \in DOMAIN posted[r][s] : posted[r][s][i].var = v

GotIn(r, s, v, e) ==
  /\ e \in 1 .. Len(trail[r])
  /\ Swapped(trail[r][e].swap[v])
  /\ RecvBuf(v, s)
  /\ ~ (e = Len(trail[r]) /\ Awaits(r, s, v))

OnWay(r, s, v, e) == SentIn(Nbr(r, s), Opp(s), v, e) /\ ~GotIn(r, s, v, e)

(* A receive matches what has been sent.                                   *)
GotSent(r, s) ==
  \A v \in Var, e \in Nat : GotIn(r, s, v, e) => SentIn(Nbr(r, s), Opp(s), v, e)

TagIn(sw, v) == Cardinality({u \in 1 .. v : Swapped(sw[u])})

(* Messages say what their exchange swaps, in the order of the exchanges   *)
(* and each once.                                                          *)
Carried(q, d) ==
  LET M == chan[q][d]
  IN  /\ \A k \in DOMAIN M :
           LET sw == trail[q][M[k].exch].swap
           IN  /\ M[k].exch \in 1 .. Len(trail[q])
               /\ M[k].tag = TagIn(sw, M[k].var)
               /\ M[k].steps = sw[M[k].var]
      /\ \A j, k \in DOMAIN M : j < k => M[j].exch <= M[k].exch
      /\ \A j, k \in DOMAIN M : M[j].exch = M[k].exch /\ M[j].var = M[k].var => j = k

MpiExact(r, s) ==
  LET M == chan[Nbr(r, s)][Opp(s)]
  IN  /\ Carried(Nbr(r, s), Opp(s))
      /\ \A v \in Var, e \in Nat :
           OnWay(r, s, v, e) <=> \E k \in DOMAIN M : M[k].var = v /\ M[k].exch = e

ShmExact(r, s) ==
  \A v \in Var :
    /\ full[Nbr(r, s)][v][Opp(s)] <=> \E e \in Nat : OnWay(r, s, v, e)
    /\ \A e, f \in Nat : OnWay(r, s, v, e) /\ OnWay(r, s, v, f) => e = f

(* A receive is posted in the exchange that is going on.                   *)
PostedNow(r) ==
  \A s \in Side : \A i \in DOMAIN posted[r][s] :
    LET p == posted[r][s][i]
    IN  /\ p.tag = TagIn(CurSwap(r), p.var)
        /\ p.steps = CurSwap(r)[p.var]
        /\ Swapped(p.steps)

(* What is sent to a side goes one way or the other.                       *)
NoStray(q) ==
  \A d \in Side :
    /\ chan[q][d] # <<>> => HasNbr(q, d) /\ ~UsesShm(q, d)
    /\ \A v \in Var : full[q][v][d] => HasNbr(q, d) /\ UsesShm(q, d)

(* There is something to send or to unpack only where there is a buffer.   *)
BuffersDue(r) ==
  \A v \in Var, s \in Side :
    /\ It(HaloPackIsend, v, s) \in todo[r] => SendBuf(v, s)
    /\ It(HaloUnpack, v, s) \in todo[r] => RecvBuf(v, s)

LinkInv(r, s) ==
  HasNbr(r, s) =>
    /\ GotSent(r, s)
    /\ IF UsesShm(r, s) THEN ShmExact(r, s) ELSE MpiExact(r, s)

MatchInv ==
  /\ AgreementInv
  /\ \A r \in Rank : PostedNow(r) /\ NoStray(r) /\ BuffersDue(r)
  /\ UniformCalls => \A r \in Rank, s \in Side : LinkInv(r, s)

-----------------------------------------------------------------------------
(* The two ends of a link.                                                 *)

LEMMA LinkEnds ==
  ASSUME NEW r \in Rank, NEW s \in Side, HasNbr(r, s)
  PROVE  /\ Nbr(r, s) \in Rank /\ Opp(s) \in Side /\ Nbr(r, s) # r
         /\ HasNbr(Nbr(r, s), Opp(s)) /\ Nbr(Nbr(r, s), Opp(s)) = r /\ Opp(Opp(s)) = s
         /\ UsesShm(Nbr(r, s), Opp(s)) = UsesShm(r, s)
         /\ \A v : SendBuf(v, Opp(s)) = RecvBuf(v, s)
BY HaloAssumption DEF HasNbr, Nbr, Opp, UsesShm, SendBuf, RecvBuf, Rank, Side

(* Two ranks are joined by at most one link.                               *)
LEMMA OneLink ==
  ASSUME NEW r \in Rank, NEW s \in Side, HasNbr(r, s),
         NEW p \in Rank, NEW t \in Side, HasNbr(p, t),
         Nbr(r, s) = Nbr(p, t), Opp(s) = Opp(t)
  PROVE  r = p /\ s = t
BY HaloAssumption DEF HasNbr, Nbr, Opp, Rank, Side

SentKept(x) ==
  \A d \in Side, v \in Var, e \in Nat : HasNbr(x, d) =>
    (SentIn(x, d, v, e)' <=> SentIn(x, d, v, e))
GotKept(x) ==
  \A s \in Side, v \in Var, e \in Nat : HasNbr(x, s) =>
    (GotIn(x, s, v, e)' <=> GotIn(x, s, v, e))

(* What a rank has sent and received stays so while the parts of its state *)
(* stay that say it.                                                       *)
LEMMA SentSame ==
  ASSUME NEW x \in Rank, trail'[x] = trail[x],
         \A v \in Var, d \in Side :
           It(HaloPackIsend, v, d) \in todo'[x] <=> It(HaloPackIsend, v, d) \in todo[x]
  PROVE  SentKept(x)
BY DEF SentKept, SentIn

LEMMA GotSame ==
  ASSUME NEW x \in Rank, trail'[x] = trail[x],
         \A v \in Var, s \in Side : HasNbr(x, s) => (Awaits(x, s, v)' <=> Awaits(x, s, v))
  PROVE  GotKept(x)
BY DEF GotKept, GotIn

LEMMA AwaitsSame ==
  ASSUME NEW x \in Rank, NEW v \in Var, NEW s \in Side,
         posted'[x][s] = posted[x][s],
         pc'[x] \in Halfway <=> pc[x] \in Halfway,
         It(HaloIrecv, v, s) \in todo'[x] <=> It(HaloIrecv, v, s) \in todo[x],
         UsesShm(x, s) =>
           (It(HaloUnpack, v, s) \in todo'[x] <=> It(HaloUnpack, v, s) \in todo[x])
  PROVE  Awaits(x, s, v)' <=> Awaits(x, s, v)
BY DEF Awaits

(* Outside an exchange nothing is awaited.                                 *)
LEMMA QuietOutside ==
  ASSUME HaloInv, NEW x \in Rank, RequestInv(x),
         pc[x] \notin Halfway, pc[x] \in Whole => todo[x] = {}
  PROVE  /\ todo[x] = {}
         /\ \A s \in Side : posted[x][s] = <<>>
         /\ \A v \in Var, s \in Side : ~Awaits(x, s, v)
<1>1. todo[x] = {}
  BY DEF RequestInv, ThingsDue, Halfway
<1>2. ASSUME NEW s \in Side
      PROVE  posted[x][s] = <<>>
  <2>1. NoneOpen(x)
    BY ClosedOutside
  <2>2. \A i \in DOMAIN posted[x][s] : FALSE
    BY <2>1, HeldType DEF NoneOpen, RequestInv, PostedActive
  <2> DEFINE P == posted[x][s]
  <2>3. P \in Seq(Posting)
    BY HeldType
  <2> HIDE DEF P
  <2>4. Len(P) = 0
    <3>1. DOMAIN P = 1 .. Len(P) /\ Len(P) \in Nat
      BY <2>3
    <3>2. \A i \in DOMAIN P : FALSE
      BY <2>2 DEF P
    <3>3. 1 \notin 1 .. Len(P)
      BY <3>1, <3>2
    <3> QED
      BY <3>1, <3>3
  <2>5. P = <<>>
    BY <2>3, <2>4, EmptySeq
  <2> QED
    BY <2>5 DEF P
<1>3. \A v \in Var, s \in Side : ~Awaits(x, s, v)
  BY <1>1, <1>2 DEF Awaits
<1> QED
  BY <1>1, <1>2, <1>3

-----------------------------------------------------------------------------
(* What a step of a rank sends and receives.                               *)

(* An exchange that begins has all still to do.                            *)
LEMMA StartView ==
  ASSUME HaloInv, NEW x \in Rank, RequestInv(x), pc[x] \in {"call", "packs"},
         NEW f \in [Var -> Int], NEW g, NEW i \in BOOLEAN, NEW n \in Nat,
         StartExchange(x, f, g, TRUE, i, n),
         i => pc'[x] \in Whole, ~i => pc'[x] \in Halfway
  PROVE  /\ SentKept(x) /\ GotKept(x)
         /\ \E e \in ExchangeRecord : trail'[x] = Append(trail[x], e)
<1>1. /\ todo[x] = {}
      /\ \A s \in Side : posted[x][s] = <<>>
      /\ \A v \in Var, s \in Side : ~Awaits(x, s, v)
  <2>1. pc[x] \notin Halfway /\ pc[x] \notin Whole
    BY DEF Halfway, Whole
  <2> QED
    BY <2>1, QuietOutside
<1> DEFINE sw == SwapOf(x, f, g)
           rec == [swap |-> sw, evals |-> Evals(x) + n]
           T == trail[x]
           U == trail'[x]
<1>2. /\ todo'[x] = TodoOf(x, sw, TRUE, i)
      /\ U = Append(T, rec)
  BY DEF StartExchange, HaloInv, TypeOK, TodoType
<1>3. T \in Seq(ExchangeRecord) /\ rec \in ExchangeRecord
  <2>1. T \in Seq(ExchangeRecord)
    BY DEF HaloInv, TypeOK
  <2>2. sw \in [Var -> SwapRange] /\ Evals(x) \in Nat
    BY <2>1, SwapOfType, EvalsNat
  <2> HIDE DEF sw
  <2> QED
    BY <2>1, <2>2 DEF ExchangeRecord
<1>4. rec.swap = sw
  OBVIOUS
<1>5. TRUE \in BOOLEAN
  OBVIOUS
<1>6. ASSUME NEW v \in Var, NEW s \in Side, HasNbr(x, s), Swapped(sw[v])
      PROVE  /\ SendBuf(v, s) => It(HaloPackIsend, v, s) \in todo'[x]
             /\ RecvBuf(v, s) /\ ~UsesShm(x, s) => It(HaloIrecv, v, s) \in todo'[x]
             /\ i = TRUE /\ RecvBuf(v, s) => It(HaloUnpack, v, s) \in todo'[x]
  <2> HIDE DEF sw
  <2>1. /\ It(HaloIrecv, v, s) \in TodoOf(x, sw, TRUE, i) <=>
             TRUE /\ HasNbr(x, s) /\ RecvBuf(v, s) /\ ~UsesShm(x, s) /\ Swapped(sw[v])
        /\ It(HaloPackIsend, v, s) \in TodoOf(x, sw, TRUE, i) <=>
             TRUE /\ HasNbr(x, s) /\ SendBuf(v, s) /\ Swapped(sw[v])
        /\ It(HaloUnpack, v, s) \in TodoOf(x, sw, TRUE, i) <=>
             i /\ HasNbr(x, s) /\ RecvBuf(v, s) /\ Swapped(sw[v])
    BY ONLY <1>5, i \in BOOLEAN, TodoOfItems, x \in Rank, v \in Var, s \in Side, Zenon
  <2> QED
    BY <1>2, <1>6, <2>1
<1> HIDE DEF rec, sw, T, U
<1>7. /\ Len(T) \in Nat /\ Len(U) = Len(T) + 1
      /\ \A e \in 1 .. Len(T) : U[e] = T[e]
      /\ U[Len(U)] = rec
  BY <1>2, <1>3
<1>8. SentKept(x)
  <2> SUFFICES ASSUME NEW d \in Side, NEW v \in Var, NEW e \in Nat, HasNbr(x, d)
               PROVE  SentIn(x, d, v, e)' <=> SentIn(x, d, v, e)
    BY DEF SentKept
  <2>1. CASE e \in 1 .. Len(T)
    BY <1>1, <1>7, <2>1 DEF SentIn, T, U
  <2>2. CASE e = Len(U)
    <3>1. Swapped(sw[v]) /\ SendBuf(v, d) => It(HaloPackIsend, v, d) \in todo'[x]
      BY <1>6
    <3> QED
      BY <1>4, <1>7, <2>2, <3>1 DEF SentIn, T, U
  <2>3. CASE e \notin 1 .. Len(U)
    BY <1>7, <2>3 DEF SentIn, T, U
  <2> QED
    BY <1>7, <2>1, <2>2, <2>3
<1>9. GotKept(x)
  <2> SUFFICES ASSUME NEW s \in Side, NEW v \in Var, NEW e \in Nat, HasNbr(x, s)
               PROVE  GotIn(x, s, v, e)' <=> GotIn(x, s, v, e)
    BY DEF GotKept
  <2>1. CASE e \in 1 .. Len(T)
    BY <1>1, <1>7, <2>1 DEF GotIn, T, U
  <2>2. CASE e = Len(U)
    <3>1. Swapped(sw[v]) /\ RecvBuf(v, s) => Awaits(x, s, v)'
      BY <1>6, <2>2 DEF Awaits
    <3> QED
      BY <1>4, <1>7, <2>2, <3>1 DEF GotIn, T, U
  <2>3. CASE e \notin 1 .. Len(U)
    BY <1>7, <2>3 DEF GotIn, T, U
  <2> QED
    BY <1>7, <2>1, <2>2, <2>3
<1> QED
  BY <1>2, <1>3, <1>8, <1>9 DEF T, U

LEMMA BeginView ==
  ASSUME HaloInv, NEW x \in Rank, RequestInv(x),
         BeginRun(x) \/ BeginEnd(x) \/ EvalExterior(x) \/ EvalAll(x)
  PROVE  /\ SentKept(x) /\ GotKept(x)
         /\ chan' = chan /\ posted' = posted /\ full' = full
         /\ \E e \in ExchangeRecord : trail'[x] = Append(trail[x], e)
<1>1. /\ pc[x] \in {"call", "packs"}
      /\ chan' = chan /\ posted' = posted /\ full' = full
  BY DEF BeginRun, BeginEnd, EvalExterior, EvalAll, Calling, net, bufs
<1>2. first[x] \in [Var -> Int] /\ pc \in [Rank -> PcType]
  BY DEF HaloInv, TypeOK, PcType
<1>3. TRUE \in BOOLEAN /\ FALSE \in BOOLEAN /\ 0 \in Nat /\ 1 \in Nat
  OBVIOUS
<1>4. CASE BeginRun(x) \/ BeginEnd(x)
  <2>1. StartExchange(x, first[x], dirty[x], TRUE, TRUE, 0) /\ pc'[x] \in Whole
    BY <1>2, <1>4 DEF BeginRun, BeginEnd, Whole
  <2> QED
    BY <1>1, <1>2, <1>3, <2>1, StartView
<1>5. ASSUME pc[x] = "packs"
      PROVE  FirstAfter(x) \in [Var -> Int]
  <2>1. op[x] \in DOMAIN script
    BY <1>5 DEF HaloInv, InCall
  <2> QED
    BY <2>1, AfterType
<1>6. CASE EvalExterior(x)
  <2>1. /\ StartExchange(x, FirstAfter(x), DirtyAfter(x), TRUE, FALSE, 1)
        /\ pc'[x] \in Halfway /\ pc[x] = "packs"
    BY <1>2, <1>6 DEF EvalExterior, Halfway
  <2> QED
    BY <1>1, <1>3, <1>5, <2>1, StartView
<1>7. CASE EvalAll(x)
  <2>1. /\ StartExchange(x, FirstAfter(x), DirtyAfter(x), TRUE, TRUE, 1)
        /\ pc'[x] \in Whole /\ pc[x] = "packs"
    BY <1>2, <1>7 DEF EvalAll, Whole
  <2> QED
    BY <1>1, <1>3, <1>5, <2>1, StartView
<1> QED
  BY <1>4, <1>6, <1>7

(* Steps that have nothing to do with what is sent and received.           *)
LEMMA QuietView ==
  ASSUME HaloInv, NEW x \in Rank, RequestInv(x),
         \/ SkipPack(x) \/ ExchangeDone(x) \/ Fill(x) \/ SetSlice(x) \/ SetElems(x)
         \/ SetPoint(x) \/ BeginPrepare(x) \/ LeaveBarrier(x) \/ LeaveAllocBarrier(x)
         \/ LeaveShmBarrier(x) \/ (\E k \in TuneSteps : Tune(x, k))
  PROVE  /\ SentKept(x) /\ GotKept(x)
         /\ chan' = chan /\ posted' = posted /\ trail' = trail
         /\ ~LeaveBarrier(x) => full' = full
<1>t. pc \in [Rank -> PcType]
  BY DEF HaloInv, TypeOK, PcType
<1>1. chan' = chan /\ posted' = posted /\ trail' = trail /\ todo' = todo
      /\ (~LeaveBarrier(x) => full' = full)
  BY DEF SkipPack, ExchangeDone, Fill, SetSlice, SetElems, SetPoint, BeginPrepare,
         LeaveBarrier, LeaveAllocBarrier, LeaveShmBarrier, Tune, net, bufs
<1>2. NextPack(x) => pc'[x] \in {"packs", "call"}
  BY <1>t DEF NextPack, Returns
<1>3. Returns(x) => pc'[x] = "call"
  BY <1>t DEF Returns
<1>4. pc'[x] \in Halfway <=> pc[x] \in Halfway
  <2>1. CASE SkipPack(x)
    BY <1>2, <2>1 DEF SkipPack, Halfway
  <2>2. CASE ExchangeDone(x)
    BY <1>t, <1>2, <2>2 DEF ExchangeDone, Halfway
  <2>3. CASE Fill(x) \/ SetSlice(x) \/ SetElems(x) \/ SetPoint(x)
    BY <1>3, <2>3 DEF Fill, SetSlice, SetElems, SetPoint, Calling, Halfway
  <2>4. CASE BeginPrepare(x) \/ \E k \in TuneSteps : Tune(x, k)
    BY <1>t, <2>4 DEF BeginPrepare, Tune, Calling, Halfway
  <2>5. CASE LeaveBarrier(x) \/ LeaveAllocBarrier(x) \/ LeaveShmBarrier(x)
    BY <1>t, <1>3, <2>5 DEF LeaveBarrier, LeaveAllocBarrier, LeaveShmBarrier, Halfway
  <2> QED
    BY <2>1, <2>2, <2>3, <2>4, <2>5
<1>5. SentKept(x)
  BY <1>1, SentSame
<1>6. \A v \in Var, s \in Side : Awaits(x, s, v)' <=> Awaits(x, s, v)
  BY <1>1, <1>4 DEF Awaits
<1>7. GotKept(x)
  BY <1>1, <1>6, GotSame
<1> QED
  BY <1>1, <1>5, <1>7

(* The other half of an exchange takes up what the first one left.         *)
LEMMA InteriorView ==
  ASSUME HaloInv, NEW x \in Rank, RequestInv(x), ExchangeInv(x), EvalInterior(x)
  PROVE  /\ SentKept(x) /\ GotKept(x)
         /\ chan' = chan /\ posted' = posted /\ trail' = trail /\ full' = full
<1>1. /\ pc[x] = "inner" /\ pc'[x] = "exch_int" /\ dirty' = dirty
      /\ StartExchange(x, FirstAfter(x), dirty[x], FALSE, TRUE, 0)
      /\ chan' = chan /\ posted' = posted /\ full' = full
  BY DEF EvalInterior, net, bufs, HaloInv, TypeOK
<1> DEFINE sw == SwapOf(x, FirstAfter(x), dirty[x])
<1>2. todo'[x] = TodoOf(x, sw, FALSE, TRUE) /\ trail' = trail
  BY <1>1 DEF StartExchange, HaloInv, TypeOK, TodoType
<1>3. sw = CurSwap(x) /\ trail[x] # <<>>
  <2>1. FirstAfter(x) = first[x]
    BY <1>1 DEF RequestInv, HalvesAgree, Halfway
  <2> QED
    BY <1>1, <2>1 DEF ExchangeInv, HalvesSwap, Halfway, InExchange
<1>4. todo[x] = {}
  BY <1>1 DEF RequestInv, ThingsDue, Whole
<1>5. TRUE \in BOOLEAN /\ FALSE \in BOOLEAN
  OBVIOUS
<1> HIDE DEF sw
<1>6. ASSUME NEW v \in Var, NEW s \in Side
      PROVE  /\ It(HaloIrecv, v, s) \notin todo'[x]
             /\ It(HaloPackIsend, v, s) \notin todo'[x]
             /\ It(HaloUnpack, v, s) \in todo'[x] <=>
                  HasNbr(x, s) /\ RecvBuf(v, s) /\ Swapped(sw[v])
  <2>1. /\ It(HaloIrecv, v, s) \in TodoOf(x, sw, FALSE, TRUE) <=>
             FALSE /\ HasNbr(x, s) /\ RecvBuf(v, s) /\ ~UsesShm(x, s) /\ Swapped(sw[v])
        /\ It(HaloPackIsend, v, s) \in TodoOf(x, sw, FALSE, TRUE) <=>
             FALSE /\ HasNbr(x, s) /\ SendBuf(v, s) /\ Swapped(sw[v])
        /\ It(HaloUnpack, v, s) \in TodoOf(x, sw, FALSE, TRUE) <=>
             TRUE /\ HasNbr(x, s) /\ RecvBuf(v, s) /\ Swapped(sw[v])
    BY ONLY <1>5, TodoOfItems, x \in Rank, v \in Var, s \in Side, Zenon
  <2> QED
    BY <1>2, <2>1
<1>7. SentKept(x)
  BY <1>2, <1>4, <1>6, SentSame
<1> DEFINE T == trail[x]
<1>8. T[Len(T)].swap = sw
  BY <1>3 DEF CurSwap, Last
<1>9. trail'[x] = T /\ pc[x] \in Halfway /\ pc'[x] \notin Halfway /\ posted'[x] = posted[x]
  BY <1>1, <1>2 DEF Halfway
<1> HIDE DEF T
<1>10. ASSUME NEW s \in Side, NEW v \in Var, NEW e \in Nat, HasNbr(x, s)
       PROVE  GotIn(x, s, v, e)' <=> GotIn(x, s, v, e)
  <2>1. CASE UsesShm(x, s)
    <3>1. Awaits(x, s, v)
      BY <1>9, <2>1 DEF Awaits
    <3>2. RecvBuf(v, s) /\ Swapped(sw[v]) => Awaits(x, s, v)'
      BY <1>6, <1>10, <2>1 DEF Awaits
    <3>3. CASE e = Len(T)
      BY <1>8, <1>9, <3>1, <3>2, <3>3 DEF GotIn, T
    <3>4. CASE e # Len(T)
      BY <1>9, <3>4 DEF GotIn, T
    <3> QED
      BY <3>3, <3>4
  <2>2. CASE ~UsesShm(x, s)
    <3>1. Awaits(x, s, v)' <=> Awaits(x, s, v)
      BY <1>4, <1>6, <1>9, <2>2 DEF Awaits
    <3> QED
      BY <1>9, <3>1 DEF GotIn, T
  <2> QED
    BY <2>1, <2>2
<1>11. GotKept(x)
  BY <1>10 DEF GotKept
<1> QED
  BY <1>1, <1>2, <1>7, <1>11

(* Of the items of an exchange, only posting, sending and reading count.   *)
LEMMA ItemSame ==
  ASSUME HaloInv, NEW x \in Rank, RequestInv(x),
         NEW a \in {HaloIrecv, HaloPackIsend, HaloUnpack, HaloFinal},
         NEW v \in Var, NEW s \in Side,
         IsHead(x, a, v, s), Done(x, a, v, s), UNCHANGED calc
  PROVE  /\ It(a, v, s) \in todo[x] /\ HasNbr(x, s)
         /\ trail'[x] = trail[x] /\ pc'[x] = pc[x]
         /\ \A b \in {HaloIrecv, HaloPackIsend, HaloUnpack, HaloFinal}, u \in Var, d \in Side :
              It(b, u, d) \in todo'[x] <=>
                It(b, u, d) \in todo[x] /\ ~(b = a /\ u = v /\ d = s)
<1>1. /\ todo'[x] = todo[x] \ {It(a, v, s)}
      /\ It(a, v, s) \in todo[x] /\ HasNbr(x, s)
      /\ \A b \in {HaloIrecv, HaloPackIsend, HaloUnpack, HaloFinal}, u \in Var, d \in Side :
           It(b, u, d) = It(a, v, s) => b = a /\ u = v /\ d = s
      /\ pc'[x] = pc[x]
  BY ItemDone
<1> QED
  BY <1>1 DEF calc

LEMMA OtherItemView ==
  ASSUME HaloInv, NEW x \in Rank, RequestInv(x), NEW v \in Var, NEW s \in Side,
         UnpackMpi(x, v, s) \/ Final(x, v, s)
  PROVE  /\ SentKept(x) /\ GotKept(x)
         /\ chan' = chan /\ posted' = posted /\ trail' = trail /\ full' = full
<1>1. chan' = chan /\ posted' = posted /\ trail' = trail /\ full' = full
  BY DEF UnpackMpi, Final, calc, net, bufs
<1>2. PICK a \in {HaloUnpack, HaloFinal} :
        /\ IsHead(x, a, v, s) /\ Done(x, a, v, s) /\ UNCHANGED calc
        /\ a = HaloUnpack => ~UsesShm(x, s)
  BY DEF UnpackMpi, Final, HaloUnpack, HaloFinal
<1>3. /\ pc'[x] = pc[x]
      /\ \A b \in {HaloIrecv, HaloPackIsend, HaloUnpack, HaloFinal}, u \in Var, d \in Side :
           It(b, u, d) \in todo'[x] <=> It(b, u, d) \in todo[x] /\ ~(b = a /\ u = v /\ d = s)
  BY <1>2, ItemSame
<1>4. SentKept(x)
  BY <1>1, <1>2, <1>3, SentSame DEF HaloPackIsend, HaloUnpack, HaloFinal
<1>5. ASSUME NEW u \in Var, NEW d \in Side
      PROVE  Awaits(x, d, u)' <=> Awaits(x, d, u)
  BY <1>1, <1>2, <1>3, AwaitsSame DEF HaloIrecv, HaloUnpack, HaloFinal
<1>6. GotKept(x)
  BY <1>1, <1>5, GotSame
<1> QED
  BY <1>1, <1>4, <1>6

(* A receive that is posted is still to come.                              *)
LEMMA IrecvView ==
  ASSUME HaloInv, NEW x \in Rank, RequestInv(x), NEW v \in Var, NEW s \in Side, Irecv(x, v, s)
  PROVE  /\ SentKept(x) /\ GotKept(x)
         /\ chan' = chan /\ trail' = trail /\ full' = full
<1> DEFINE p == [tag |-> Tag(x, v), var |-> v, steps |-> swap[x][v]]
           P == posted[x][s]
<1>1. chan' = chan /\ trail' = trail /\ full' = full
  BY DEF Irecv, calc, bufs
<1>2. /\ IsHead(x, HaloIrecv, v, s) /\ Done(x, HaloIrecv, v, s) /\ UNCHANGED calc
      /\ \A d \in Side : posted'[x][d] = IF d = s THEN Append(P, p) ELSE posted[x][d]
  BY DEF Irecv, HaloInv, TypeOK
<1>3. /\ pc'[x] = pc[x] /\ It(HaloIrecv, v, s) \in todo[x]
      /\ \A b \in {HaloIrecv, HaloPackIsend, HaloUnpack, HaloFinal}, u \in Var, d \in Side :
           It(b, u, d) \in todo'[x] <=>
             It(b, u, d) \in todo[x] /\ ~(b = HaloIrecv /\ u = v /\ d = s)
  BY <1>2, ItemSame
<1>4. SentKept(x)
  BY <1>1, <1>3, SentSame DEF HaloPackIsend, HaloIrecv
<1>5. ~UsesShm(x, s)
  BY <1>3 DEF RequestInv, ThingsDue
<1>6. ASSUME NEW u \in Var, NEW d \in Side
      PROVE  Awaits(x, d, u)' <=> Awaits(x, d, u)
  <2>1. CASE d # s
    <3>1. posted'[x][d] = posted[x][d]
      BY <1>2, <2>1
    <3> QED
      BY <1>3, <2>1, <3>1, AwaitsSame DEF HaloIrecv, HaloUnpack
  <2>2. CASE d = s
    <3>1. P \in Seq(Posting) /\ p \in Posting /\ p.var = v
      BY HeldType, TagNat DEF Posting, HaloInv, TypeOK
    <3> DEFINE Q == Append(P, p)
    <3> HIDE DEF P, p
    <3>2. /\ DOMAIN Q = 1 .. Len(P) + 1 /\ DOMAIN P = 1 .. Len(P) /\ Len(P) \in Nat
          /\ Q[Len(P) + 1] = p /\ \A j \in 1 .. Len(P) : Q[j] = P[j]
      BY <3>1
    <3> HIDE DEF Q
    <3>3. (\E j \in DOMAIN Q : Q[j].var = u) <=> u = v \/ \E j \in DOMAIN P : P[j].var = u
      BY <3>1, <3>2
    <3>4. posted'[x][s] = Q /\ posted[x][s] = P
      BY <1>2 DEF Q, P
    <3> QED
      BY <1>3, <1>5, <2>2, <3>3, <3>4 DEF Awaits
  <2> QED
    BY <2>1, <2>2
<1>7. GotKept(x)
  BY <1>1, <1>6, GotSame
<1> QED
  BY <1>1, <1>4, <1>7

(* A rank that packs has sent one thing more, in its present exchange.     *)
LEMMA SendView ==
  ASSUME HaloInv, NEW x \in Rank, RequestInv(x), ExchangeInv(x), BuffersDue(x),
         NEW v \in Var, NEW d \in Side, PackIsend(x, v, d) \/ PackShm(x, v, d)
  PROVE  /\ GotKept(x) /\ posted' = posted /\ trail' = trail
         /\ HasNbr(x, d) /\ Len(trail[x]) \in Nat
         /\ ~SentIn(x, d, v, Len(trail[x]))
         /\ \A c \in Side, u \in Var, e \in Nat : SentIn(x, c, u, e)' <=>
              SentIn(x, c, u, e) \/ (c = d /\ u = v /\ e = Len(trail[x]))
<1>1. posted' = posted /\ trail' = trail
  BY DEF PackIsend, PackShm, calc, net
<1>2. IsHead(x, HaloPackIsend, v, d) /\ Done(x, HaloPackIsend, v, d) /\ UNCHANGED calc
  BY DEF PackIsend, PackShm
<1>3. /\ pc'[x] = pc[x] /\ It(HaloPackIsend, v, d) \in todo[x] /\ HasNbr(x, d)
      /\ \A b \in {HaloIrecv, HaloPackIsend, HaloUnpack, HaloFinal}, u \in Var, c \in Side :
           It(b, u, c) \in todo'[x] <=>
             It(b, u, c) \in todo[x] /\ ~(b = HaloPackIsend /\ u = v /\ c = d)
  BY <1>2, ItemSame
<1>4. \A u \in Var, c \in Side : Awaits(x, c, u)' <=> Awaits(x, c, u)
  BY <1>1, <1>3 DEF Awaits, HaloIrecv, HaloPackIsend, HaloUnpack
<1>5. GotKept(x)
  BY <1>1, <1>4, GotSame
<1> DEFINE T == trail[x]
<1>6. /\ T \in Seq(ExchangeRecord) /\ T # <<>> /\ Swapped(T[Len(T)].swap[v])
      /\ SendBuf(v, d)
  <2>1. pc[x] \in Whole \cup {"exch_ext"}
    BY <1>3 DEF RequestInv, ThingsDue
  <2>2. T # <<>> /\ swap[x] = CurSwap(x)
    BY <2>1 DEF ExchangeInv, HalvesSwap, InExchange, Halfway
  <2>3. Swapped(swap[x][v])
    BY <1>3 DEF ExchangeInv, SwapsInWindow, It
  <2> QED
    BY <1>3, <2>2, <2>3 DEF CurSwap, Last, HaloInv, TypeOK, BuffersDue
<1>7. trail'[x] = T
  BY <1>1
<1>8. Len(T) \in 1 .. Len(T)
  BY <1>6, EmptySeq
<1> HIDE DEF T
<1>9. ~SentIn(x, d, v, Len(trail[x]))
  BY <1>3 DEF SentIn
<1>10. ASSUME NEW c \in Side, NEW u \in Var, NEW e \in Nat
       PROVE  SentIn(x, c, u, e)' <=> SentIn(x, c, u, e) \/ (c = d /\ u = v /\ e = Len(trail[x]))
  <2>1. It(HaloPackIsend, u, c) \in todo'[x] <=>
          It(HaloPackIsend, u, c) \in todo[x] /\ ~(u = v /\ c = d)
    BY <1>3
  <2> QED
    BY <1>6, <1>7, <1>8, <2>1 DEF SentIn, T
<1>11. Len(trail[x]) \in Nat
  BY <1>6 DEF T
<1> QED
  BY <1>1, <1>3, <1>5, <1>9, <1>10, <1>11

(* A rank that reads a shared buffer has got one thing more.               *)
LEMMA ReadView ==
  ASSUME HaloInv, NEW x \in Rank, RequestInv(x), ExchangeInv(x), BuffersDue(x),
         NEW v \in Var, NEW s \in Side, UnpackShm(x, v, s)
  PROVE  /\ SentKept(x) /\ chan' = chan /\ posted' = posted /\ trail' = trail
         /\ HasNbr(x, s) /\ Len(trail[x]) \in 1 .. Len(trail[x]) /\ RecvBuf(v, s)
         /\ Swapped(trail[x][Len(trail[x])].swap[v]) /\ Awaits(x, s, v)
         /\ \A c \in Side, u \in Var, e \in Nat : GotIn(x, c, u, e)' <=>
              GotIn(x, c, u, e) \/ (c = s /\ u = v /\ e = Len(trail[x]))
<1>1. chan' = chan /\ posted' = posted /\ trail' = trail /\ UsesShm(x, s)
  BY DEF UnpackShm, calc, net
<1>2. IsHead(x, HaloUnpack, v, s) /\ Done(x, HaloUnpack, v, s) /\ UNCHANGED calc
  BY DEF UnpackShm
<1>3. /\ pc'[x] = pc[x] /\ It(HaloUnpack, v, s) \in todo[x] /\ HasNbr(x, s)
      /\ \A b \in {HaloIrecv, HaloPackIsend, HaloUnpack, HaloFinal}, u \in Var, c \in Side :
           It(b, u, c) \in todo'[x] <=>
             It(b, u, c) \in todo[x] /\ ~(b = HaloUnpack /\ u = v /\ c = s)
  BY <1>2, ItemSame
<1>4. SentKept(x)
  BY <1>1, <1>3, SentSame DEF HaloPackIsend, HaloUnpack
<1>5. pc[x] \in Whole
  BY <1>3 DEF RequestInv, ThingsDue
<1> DEFINE T == trail[x]
<1>6. /\ T \in Seq(ExchangeRecord) /\ T # <<>> /\ Swapped(T[Len(T)].swap[v])
      /\ RecvBuf(v, s)
  <2>1. T # <<>> /\ swap[x] = CurSwap(x)
    BY <1>5 DEF ExchangeInv, HalvesSwap, InExchange, Halfway
  <2>2. Swapped(swap[x][v])
    BY <1>3 DEF ExchangeInv, SwapsInWindow, It
  <2> QED
    BY <1>3, <2>1, <2>2 DEF CurSwap, Last, HaloInv, TypeOK, BuffersDue
<1>7. trail'[x] = T
  BY <1>1
<1>8. Len(T) \in 1 .. Len(T)
  BY <1>6, EmptySeq
<1>9. Awaits(x, s, v) /\ ~Awaits(x, s, v)'
  BY <1>1, <1>3, <1>5 DEF Awaits, Halfway, Whole
<1>10. ASSUME NEW c \in Side, NEW u \in Var, ~(c = s /\ u = v)
       PROVE  Awaits(x, c, u)' <=> Awaits(x, c, u)
  BY <1>1, <1>3, <1>10 DEF Awaits, HaloIrecv, HaloUnpack
<1> HIDE DEF T
<1>11. ASSUME NEW c \in Side, NEW u \in Var, NEW e \in Nat
       PROVE  GotIn(x, c, u, e)' <=> GotIn(x, c, u, e) \/ (c = s /\ u = v /\ e = Len(trail[x]))
  <2>1. CASE c = s /\ u = v
    BY <1>6, <1>7, <1>8, <1>9, <2>1 DEF GotIn, T
  <2>2. CASE ~(c = s /\ u = v)
    <3>1. Awaits(x, c, u)' <=> Awaits(x, c, u)
      BY <1>10, <2>2
    <3> QED
      BY <1>7, <2>2, <3>1 DEF GotIn, T
  <2> QED
    BY <2>1, <2>2
<1> QED
  BY <1>1, <1>3, <1>4, <1>6, <1>8, <1>9, <1>11 DEF T

(* The ranks that do not make the step.                                    *)
LEMMA OtherView ==
  ASSUME NEW x \in Rank, trail'[x] = trail[x], todo'[x] = todo[x], pc'[x] = pc[x],
         posted'[x] = posted[x]
  PROVE  SentKept(x) /\ GotKept(x)
<1>1. \A v \in Var, s \in Side : Awaits(x, s, v)' <=> Awaits(x, s, v)
  BY DEF Awaits
<1> QED
  BY <1>1, SentSame, GotSame

-----------------------------------------------------------------------------
(* What a step means for a link.                                           *)

LEMMA OpenLength ==
  ASSUME HaloInv, NEW x \in Rank
  PROVE  trail[x] \in Seq(ExchangeRecord) /\ Len(trail[x]) \in Nat
BY DEF HaloInv, TypeOK

(* A history that gets longer says the same of the messages there are.     *)
LEMMA CarriedLonger ==
  ASSUME HaloInv, HaloInv', NEW q \in Rank, NEW d \in Side, Carried(q, d),
         chan'[q][d] = chan[q][d], Begins(trail[q], trail'[q])
  PROVE  Carried(q, d)'
<1> DEFINE M == chan[q][d]
<1>1. chan'[q][d] = M
  OBVIOUS
<1> DEFINE T == trail[q]
           U == trail'[q]
<1>2. Len(T) \in Nat /\ Len(U) \in Nat /\ Len(T) <= Len(U)
      /\ \A e \in 1 .. Len(T) : U[e] = T[e]
  BY DEF Begins, HaloInv, TypeOK
<1>3. /\ \A k \in DOMAIN M :
           /\ M[k].exch \in 1 .. Len(T)
           /\ M[k].tag = TagIn(T[M[k].exch].swap, M[k].var)
           /\ M[k].steps = T[M[k].exch].swap[M[k].var]
      /\ \A j, k \in DOMAIN M : j < k => M[j].exch <= M[k].exch
      /\ \A j, k \in DOMAIN M : M[j].exch = M[k].exch /\ M[j].var = M[k].var => j = k
  BY DEF Carried
<1> HIDE DEF M, T, U
<1>4. \A k \in DOMAIN M :
           /\ M[k].exch \in 1 .. Len(U)
           /\ M[k].tag = TagIn(U[M[k].exch].swap, M[k].var)
           /\ M[k].steps = U[M[k].exch].swap[M[k].var]
  BY <1>2, <1>3
<1> QED
  BY <1>1, <1>3, <1>4 DEF Carried, U

(* A link whose ends keep what they say keeps its own.                     *)
LEMMA LinkKept ==
  ASSUME HaloInv, HaloInv', NEW r \in Rank, NEW s \in Side, HasNbr(r, s) => LinkInv(r, s),
         HasNbr(r, s) =>
           /\ \A v \in Var, e \in Nat :
                /\ SentIn(Nbr(r, s), Opp(s), v, e)' <=> SentIn(Nbr(r, s), Opp(s), v, e)
                /\ GotIn(r, s, v, e)' <=> GotIn(r, s, v, e)
           /\ UsesShm(r, s) =>
                \A v \in Var : full'[Nbr(r, s)][v][Opp(s)] = full[Nbr(r, s)][v][Opp(s)]
           /\ ~UsesShm(r, s) =>
                /\ chan'[Nbr(r, s)][Opp(s)] = chan[Nbr(r, s)][Opp(s)]
                /\ Begins(trail[Nbr(r, s)], trail'[Nbr(r, s)])
  PROVE  LinkInv(r, s)'
<1> SUFFICES ASSUME HasNbr(r, s)
             PROVE  GotSent(r, s)' /\ IF UsesShm(r, s) THEN ShmExact(r, s)' ELSE MpiExact(r, s)'
  BY DEF LinkInv
<1> DEFINE q == Nbr(r, s)
           d == Opp(s)
<1>1. q \in Rank /\ d \in Side
  BY LinkEnds
<1>2. \A v \in Var, e \in Nat : SentIn(q, d, v, e)' <=> SentIn(q, d, v, e)
  OBVIOUS
<1>3. \A v \in Var, e \in Nat : GotIn(r, s, v, e)' <=> GotIn(r, s, v, e)
  OBVIOUS
<1>4. GotSent(r, s) /\ IF UsesShm(r, s) THEN ShmExact(r, s) ELSE MpiExact(r, s)
  BY DEF LinkInv
<1>5. GotSent(r, s)'
  BY <1>2, <1>3, <1>4 DEF GotSent
<1>6. \A v \in Var, e \in Nat : OnWay(r, s, v, e)' <=> OnWay(r, s, v, e)
  BY <1>2, <1>3 DEF OnWay
<1>7. CASE UsesShm(r, s)
  <2>1. \A v \in Var : full'[q][v][d] = full[q][v][d]
    BY <1>7
  <2>2. ShmExact(r, s)'
    BY <1>4, <1>6, <1>7, <2>1 DEF ShmExact
  <2> QED
    BY <1>5, <1>7, <2>2
<1>8. CASE ~UsesShm(r, s)
  <2>1. chan'[q][d] = chan[q][d] /\ Begins(trail[q], trail'[q])
    BY <1>8
  <2>2. Carried(q, d)'
    BY <1>1, <1>4, <1>8, <2>1, CarriedLonger DEF MpiExact
  <2>3. MpiExact(r, s)'
    BY <1>4, <1>6, <1>8, <2>1, <2>2 DEF MpiExact
  <2> QED
    BY <1>5, <1>8, <2>3
<1> QED
  BY <1>7, <1>8

LEMMA BeginsSelf ==
  ASSUME HaloInv, NEW q \in Rank
  PROVE  Begins(trail[q], trail[q])
BY OpenLength DEF Begins

(* The position of a swapped var among the swapped ones is its tag.        *)
LEMMA TagOfSwap ==
  ASSUME NEW x \in Rank, NEW v \in Var, swap[x] = CurSwap(x)
  PROVE  Tag(x, v) = TagIn(CurSwap(x), v)
BY DEF Tag, TagIn

(* A message is sent.                                                      *)
LEMMA IsendLink ==
  ASSUME HaloInv, HaloInv', NEW r \in Rank, NEW s \in Side, HasNbr(r, s), LinkInv(r, s),
         NEW v \in Var, RequestInv(Nbr(r, s)), ExchangeInv(Nbr(r, s)), BuffersDue(Nbr(r, s)),
         PackIsend(Nbr(r, s), v, Opp(s)), GotKept(r)
  PROVE  LinkInv(r, s)'
<1> DEFINE q == Nbr(r, s)
           d == Opp(s)
           M == chan[q][d]
           T == trail[q]
           f == Len(T)
           m == [tag |-> Tag(q, v), var |-> v, steps |-> swap[q][v],
                 exch |-> f, eager |-> FALSE, data |-> <<>>]
           N == Append(M, m)
<1>1. q \in Rank /\ d \in Side
  BY LinkEnds
<1>2. /\ IsHead(q, HaloPackIsend, v, d) /\ ~UsesShm(q, d) /\ UNCHANGED calc
      /\ chan'[q][d] = N
  BY <1>1 DEF PackIsend, HaloInv, TypeOK
<1>3. /\ trail' = trail /\ f \in Nat /\ ~SentIn(q, d, v, f)
      /\ \A u \in Var, e \in Nat : SentIn(q, d, u, e)' <=>
           SentIn(q, d, u, e) \/ (u = v /\ e = f)
  BY <1>1, SendView
<1>4. \A u \in Var, e \in Nat : GotIn(r, s, u, e)' <=> GotIn(r, s, u, e)
  BY DEF GotKept
<1>5. ~UsesShm(r, s)
  BY <1>2, LinkEnds
<1>6. GotSent(r, s) /\ MpiExact(r, s)
  BY <1>5 DEF LinkInv
<1>7. /\ M \in Seq(Message) /\ m \in Message
      /\ m.tag = TagIn(T[f].swap, v) /\ m.steps = T[f].swap[v] /\ f \in 1 .. f
  <2>1. It(HaloPackIsend, v, d) \in todo[q]
    BY <1>2 DEF IsHead, It
  <2>2. pc[q] \in Whole \cup {"exch_ext"}
    BY <1>1, <2>1 DEF RequestInv, ThingsDue
  <2>3. T # <<>> /\ swap[q] = CurSwap(q)
    BY <1>1, <2>2 DEF ExchangeInv, HalvesSwap, InExchange, Halfway
  <2>4. m.tag = TagIn(T[f].swap, v) /\ m.steps = T[f].swap[v]
    BY <1>1, <2>3, TagOfSwap DEF CurSwap, Last
  <2>5. f \in 1 .. f
    BY <1>1, <2>3, EmptySeq DEF HaloInv, TypeOK
  <2>6. M \in Seq(Message) /\ swap[q][v] \in SwapRange /\ Tag(q, v) \in Nat
    BY <1>1, HeldType, TagNat DEF HaloInv, TypeOK
  <2>7. <<>> \in Seq(Value)
    OBVIOUS
  <2>8. m \in Message
    BY <1>3, <2>6, <2>7 DEF Message
  <2> QED
    BY <2>4, <2>5, <2>6, <2>8
<1>8. m.var = v /\ m.exch = f
  OBVIOUS
<1>9. /\ \A k \in DOMAIN M :
           /\ M[k].exch \in 1 .. f
           /\ M[k].tag = TagIn(T[M[k].exch].swap, M[k].var)
           /\ M[k].steps = T[M[k].exch].swap[M[k].var]
      /\ \A j, k \in DOMAIN M : j < k => M[j].exch <= M[k].exch
      /\ \A j, k \in DOMAIN M : M[j].exch = M[k].exch /\ M[j].var = M[k].var => j = k
  BY <1>6 DEF MpiExact, Carried
<1>10. \A u \in Var, e \in Nat :
         OnWay(r, s, u, e) <=> \E k \in DOMAIN M : M[k].var = u /\ M[k].exch = e
  BY <1>6 DEF MpiExact
<1>11. \A k \in DOMAIN M : ~(M[k].var = v /\ M[k].exch = f)
  BY <1>3, <1>10 DEF OnWay
<1>12. \A u \in Var, e \in Nat :
         OnWay(r, s, u, e)' <=> OnWay(r, s, u, e) \/ (u = v /\ e = f)
  <2>1. ~GotIn(r, s, v, f)
    BY <1>3, <1>6 DEF GotSent
  <2> QED
    BY <1>3, <1>4, <2>1 DEF OnWay
<1>13. GotSent(r, s)'
  BY <1>3, <1>4, <1>6 DEF GotSent
<1> HIDE DEF q, d, M, T, f, m
<1>14. /\ DOMAIN N = 1 .. Len(M) + 1 /\ DOMAIN M = 1 .. Len(M) /\ Len(M) \in Nat
       /\ N[Len(M) + 1] = m /\ \A k \in DOMAIN M : N[k] = M[k]
  BY <1>7
<1> HIDE DEF N
<1>15. \A k \in DOMAIN N :
         /\ N[k].exch \in 1 .. f
         /\ N[k].tag = TagIn(T[N[k].exch].swap, N[k].var)
         /\ N[k].steps = T[N[k].exch].swap[N[k].var]
  <2> TAKE k \in DOMAIN N
  <2>1. CASE k \in DOMAIN M
    BY <1>9, <1>14, <2>1
  <2>2. CASE k = Len(M) + 1
    BY <1>7, <1>8, <1>14, <2>2
  <2> QED
    BY <1>14, <2>1, <2>2
<1>16. \A j, k \in DOMAIN N : j < k => N[j].exch <= N[k].exch
  <2> SUFFICES ASSUME NEW j \in DOMAIN N, NEW k \in DOMAIN N, j < k
               PROVE  N[j].exch <= N[k].exch
    OBVIOUS
  <2>1. j \in DOMAIN M
    BY <1>14
  <2>2. CASE k \in DOMAIN M
    BY <1>9, <1>14, <2>1, <2>2
  <2>3. CASE k = Len(M) + 1
    BY <1>3, <1>8, <1>9, <1>14, <2>1, <2>3
  <2> QED
    BY <1>14, <2>2, <2>3
<1>17. \A j, k \in DOMAIN N : N[j].exch = N[k].exch /\ N[j].var = N[k].var => j = k
  BY <1>8, <1>9, <1>11, <1>14
<1>18. Carried(q, d)'
  BY <1>2, <1>3, <1>15, <1>16, <1>17 DEF Carried, T, f
<1>19. \A u \in Var, e \in Nat :
         OnWay(r, s, u, e)' <=> \E k \in DOMAIN N : N[k].var = u /\ N[k].exch = e
  BY <1>8, <1>10, <1>12, <1>14
<1>20. MpiExact(r, s)'
  BY <1>2, <1>18, <1>19 DEF MpiExact, q, d
<1> QED
  BY <1>5, <1>13, <1>20 DEF LinkInv

(* One lock changes.                                                       *)
LEMMA LockSet ==
  ASSUME NEW f \in [Rank -> [Var -> [Side -> BOOLEAN]]],
         NEW q \in Rank, NEW v \in Var, NEW d \in Side,
         NEW g, g = [f EXCEPT ![q][v][d] = TRUE]
  PROVE  \A y \in Rank, u \in Var, c \in Side :
           g[y][u][c] <=> (y = q /\ u = v /\ c = d) \/ f[y][u][c]
OBVIOUS

LEMMA LockFreed ==
  ASSUME NEW f \in [Rank -> [Var -> [Side -> BOOLEAN]]],
         NEW q \in Rank, NEW v \in Var, NEW d \in Side,
         NEW g, g = [f EXCEPT ![q][v][d] = FALSE]
  PROVE  \A y \in Rank, u \in Var, c \in Side :
           g[y][u][c] <=> f[y][u][c] /\ ~(y = q /\ u = v /\ c = d)
OBVIOUS

(* A shared buffer is written: it was empty.                               *)
LEMMA WriteLink ==
  ASSUME HaloInv, NEW r \in Rank, NEW s \in Side, HasNbr(r, s), LinkInv(r, s),
         NEW v \in Var, RequestInv(Nbr(r, s)), ExchangeInv(Nbr(r, s)), BuffersDue(Nbr(r, s)),
         PackShm(Nbr(r, s), v, Opp(s)), GotKept(r)
  PROVE  LinkInv(r, s)'
<1> DEFINE q == Nbr(r, s)
           d == Opp(s)
           f == Len(trail[q])
<1>1. q \in Rank /\ d \in Side
  BY LinkEnds
<1>2. /\ UsesShm(q, d) /\ ~full[q][v][d]
      /\ \A u \in Var : full'[q][u][d] <=> u = v \/ full[q][u][d]
  <2>1. UsesShm(q, d) /\ ~full[q][v][d] /\ full' = [full EXCEPT ![q][v][d] = TRUE]
    BY DEF PackShm, OkToWrite
  <2>2. full \in [Rank -> [Var -> [Side -> BOOLEAN]]]
    BY DEF HaloInv, TypeOK
  <2>3. \A y \in Rank, u \in Var, c \in Side :
          full'[y][u][c] <=> (y = q /\ u = v /\ c = d) \/ full[y][u][c]
    BY <1>1, <2>1, <2>2, LockSet
  <2> QED
    BY <1>1, <2>1, <2>3
<1>3. /\ f \in Nat /\ ~SentIn(q, d, v, f)
      /\ \A u \in Var, e \in Nat : SentIn(q, d, u, e)' <=>
           SentIn(q, d, u, e) \/ (u = v /\ e = f)
  BY <1>1, SendView
<1>4. \A u \in Var, e \in Nat : GotIn(r, s, u, e)' <=> GotIn(r, s, u, e)
  BY DEF GotKept
<1>5. UsesShm(r, s)
  BY <1>2, LinkEnds
<1>6. GotSent(r, s) /\ ShmExact(r, s)
  BY <1>5 DEF LinkInv
<1>7. \A u \in Var, e \in Nat :
        OnWay(r, s, u, e)' <=> OnWay(r, s, u, e) \/ (u = v /\ e = f)
  <2>1. ~GotIn(r, s, v, f)
    BY <1>3, <1>6 DEF GotSent
  <2> QED
    BY <1>3, <1>4, <2>1 DEF OnWay
<1>8. GotSent(r, s)'
  BY <1>3, <1>4, <1>6 DEF GotSent
<1>9. \A e \in Nat : ~OnWay(r, s, v, e)
  BY <1>2, <1>6 DEF ShmExact
<1>10. ASSUME NEW u \in Var
       PROVE  /\ full'[q][u][d] <=> \E e \in Nat : OnWay(r, s, u, e)'
              /\ \A e, g \in Nat : OnWay(r, s, u, e)' /\ OnWay(r, s, u, g)' => e = g
  <2>1. CASE u = v
    BY <1>2, <1>3, <1>7, <1>9, <2>1
  <2>2. CASE u # v
    <3>1. \A e \in Nat : OnWay(r, s, u, e)' <=> OnWay(r, s, u, e)
      BY <1>7, <2>2
    <3> QED
      BY <1>2, <1>6, <2>2, <3>1 DEF ShmExact
  <2> QED
    BY <2>1, <2>2
<1>11. ShmExact(r, s)'
  BY <1>10 DEF ShmExact
<1> QED
  BY <1>5, <1>8, <1>11 DEF LinkInv

(* Of two ranks' histories one is the beginning of the other.              *)
LEMMA TrailsBegin ==
  ASSUME AgreementInv, UniformCalls, NEW r \in Rank, NEW q \in Rank
  PROVE  Begins(trail[r], trail[q]) \/ Begins(trail[q], trail[r])
<1>1. Prog(r) \in ProgState /\ Prog(q) \in ProgState
  BY ProgType DEF AgreementInv, RequestsInv
<1>2. Reach(Prog(r), Prog(q)) \/ Reach(Prog(q), Prog(r))
  BY DEF AgreementInv, Together
<1>3. Between(Prog(r), Prog(q)) \/ Between(Prog(q), Prog(r))
  BY <1>1, <1>2, ReachBetween
<1>4. Prog(r).trail = trail[r] /\ Prog(q).trail = trail[q]
  BY ProgFields
<1> QED
  BY <1>3, <1>4 DEF Between

LEMMA TrailsAgree ==
  ASSUME AgreementInv, UniformCalls, NEW r \in Rank, NEW q \in Rank,
         NEW e, e \in 1 .. Len(trail[r]), e \in 1 .. Len(trail[q])
  PROVE  trail[r][e] = trail[q][e]
BY TrailsBegin DEF Begins

(* What a rank has still to get of an earlier exchange than its present    *)
(* one is nothing.                                                         *)
LEMMA OnWayNow ==
  ASSUME AgreementInv, UniformCalls, NEW r \in Rank, NEW s \in Side, HasNbr(r, s),
         NEW u \in Var, NEW e \in Nat, OnWay(r, s, u, e)
  PROVE  e >= Len(trail[r])
<1> DEFINE q == Nbr(r, s)
           d == Opp(s)
<1>1. q \in Rank /\ HaloInv /\ (SendBuf(u, d) => RecvBuf(u, s))
  BY LinkEnds DEF AgreementInv, RequestsInv
<1>2. /\ e \in 1 .. Len(trail[q]) /\ Swapped(trail[q][e].swap[u]) /\ RecvBuf(u, s)
      /\ ~GotIn(r, s, u, e)
  BY <1>1 DEF OnWay, SentIn
<1> HIDE DEF q, d
<1>3. Len(trail[r]) \in Nat
  BY <1>1, OpenLength
<1>4. SUFFICES ASSUME e < Len(trail[r])
               PROVE  FALSE
  BY <1>3
<1>5. e \in 1 .. Len(trail[r]) /\ e # Len(trail[r])
  BY <1>2, <1>3, <1>4
<1>6. trail[r][e] = trail[q][e]
  BY <1>1, <1>2, <1>5, TrailsAgree
<1> QED
  BY <1>2, <1>5, <1>6 DEF GotIn

(* What the neighbour has sent of later exchanges than the present one of  *)
(* a rank comes after what it has sent of this one.                        *)
LEMMA OnWayFirst ==
  ASSUME AgreementInv, UniformCalls, NEW r \in Rank, NEW s \in Side, HasNbr(r, s),
         NEW u \in Var, NEW e \in Nat, OnWay(r, s, u, e), e # Len(trail[r]),
         NEW v \in Var, RecvBuf(v, s), Awaits(r, s, v), Len(trail[r]) \in 1 .. Len(trail[r]),
         Swapped(trail[r][Len(trail[r])].swap[v])
  PROVE  OnWay(r, s, v, Len(trail[r])) /\ Len(trail[r]) < e
<1> DEFINE q == Nbr(r, s)
           d == Opp(s)
           f == Len(trail[r])
<1>1. q \in Rank /\ HaloInv /\ SendBuf(v, d)
  BY LinkEnds DEF AgreementInv, RequestsInv
<1>2. e \in 1 .. Len(trail[q])
  BY DEF OnWay, SentIn
<1>3. f \in Nat /\ Len(trail[q]) \in Nat
  BY <1>1, OpenLength
<1>4. f < e
  BY <1>3, OnWayNow
<1>5. f \in 1 .. Len(trail[q]) /\ f # Len(trail[q])
  BY <1>2, <1>3, <1>4
<1>6. trail[r][f] = trail[q][f]
  BY <1>1, <1>5, TrailsAgree
<1>7. SentIn(q, d, v, f)
  BY <1>1, <1>5, <1>6 DEF SentIn
<1>8. ~GotIn(r, s, v, f)
  BY DEF GotIn
<1> QED
  BY <1>4, <1>7, <1>8 DEF OnWay

(* A shared buffer is read: it holds what the present exchange has sent.   *)
LEMMA ReadLink ==
  ASSUME AgreementInv, UniformCalls, NEW r \in Rank, NEW s \in Side, LinkInv(r, s),
         BuffersDue(r), NEW v \in Var, UnpackShm(r, v, s), SentKept(Nbr(r, s))
  PROVE  LinkInv(r, s)'
<1> DEFINE q == Nbr(r, s)
           d == Opp(s)
           f == Len(trail[r])
<1>1. HaloInv /\ RequestInv(r) /\ ExchangeInv(r)
  BY DEF AgreementInv, RequestsInv
<1>2. /\ HasNbr(r, s) /\ f \in 1 .. f /\ RecvBuf(v, s) /\ Swapped(trail[r][f].swap[v])
      /\ Awaits(r, s, v)
      /\ \A u \in Var, e \in Nat : GotIn(r, s, u, e)' <=>
           GotIn(r, s, u, e) \/ (u = v /\ e = f)
  BY <1>1, ReadView
<1>3. q \in Rank /\ d \in Side /\ HasNbr(q, d)
  BY <1>2, LinkEnds
<1>4. /\ UsesShm(r, s) /\ full[q][v][d]
      /\ \A u \in Var : full'[q][u][d] <=> full[q][u][d] /\ u # v
  <2>1. UsesShm(r, s) /\ full[q][v][d] /\ full' = [full EXCEPT ![q][v][d] = FALSE]
    BY DEF UnpackShm, OkToRead
  <2>2. full \in [Rank -> [Var -> [Side -> BOOLEAN]]]
    BY <1>1 DEF HaloInv, TypeOK
  <2>3. \A y \in Rank, u \in Var, c \in Side :
          full'[y][u][c] <=> full[y][u][c] /\ ~(y = q /\ u = v /\ c = d)
    BY <1>3, <2>1, <2>2, LockFreed
  <2> QED
    BY <1>3, <2>1, <2>3
<1>5. \A u \in Var, e \in Nat : SentIn(q, d, u, e)' <=> SentIn(q, d, u, e)
  BY <1>3 DEF SentKept
<1>6. GotSent(r, s) /\ ShmExact(r, s)
  BY <1>2, <1>4 DEF LinkInv
<1>7. PICK e \in Nat : OnWay(r, s, v, e)
  BY <1>4, <1>6 DEF ShmExact
<1>8. OnWay(r, s, v, f) /\ f \in Nat
  <2>1. f \in Nat
    BY <1>1, OpenLength
  <2>2. CASE e # f
    BY <1>2, <1>7, <2>2, OnWayFirst
  <2> QED
    BY <1>7, <2>1, <2>2
<1>9. \A e2 \in Nat : OnWay(r, s, v, e2) => e2 = f
  BY <1>6, <1>8 DEF ShmExact
<1>10. \A u \in Var, e2 \in Nat :
         OnWay(r, s, u, e2)' <=> OnWay(r, s, u, e2) /\ ~(u = v /\ e2 = f)
  BY <1>2, <1>5 DEF OnWay
<1>11. GotSent(r, s)'
  BY <1>2, <1>5, <1>6, <1>8 DEF GotSent, OnWay
<1>12. ASSUME NEW u \in Var
       PROVE  /\ full'[q][u][d] <=> \E e2 \in Nat : OnWay(r, s, u, e2)'
              /\ \A e2, g \in Nat : OnWay(r, s, u, e2)' /\ OnWay(r, s, u, g)' => e2 = g
  <2>1. CASE u = v
    BY <1>4, <1>9, <1>10, <2>1
  <2>2. CASE u # v
    <3>1. \A e2 \in Nat : OnWay(r, s, u, e2)' <=> OnWay(r, s, u, e2)
      BY <1>10, <2>2
    <3> QED
      BY <1>4, <1>6, <2>2, <3>1 DEF ShmExact
  <2> QED
    BY <2>1, <2>2
<1>13. ShmExact(r, s)'
  BY <1>12 DEF ShmExact
<1> QED
  BY <1>4, <1>11, <1>13 DEF LinkInv

-----------------------------------------------------------------------------
(* A message and the receive it meets.                                     *)

(* Of the vars that are swapped no two have the same tag.                  *)
LEMMA TagDiffers ==
  ASSUME NEW sw, NEW u \in Var, NEW v \in Var, u < v, Swapped(sw[v])
  PROVE  TagIn(sw, u) # TagIn(sw, v)
<1> DEFINE A == {w \in 1 .. u : Swapped(sw[w])}
           B == {w \in 1 .. v : Swapped(sw[w])}
<1>1. u \in Int /\ v \in Int /\ 1 <= v
  BY HaloAssumption DEF Var
<1>2. IsFiniteSet(1 .. v)
  BY <1>1, FS_Interval
<1>3. IsFiniteSet(B)
  BY <1>2, FS_Subset
<1>4. A \in SUBSET B /\ v \in B /\ v \notin A
  BY <1>1
<1>5. Cardinality(B) = Cardinality(A) => B = A
  BY <1>3, <1>4, FS_Subset
<1> QED
  BY <1>4, <1>5 DEF TagIn

LEMMA TagTells ==
  ASSUME NEW sw, NEW u \in Var, NEW v \in Var, Swapped(sw[u]), Swapped(sw[v]),
         TagIn(sw, u) = TagIn(sw, v)
  PROVE  u = v
<1>1. u < v \/ v < u \/ u = v
  BY HaloAssumption DEF Var
<1> QED
  BY <1>1, TagDiffers

(* A rank that has posted a receive is in an exchange that swaps its var,  *)
(* and has not got it.                                                     *)
LEMMA PostedAwaits ==
  ASSUME HaloInv, NEW r \in Rank, RequestInv(r), ExchangeInv(r), PostedNow(r),
         NEW s \in Side, NEW i \in DOMAIN posted[r][s]
  PROVE  LET v == posted[r][s][i].var
             f == Len(trail[r])
         IN  /\ v \in Var /\ HasNbr(r, s) /\ RecvBuf(v, s) /\ ~UsesShm(r, s)
             /\ It(HaloIrecv, v, s) \notin todo[r] /\ Awaits(r, s, v)
             /\ f \in 1 .. f /\ Swapped(trail[r][f].swap[v])
             /\ posted[r][s][i].tag = TagIn(trail[r][f].swap, v)
             /\ posted[r][s][i].steps = trail[r][f].swap[v]
<1> DEFINE v == posted[r][s][i].var
           T == trail[r]
<1>1. v \in Var
  BY HeldType
<1>2. recvReq[r][v][s] # "null"
  BY DEF RequestInv, PostedActive
<1>3. /\ HasNbr(r, s) /\ RecvBuf(v, s) /\ ~UsesShm(r, s) /\ It(HaloIrecv, v, s) \notin todo[r]
      /\ pc[r] \in InExchange
  BY <1>1, <1>2 DEF RequestInv, RecvTracked, InExchange
<1>4. Awaits(r, s, v)
  BY <1>3 DEF Awaits
<1>5. T \in Seq(ExchangeRecord) /\ T # <<>>
  BY <1>3 DEF ExchangeInv, HalvesSwap, HaloInv, TypeOK
<1>6. /\ posted[r][s][i].tag = TagIn(T[Len(T)].swap, v)
      /\ posted[r][s][i].steps = T[Len(T)].swap[v] /\ Swapped(T[Len(T)].swap[v])
  BY <1>5 DEF PostedNow, CurSwap, Last
<1> HIDE DEF T
<1>7. Len(T) \in 1 .. Len(T)
  BY <1>5, EmptySeq
<1> QED
  BY <1>1, <1>3, <1>4, <1>6, <1>7 DEF T

(* The first message with the tag of a receive is of its var and of the    *)
(* exchange its rank is in: of an earlier one nothing is left, and if it   *)
(* were of a later one, a message of this one would come before it.        *)
LEMMA Meets ==
  ASSUME AgreementInv, UniformCalls, NEW r \in Rank, NEW s \in Side, HasNbr(r, s),
         LinkInv(r, s), PostedNow(r), NEW i \in DOMAIN posted[r][s],
         NEW k \in DOMAIN chan[Nbr(r, s)][Opp(s)],
         posted[r][s][i].tag = chan[Nbr(r, s)][Opp(s)][k].tag,
         FirstWith(chan[Nbr(r, s)][Opp(s)], k)
  PROVE  LET p == posted[r][s][i]
             m == chan[Nbr(r, s)][Opp(s)][k]
         IN  m.var = p.var /\ m.steps = p.steps /\ m.exch = Len(trail[r])
<1> DEFINE q == Nbr(r, s)
           d == Opp(s)
           M == chan[q][d]
           p == posted[r][s][i]
           v == p.var
           u == M[k].var
           e == M[k].exch
           f == Len(trail[r])
<1>1. HaloInv /\ RequestInv(r) /\ ExchangeInv(r)
  BY DEF AgreementInv, RequestsInv
<1>2. /\ v \in Var /\ RecvBuf(v, s) /\ ~UsesShm(r, s) /\ Awaits(r, s, v)
      /\ f \in 1 .. f /\ Swapped(trail[r][f].swap[v])
      /\ p.tag = TagIn(trail[r][f].swap, v) /\ p.steps = trail[r][f].swap[v]
  BY <1>1, PostedAwaits
<1>3. q \in Rank /\ d \in Side
  BY LinkEnds
<1>4. M \in Seq(Message) /\ u \in Var
  BY <1>1, <1>3, HeldType
<1>5. MpiExact(r, s)
  BY <1>2 DEF LinkInv
<1>6. /\ \A n \in DOMAIN M :
           /\ M[n].exch \in 1 .. Len(trail[q])
           /\ M[n].tag = TagIn(trail[q][M[n].exch].swap, M[n].var)
           /\ M[n].steps = trail[q][M[n].exch].swap[M[n].var]
      /\ \A j, n \in DOMAIN M : j < n => M[j].exch <= M[n].exch
  BY <1>5 DEF MpiExact, Carried
<1>7. Len(trail[q]) \in Nat /\ f \in Nat
  BY <1>1, <1>3, OpenLength
<1>8. e \in Nat
  <2>1. e \in 1 .. Len(trail[q])
    BY <1>6
  <2> HIDE DEF e, q
  <2> QED
    BY <1>7, <2>1
<1>9. OnWay(r, s, u, e)
  BY <1>4, <1>5, <1>8 DEF MpiExact
<1>10. e = f
  <2> SUFFICES ASSUME e # f
               PROVE  FALSE
    OBVIOUS
  <2>1. OnWay(r, s, v, f) /\ f < e
    BY <1>2, <1>4, <1>8, <1>9, OnWayFirst
  <2>2. PICK n \in DOMAIN M : M[n].var = v /\ M[n].exch = f
    BY <1>2, <1>5, <1>7, <2>1 DEF MpiExact
  <2>3. f \in 1 .. Len(trail[q])
    BY <1>6, <2>2
  <2>4. trail[q][f] = trail[r][f]
    BY <1>2, <1>3, <2>3, TrailsAgree
  <2>5. M[n].tag = M[k].tag
    BY <1>2, <1>6, <2>2, <2>4
  <2>6. n \in Nat /\ k \in Nat /\ n >= 1
    BY <1>4
  <2>7. ~ (n < k)
    <3> HIDE DEF M
    <3> QED
      BY <2>5, <2>6 DEF FirstWith, M
  <2>8. ~ (k < n)
    <3>1. k < n => e <= f
      BY <1>6, <2>2
    <3> HIDE DEF e, f
    <3> QED
      BY <1>7, <1>8, <2>1, <3>1
  <2> QED
    BY <2>1, <2>2, <2>6, <2>7, <2>8
<1>11. f \in 1 .. Len(trail[q])
  BY <1>6, <1>10
<1>12. trail[q][f] = trail[r][f]
  BY <1>2, <1>3, <1>11, TrailsAgree
<1>13. Swapped(trail[r][f].swap[u]) /\ TagIn(trail[r][f].swap, u) = TagIn(trail[r][f].swap, v)
  <2>1. SentIn(q, d, u, e)
    BY <1>9 DEF OnWay
  <2> QED
    BY <1>2, <1>6, <1>10, <1>12, <2>1 DEF SentIn
<1>14. u = v
  BY <1>2, <1>4, <1>13, TagTells
<1>15. M[k].steps = p.steps
  BY <1>2, <1>6, <1>10, <1>12, <1>14
<1> QED
  BY <1>10, <1>14, <1>15

(* What stays when one element has gone.                                   *)
LEMMA RemovedAll ==
  ASSUME NEW S, NEW q \in Seq(S), NEW i \in DOMAIN q, NEW j \in DOMAIN q, j # i
  PROVE  \E n \in DOMAIN RemoveAt(q, i) : RemoveAt(q, i)[n] = q[j]
<1>1. i \in 1 .. Len(q) /\ Len(q) \in Nat /\ j \in 1 .. Len(q)
  OBVIOUS
<1> DEFINE a == SubSeq(q, 1, i - 1)
           b == SubSeq(q, i + 1, Len(q))
           n == IF j < i THEN j ELSE j - 1
<1>2. a \in Seq(S) /\ Len(a) = i - 1 /\ \A m \in 1 .. i - 1 : a[m] = q[m]
  BY <1>1, SubSeqProperties
<1>3. b \in Seq(S) /\ Len(b) = Len(q) - i /\ \A m \in 1 .. Len(q) - i : b[m] = q[m + i]
  BY <1>1, SubSeqProperties
<1>4. RemoveAt(q, i) = a \o b
  BY DEF RemoveAt
<1> HIDE DEF a, b
<1>5. n \in DOMAIN (a \o b) /\ (a \o b)[n] = q[j]
  <2>1. CASE j < i
    BY <1>1, <1>2, <1>3, <2>1
  <2>2. CASE j > i
    <3>1. n = j - 1 /\ j - i \in 1 .. Len(q) - i /\ n = Len(a) + (j - i)
      BY <1>1, <1>2, <2>2
    <3>2. n \in DOMAIN (a \o b) /\ (a \o b)[n] = b[j - i]
      <4>1. a \in Seq(S) /\ b \in Seq(S)
        BY <1>2, <1>3
      <4>2. \A m \in 1 .. Len(b) : Len(a) + m \in DOMAIN (a \o b) /\ (a \o b)[Len(a) + m] = b[m]
        <5> TAKE m \in 1 .. Len(b)
        <5>1. Len(a) \in Nat /\ Len(b) \in Nat /\ DOMAIN (a \o b) = 1 .. Len(a \o b)
          BY <4>1, ConcatProperties
        <5>2. Len(a) + m \in 1 .. Len(a) + Len(b) /\ ~ (Len(a) + m <= Len(a))
              /\ Len(a) + m - Len(a) = m
          BY <5>1
        <5> QED
          BY ONLY <4>1, <5>1, <5>2, ConcatProperties
      <4> HIDE DEF n
      <4> QED
        BY <1>3, <3>1, <4>2
    <3>3. b[j - i] = q[j - i + i] /\ j - i + i = j
      BY <1>1, <1>3, <3>1, SMTT(60)
    <3> HIDE DEF n
    <3> QED
      BY <3>2, <3>3
  <2> QED
    BY <1>1, <2>1, <2>2
<1> QED
  BY <1>4, <1>5

(* What a link carries when a message has met its receive.                 *)
LEMMA MeetLink ==
  ASSUME AgreementInv, UniformCalls, NEW r \in Rank, NEW s \in Side, HasNbr(r, s),
         LinkInv(r, s), PostedNow(r), NEW i \in DOMAIN posted[r][s],
         NEW k \in DOMAIN chan[Nbr(r, s)][Opp(s)],
         posted[r][s][i].tag = chan[Nbr(r, s)][Opp(s)][k].tag,
         FirstWith(chan[Nbr(r, s)][Opp(s)], k),
         posted'[r][s] = RemoveAt(posted[r][s], i),
         chan'[Nbr(r, s)][Opp(s)] = RemoveAt(chan[Nbr(r, s)][Opp(s)], k),
         UNCHANGED <<calc, todo>>
  PROVE  LinkInv(r, s)'
<1> DEFINE q == Nbr(r, s)
           d == Opp(s)
           M == chan[q][d]
           N == RemoveAt(M, k)
           P == posted[r][s]
           v == P[i].var
           f == Len(trail[r])
<1>1. HaloInv /\ RequestInv(r) /\ ExchangeInv(r) /\ q \in Rank /\ d \in Side
  BY LinkEnds DEF AgreementInv, RequestsInv
<1>2. /\ v \in Var /\ RecvBuf(v, s) /\ ~UsesShm(r, s) /\ Awaits(r, s, v)
      /\ It(HaloIrecv, v, s) \notin todo[r]
      /\ f \in 1 .. f /\ Swapped(trail[r][f].swap[v])
  BY <1>1, PostedAwaits
<1>3. M[k].var = v /\ M[k].exch = f /\ k \in DOMAIN M
  BY Meets
<1>4. M \in Seq(Message) /\ P \in Seq(Posting) /\ f \in Nat
  BY <1>1, HeldType, OpenLength
<1>5. MpiExact(r, s) /\ GotSent(r, s)
  BY <1>2 DEF LinkInv
<1>6. /\ \A n \in DOMAIN M :
           /\ M[n].exch \in 1 .. Len(trail[q])
           /\ M[n].tag = TagIn(trail[q][M[n].exch].swap, M[n].var)
           /\ M[n].steps = trail[q][M[n].exch].swap[M[n].var]
      /\ \A j, n \in DOMAIN M : j < n => M[j].exch <= M[n].exch
      /\ \A j, n \in DOMAIN M : M[j].exch = M[n].exch /\ M[j].var = M[n].var => j = n
      /\ \A u \in Var, e \in Nat :
           OnWay(r, s, u, e) <=> \E n \in DOMAIN M : M[n].var = u /\ M[n].exch = e
  BY <1>5 DEF MpiExact, Carried
<1>7. trail' = trail /\ todo' = todo /\ chan'[q][d] = N
  BY DEF calc
<1>8. \A u \in Var : Awaits(r, s, u)' <=> Awaits(r, s, u) /\ u # v
  <2>1. \A j \in DOMAIN P, n \in DOMAIN P : P[j].var = P[n].var => j = n
    BY <1>1 DEF RequestInv, PostedActive
  <2> DEFINE Q == RemoveAt(P, i)
  <2>2. \A j \in DOMAIN Q : \E n \in DOMAIN P : n # i /\ Q[j] = P[n]
    BY <1>4, RemovedAt
  <2>3. \A n \in DOMAIN P : n # i => \E j \in DOMAIN Q : Q[j] = P[n]
    BY <1>4, RemovedAll
  <2>4. posted'[r][s] = Q
    OBVIOUS
  <2> HIDE DEF Q
  <2>5. \A u \in Var : (\E j \in DOMAIN Q : Q[j].var = u) <=>
          u # v /\ \E n \in DOMAIN P : P[n].var = u
    BY <2>1, <2>2, <2>3
  <2> QED
    BY <1>2, <1>7, <2>4, <2>5 DEF Awaits
<1>9. \A u \in Var, e \in Nat : GotIn(r, s, u, e)' <=> GotIn(r, s, u, e) \/ (u = v /\ e = f)
  <2> SUFFICES ASSUME NEW u \in Var, NEW e \in Nat
               PROVE  GotIn(r, s, u, e)' <=> GotIn(r, s, u, e) \/ (u = v /\ e = f)
    OBVIOUS
  <2>1. Awaits(r, s, u)' <=> Awaits(r, s, u) /\ u # v
    BY <1>8
  <2>2. trail'[r] = trail[r]
    BY <1>7
  <2>3. CASE u = v
    <3> HIDE DEF v
    <3> QED
      BY <1>2, <2>1, <2>2, <2>3 DEF GotIn
  <2>4. CASE u # v
    <3> HIDE DEF v
    <3> QED
      BY <2>1, <2>2, <2>4 DEF GotIn
  <2> QED
    BY <2>3, <2>4
<1>10. \A u \in Var, e \in Nat : SentIn(q, d, u, e)' <=> SentIn(q, d, u, e)
  BY <1>7 DEF SentIn
<1>11. \A u \in Var, e \in Nat : OnWay(r, s, u, e)' <=> OnWay(r, s, u, e) /\ ~(u = v /\ e = f)
  BY <1>9, <1>10 DEF OnWay
<1>12. OnWay(r, s, v, f)
  BY <1>2, <1>3, <1>4, <1>6
<1>13. GotSent(r, s)'
  BY <1>5, <1>9, <1>10, <1>12 DEF GotSent, OnWay
<1>14. \A j \in DOMAIN N : LET n == IF j < k THEN j ELSE j + 1
                           IN  n \in DOMAIN M /\ n # k /\ N[j] = M[n]
  BY <1>4, RemovedAt
<1>15. \A n \in DOMAIN M : n # k => \E j \in DOMAIN N : N[j] = M[n]
  BY <1>4, RemovedAll
<1>16. DOMAIN N \subseteq Nat /\ k \in Nat
  <2>1. N \in Seq(Message)
    BY <1>4, RemoveAtType
  <2>2. DOMAIN N = 1 .. Len(N) /\ Len(N) \in Nat
    BY <2>1
  <2> HIDE DEF N
  <2> QED
    BY <1>4, <2>2
<1> HIDE DEF N, M, v, f, q, d
<1>17. \A j, n \in DOMAIN N : j < n => N[j].exch <= N[n].exch
  <2> SUFFICES ASSUME NEW j \in DOMAIN N, NEW n \in DOMAIN N, j < n
               PROVE  N[j].exch <= N[n].exch
    OBVIOUS
  <2> DEFINE a == IF j < k THEN j ELSE j + 1
             b == IF n < k THEN n ELSE n + 1
  <2>1. a \in DOMAIN M /\ b \in DOMAIN M /\ N[j] = M[a] /\ N[n] = M[b]
    BY <1>14
  <2>2. a < b
    BY <1>16
  <2> HIDE DEF a, b
  <2> QED
    BY <1>6, <2>1, <2>2
<1>18. \A j, n \in DOMAIN N : N[j].exch = N[n].exch /\ N[j].var = N[n].var => j = n
  <2> SUFFICES ASSUME NEW j \in DOMAIN N, NEW n \in DOMAIN N,
                      N[j].exch = N[n].exch, N[j].var = N[n].var
               PROVE  j = n
    OBVIOUS
  <2> DEFINE a == IF j < k THEN j ELSE j + 1
             b == IF n < k THEN n ELSE n + 1
  <2>1. a \in DOMAIN M /\ b \in DOMAIN M /\ N[j] = M[a] /\ N[n] = M[b]
    BY <1>14
  <2>2. a = b => j = n
    BY <1>16
  <2> HIDE DEF a, b
  <2> QED
    BY <1>6, <2>1, <2>2
<1>19. \A j \in DOMAIN N : \E n \in DOMAIN M : n # k /\ N[j] = M[n]
  BY <1>14
<1>20. Carried(q, d)'
  BY <1>6, <1>7, <1>17, <1>18, <1>19 DEF Carried
<1>21. \A u \in Var, e \in Nat :
         OnWay(r, s, u, e)' <=> \E n \in DOMAIN N : N[n].var = u /\ N[n].exch = e
  <2> SUFFICES ASSUME NEW u \in Var, NEW e \in Nat
               PROVE  OnWay(r, s, u, e)' <=> \E n \in DOMAIN N : N[n].var = u /\ N[n].exch = e
    OBVIOUS
  <2>1. ASSUME NEW n \in DOMAIN N, N[n].var = u, N[n].exch = e
        PROVE  OnWay(r, s, u, e)'
    <3>1. PICK j \in DOMAIN M : j # k /\ M[j].var = u /\ M[j].exch = e
      BY <1>19, <2>1
    <3>2. OnWay(r, s, u, e)
      BY <1>6, <3>1
    <3>3. ~ (u = v /\ e = f)
      BY <1>3, <1>6, <3>1
    <3> QED
      BY <1>11, <3>2, <3>3
  <2>2. ASSUME OnWay(r, s, u, e)'
        PROVE  \E n \in DOMAIN N : N[n].var = u /\ N[n].exch = e
    <3>1. OnWay(r, s, u, e) /\ ~(u = v /\ e = f)
      BY <1>11, <2>2
    <3>2. PICK n \in DOMAIN M : M[n].var = u /\ M[n].exch = e
      BY <1>6, <3>1
    <3>3. n # k
      BY <1>3, <3>1, <3>2
    <3> QED
      BY <1>15, <3>2, <3>3
  <2> QED
    BY <2>1, <2>2
<1>22. MpiExact(r, s)'
  BY <1>7, <1>20, <1>21 DEF MpiExact, q, d
<1> QED
  BY <1>2, <1>13, <1>22 DEF LinkInv

(* A message that is copied stays the same message.                        *)
LEMMA CopyLink ==
  ASSUME HaloInv, NEW r \in Rank, NEW s \in Side, HasNbr(r, s), LinkInv(r, s),
         ~UsesShm(r, s), UNCHANGED <<calc, todo, posted>>,
         NEW N, chan'[Nbr(r, s)][Opp(s)] = N,
         DOMAIN N = DOMAIN chan[Nbr(r, s)][Opp(s)],
         \A k \in DOMAIN N :
           LET m == chan[Nbr(r, s)][Opp(s)][k]
           IN  /\ N[k].tag = m.tag /\ N[k].var = m.var
               /\ N[k].steps = m.steps /\ N[k].exch = m.exch
  PROVE  LinkInv(r, s)'
<1> DEFINE q == Nbr(r, s)
           d == Opp(s)
           M == chan[q][d]
<1>1. MpiExact(r, s) /\ GotSent(r, s)
  BY DEF LinkInv
<1>2. \A u \in Var, e \in Nat : SentIn(q, d, u, e)' <=> SentIn(q, d, u, e)
  BY DEF SentIn, calc
<1>3. \A u \in Var, e \in Nat : GotIn(r, s, u, e)' <=> GotIn(r, s, u, e)
  BY DEF GotIn, Awaits, calc
<1>4. GotSent(r, s)'
  BY <1>1, <1>2, <1>3 DEF GotSent
<1>5. \A u \in Var, e \in Nat : OnWay(r, s, u, e)' <=> OnWay(r, s, u, e)
  BY <1>2, <1>3 DEF OnWay
<1>6. /\ DOMAIN N = DOMAIN M /\ chan'[q][d] = N /\ trail' = trail
      /\ \A k \in DOMAIN N : /\ N[k].tag = M[k].tag /\ N[k].var = M[k].var
                             /\ N[k].steps = M[k].steps /\ N[k].exch = M[k].exch
  BY DEF calc
<1>7. /\ \A n \in DOMAIN M :
           /\ M[n].exch \in 1 .. Len(trail[q])
           /\ M[n].tag = TagIn(trail[q][M[n].exch].swap, M[n].var)
           /\ M[n].steps = trail[q][M[n].exch].swap[M[n].var]
      /\ \A j, n \in DOMAIN M : j < n => M[j].exch <= M[n].exch
      /\ \A j, n \in DOMAIN M : M[j].exch = M[n].exch /\ M[j].var = M[n].var => j = n
      /\ \A u \in Var, e \in Nat :
           OnWay(r, s, u, e) <=> \E n \in DOMAIN M : M[n].var = u /\ M[n].exch = e
  BY <1>1 DEF MpiExact, Carried
<1> HIDE DEF M, q, d
<1>8. Carried(q, d)'
  BY <1>6, <1>7 DEF Carried
<1>9. \A u \in Var, e \in Nat :
        OnWay(r, s, u, e)' <=> \E n \in DOMAIN N : N[n].var = u /\ N[n].exch = e
  BY <1>5, <1>6, <1>7
<1>10. MpiExact(r, s)'
  BY <1>6, <1>8, <1>9 DEF MpiExact, q, d
<1> QED
  BY <1>4, <1>10 DEF LinkInv

(* A rank that awaits something is in an exchange.                         *)
LEMMA AwaitsInside ==
  ASSUME HaloInv, NEW r \in Rank, RequestInv(r), NEW v \in Var, NEW s \in Side,
         Awaits(r, s, v)
  PROVE  pc[r] \in InExchange /\ At(r) \in Exchanges
<1>1. pc[r] \in InExchange
  BY QuietOutside DEF InExchange
<1> QED
  BY <1>1 DEF InExchange, Whole, Halfway, At, Ending, Exchanges

(* When a rank may release its shared buffers its neighbours have read     *)
(* them: they have come to the barrier, or have gone beyond it, and in     *)
(* both cases are done with the exchanges it has sent in.                  *)
LEMMA ReleasedEmpty ==
  ASSUME AgreementInv, UniformCalls, NEW r \in Rank, NEW s \in Side, HasNbr(r, s),
         LinkInv(r, s), UsesShm(r, s), pc[Nbr(r, s)] = "barrier",
         CurCall(Nbr(r, s)).kind \in {"end", "prepare"},
         GlobalBarrier(Nbr(r, s), Barriers), NEW v \in Var
  PROVE  ~full[Nbr(r, s)][v][Opp(s)]
<1> DEFINE x == Nbr(r, s)
           d == Opp(s)
           f == Len(trail[r])
<1>1. /\ HaloInv /\ RequestInv(r) /\ x \in Rank /\ d \in Side
      /\ (SendBuf(v, d) => RecvBuf(v, s))
  BY LinkEnds DEF AgreementInv, RequestsInv
<1>2. SUFFICES ASSUME full[x][v][d]
               PROVE  FALSE
  OBVIOUS
<1>3. PICK e \in Nat : OnWay(r, s, v, e)
  BY <1>2 DEF LinkInv, ShmExact
<1>4. /\ e \in 1 .. Len(trail[x]) /\ Swapped(trail[x][e].swap[v]) /\ RecvBuf(v, s)
      /\ ~GotIn(r, s, v, e) /\ e >= f
  BY <1>1, <1>3, OnWayNow DEF OnWay, SentIn
<1>5. Prog(x) \in ProgState /\ Prog(r) \in ProgState
  BY <1>1, ProgType
<1>6. /\ Prog(x).op = op[x] /\ Prog(x).trail = trail[x] /\ Prog(r).trail = trail[r]
      /\ Prog(x).at = At(x) /\ Prog(r).at = At(r)
      /\ Prog(r).op = IF Tuned(r) THEN op[r] + 1 ELSE op[r]
  BY <1>1, ProgFields DEF Tuned
<1>7. f \in Nat /\ Len(trail[x]) \in Nat
  BY <1>1, OpenLength
<1>8. op[r] \in Nat /\ op[x] \in Nat
  BY <1>1 DEF HaloInv, TypeOK
<1> HIDE DEF x, d, f
<1>9. CASE op[r] = op[x] /\ pc[r] \in Barriers
  <2>1. CurCall(r) = CurCall(x)
    BY <1>9 DEF CurCall
  <2>2. ~Tuned(r)
    BY <2>1 DEF Tuned, x
  <2>3. /\ At(r) = At(x) /\ At(r) \in {"call", "ending"}
    <3>1. CASE CurCall(x).kind = "end"
      <4>1. pc[r] = "barrier"
        BY <1>1, <1>9, <2>1, <3>1 DEF RequestInv, PlaceInCall, Barriers
      <4> QED
        BY <2>1, <3>1, <4>1 DEF At, Ending, Halfway, x
    <3>2. CASE CurCall(x).kind = "prepare"
      BY <1>9, <2>1, <3>2 DEF At, Ending, Halfway, Barriers, x
    <3> QED
      BY <3>1, <3>2 DEF x
  <2>4. ~Later(Prog(r), Prog(x)) /\ ~Later(Prog(x), Prog(r))
    BY <1>6, <1>8, <1>9, <2>2, <2>3 DEF Later, Stage
  <2>5. Prog(r) = Prog(x)
    BY <1>1, <1>5, <2>4, SameProg
  <2>6. trail[r] = trail[x]
    BY <1>6, <2>5
  <2>7. ~Awaits(r, s, v)
    BY <1>1, <1>9, AwaitsInside DEF InExchange, Whole, Halfway, Barriers
  <2> QED
    BY <1>4, <2>6, <2>7 DEF GotIn
<1>10. CASE op[r] > op[x]
  <2>1. Prog(r).op > Prog(x).op
    BY <1>6, <1>8, <1>10
  <2>2. ~Between(Prog(r), Prog(x))
    BY <1>6, <1>8, <2>1 DEF Between, Later
  <2>3. Between(Prog(x), Prog(r))
    <3>1. Reach(Prog(r), Prog(x)) \/ Reach(Prog(x), Prog(r))
      BY <1>1 DEF AgreementInv, Together
    <3> QED
      BY <1>5, <2>2, <3>1, ReachBetween
  <2>4. /\ Len(trail[x]) <= f
        /\ \A i \in 1 .. Len(trail[x]) : trail[x][i] = trail[r][i]
        /\ At(r) \in Exchanges => Len(trail[x]) < f
    BY <1>6, <1>8, <2>1, <2>3 DEF Between, Begins, f
  <2>5. e = f /\ Len(trail[x]) = f
    BY <1>4, <1>7, <2>4
  <2>6. ~Awaits(r, s, v)
    BY <1>1, <1>7, <2>4, <2>5, AwaitsInside
  <2>7. trail[r][e] = trail[x][e]
    BY <1>4, <2>4
  <2> QED
    BY <1>4, <2>5, <2>6, <2>7 DEF GotIn, f
<1> QED
  <2>1. Reached(r, x, Barriers)
    BY DEF GlobalBarrier, x
  <2> QED
    BY <1>9, <1>10, <2>1 DEF Reached

-----------------------------------------------------------------------------
(* All links.                                                              *)

LEMMA AllKept ==
  ASSUME HaloInv, HaloInv', chan' = chan,
         \A y \in Rank : SentKept(y) /\ GotKept(y) /\ Begins(trail[y], trail'[y]),
         NEW r \in Rank, NEW s \in Side, HasNbr(r, s) => LinkInv(r, s),
         HasNbr(r, s) /\ UsesShm(r, s) =>
           \A v \in Var : full'[Nbr(r, s)][v][Opp(s)] = full[Nbr(r, s)][v][Opp(s)]
  PROVE  LinkInv(r, s)'
<1>1. ASSUME HasNbr(r, s), NEW v \in Var, NEW e \in Nat
      PROVE  /\ SentIn(Nbr(r, s), Opp(s), v, e)' <=> SentIn(Nbr(r, s), Opp(s), v, e)
             /\ GotIn(r, s, v, e)' <=> GotIn(r, s, v, e)
  <2>1. Nbr(r, s) \in Rank /\ Opp(s) \in Side /\ HasNbr(Nbr(r, s), Opp(s))
    BY <1>1, LinkEnds
  <2> QED
    BY <1>1, <2>1 DEF SentKept, GotKept
<1>2. HasNbr(r, s) => Begins(trail[Nbr(r, s)], trail'[Nbr(r, s)])
  BY LinkEnds
<1> QED
  BY <1>1, <1>2, LinkKept

(* The ranks that do not make a step.                                      *)
LEMMA OthersView ==
  ASSUME HaloInv, NEW x \in Rank, RankStep(x), NEW y \in Rank, y # x
  PROVE  /\ SentKept(y) /\ GotKept(y)
         /\ trail'[y] = trail[y] /\ todo'[y] = todo[y] /\ pc'[y] = pc[y]
         /\ posted'[y] = posted[y] /\ chan'[y] = chan[y]
<1>1. Same(y) /\ SameExchange(y)
  BY StepOthers, StepOthersExchange
<1> QED
  BY <1>1, OtherView DEF Same, SameExchange

(* A rank sends, by message or in shared memory.                           *)
LEMMA SendLinks ==
  ASSUME AgreementInv, HaloInv', NEW x \in Rank, BuffersDue(x), NEW v \in Var, NEW d \in Side,
         PackIsend(x, v, d) \/ PackShm(x, v, d),
         \A y \in Rank : y # x => SentKept(y) /\ GotKept(y),
         NEW r \in Rank, NEW s \in Side, LinkInv(r, s)
  PROVE  LinkInv(r, s)'
<1>1. HaloInv /\ RequestInv(x) /\ ExchangeInv(x)
  BY DEF AgreementInv, RequestsInv
<1>2. /\ GotKept(x) /\ trail' = trail
      /\ \A c \in Side, u \in Var, e \in Nat : c # d => (SentIn(x, c, u, e)' <=> SentIn(x, c, u, e))
  BY <1>1, SendView
<1>3. GotKept(r)
  BY <1>2
<1>4. CASE HasNbr(r, s) /\ Nbr(r, s) = x /\ Opp(s) = d
  <2>1. CASE PackIsend(x, v, d)
    BY <1>1, <1>3, <1>4, <2>1, IsendLink
  <2>2. CASE PackShm(x, v, d)
    BY <1>1, <1>3, <1>4, <2>2, WriteLink
  <2> QED
    BY <2>1, <2>2
<1>5. CASE HasNbr(r, s) /\ ~(Nbr(r, s) = x /\ Opp(s) = d)
  <2> DEFINE q == Nbr(r, s)
             c == Opp(s)
  <2>1. q \in Rank /\ c \in Side /\ HasNbr(q, c)
    BY <1>5, LinkEnds
  <2>2. ASSUME NEW u \in Var, NEW e \in Nat
        PROVE  /\ SentIn(q, c, u, e)' <=> SentIn(q, c, u, e)
               /\ GotIn(r, s, u, e)' <=> GotIn(r, s, u, e)
    <3>1. GotIn(r, s, u, e)' <=> GotIn(r, s, u, e)
      BY <1>3, <1>5 DEF GotKept
    <3>2. CASE q = x
      BY <1>2, <1>5, <2>1, <3>1, <3>2
    <3>3. CASE q # x
      BY <2>1, <3>1, <3>3 DEF SentKept
    <3> QED
      BY <3>2, <3>3
  <2>3. chan'[q][c] = chan[q][c]
    <3>1. CASE PackIsend(x, v, d)
      <4>1. chan \in [Rank -> [Side -> Seq(Message)]]
        BY <1>1 DEF HaloInv, TypeOK
      <4> QED
        BY <1>5, <2>1, <3>1, <4>1 DEF PackIsend
    <3>2. CASE PackShm(x, v, d)
      BY <3>2 DEF PackShm, net
    <3> QED
      BY <3>1, <3>2
  <2>4. \A u \in Var : full'[q][u][c] = full[q][u][c]
    <3>1. CASE PackIsend(x, v, d)
      BY <3>1 DEF PackIsend
    <3>2. CASE PackShm(x, v, d)
      <4>1. full \in [Rank -> [Var -> [Side -> BOOLEAN]]]
        BY <1>1 DEF HaloInv, TypeOK
      <4>2. full' = [full EXCEPT ![x][v][d] = TRUE] /\ ~ (q = x /\ c = d)
        BY <1>5, <3>2 DEF PackShm
      <4> HIDE DEF q, c
      <4> QED
        BY <2>1, <4>1, <4>2
    <3> QED
      BY <3>1, <3>2
  <2>5. Begins(trail[q], trail'[q])
    BY <1>1, <1>2, <2>1, BeginsSelf
  <2> HIDE DEF q, c
  <2> QED
    BY <1>1, <2>2, <2>3, <2>4, <2>5, LinkKept DEF q, c
<1> QED
  BY <1>4, <1>5 DEF LinkInv

(* A rank reads a shared buffer.                                           *)
LEMMA ReadLinks ==
  ASSUME AgreementInv, UniformCalls, HaloInv', NEW x \in Rank, BuffersDue(x),
         NEW v \in Var, NEW t \in Side, UnpackShm(x, v, t),
         \A y \in Rank : y # x => SentKept(y) /\ GotKept(y),
         NEW r \in Rank, NEW s \in Side, LinkInv(r, s)
  PROVE  LinkInv(r, s)'
<1>1. HaloInv /\ RequestInv(x) /\ ExchangeInv(x)
  BY DEF AgreementInv, RequestsInv
<1>2. /\ SentKept(x) /\ chan' = chan /\ trail' = trail /\ HasNbr(x, t)
      /\ \A c \in Side, u \in Var, e \in Nat : c # t => (GotIn(x, c, u, e)' <=> GotIn(x, c, u, e))
  BY <1>1, ReadView
<1>3. \A y \in Rank : SentKept(y)
  BY <1>2
<1>4. CASE r = x /\ s = t
  <2>1. Nbr(x, t) \in Rank
    BY <1>2, LinkEnds
  <2> QED
    BY <1>3, <1>4, <2>1, ReadLink
<1>5. CASE HasNbr(r, s) /\ ~(r = x /\ s = t)
  <2> DEFINE q == Nbr(r, s)
             c == Opp(s)
  <2>1. q \in Rank /\ c \in Side /\ HasNbr(q, c)
    BY <1>5, LinkEnds
  <2>2. ASSUME NEW u \in Var, NEW e \in Nat
        PROVE  /\ SentIn(q, c, u, e)' <=> SentIn(q, c, u, e)
               /\ GotIn(r, s, u, e)' <=> GotIn(r, s, u, e)
    <3>1. SentIn(q, c, u, e)' <=> SentIn(q, c, u, e)
      BY <1>3, <2>1 DEF SentKept
    <3>2. CASE r = x
      BY <1>2, <1>5, <3>1, <3>2
    <3>3. CASE r # x
      BY <1>5, <3>1, <3>3 DEF GotKept
    <3> QED
      BY <3>2, <3>3
  <2>3. chan'[q][c] = chan[q][c]
    BY <1>2
  <2>4. \A u \in Var : full'[q][u][c] = full[q][u][c]
    <3>1. ~ (q = Nbr(x, t) /\ c = Opp(t))
      BY <1>2, <1>5, OneLink
    <3>2. full \in [Rank -> [Var -> [Side -> BOOLEAN]]]
      BY <1>1 DEF HaloInv, TypeOK
    <3>3. full' = [full EXCEPT ![Nbr(x, t)][v][Opp(t)] = FALSE]
      BY DEF UnpackShm
    <3>4. Nbr(x, t) \in Rank /\ Opp(t) \in Side
      BY <1>2, LinkEnds
    <3> HIDE DEF q, c
    <3> QED
      BY <2>1, <3>1, <3>2, <3>3, <3>4, ZenonT(60)
  <2>5. Begins(trail[q], trail'[q])
    BY <1>1, <1>2, <2>1, BeginsSelf
  <2> HIDE DEF q, c
  <2> QED
    BY <1>1, <2>2, <2>3, <2>4, <2>5, LinkKept DEF q, c
<1> QED
  BY <1>4, <1>5 DEF LinkInv

(* A rank leaves a barrier, and may release its buffers.                   *)
LEMMA BarrierLinks ==
  ASSUME AgreementInv, UniformCalls, HaloInv', NEW x \in Rank, LeaveBarrier(x),
         \A r \in Rank : NoStray(r),
         \A y \in Rank : SentKept(y) /\ GotKept(y), chan' = chan, trail' = trail,
         NEW r \in Rank, NEW s \in Side, LinkInv(r, s)
  PROVE  LinkInv(r, s)'
<1>1. HaloInv
  BY DEF AgreementInv, RequestsInv
<1>2. \A y \in Rank : Begins(trail[y], trail'[y])
  BY <1>1, BeginsSelf
<1>3. ASSUME HasNbr(r, s), UsesShm(r, s), NEW v \in Var
      PROVE  full'[Nbr(r, s)][v][Opp(s)] = full[Nbr(r, s)][v][Opp(s)]
  <2> DEFINE q == Nbr(r, s)
             d == Opp(s)
  <2>1. q \in Rank /\ d \in Side
    BY <1>3, LinkEnds
  <2>2. CASE CurCall(x).kind = "tune"
    <3>1. full' = full
      BY <2>2 DEF LeaveBarrier, bufs
    <3> QED
      BY <3>1
  <2>3. CASE CurCall(x).kind \in {"end", "prepare"}
    <3>1. /\ pc[x] = "barrier" /\ GlobalBarrier(x, Barriers)
          /\ full' = [full EXCEPT ![x] = [w \in Var |-> [t \in Side |-> FALSE]]]
      BY <2>3 DEF LeaveBarrier, Barriers, ReleaseMpiData
    <3>2. full \in [Rank -> [Var -> [Side -> BOOLEAN]]]
      BY <1>1 DEF HaloInv, TypeOK
    <3>3. CASE q # x
      <4> HIDE DEF q
      <4>1. full'[q] = full[q]
        BY <2>1, <3>1, <3>2, <3>3
      <4> QED
        BY <4>1 DEF q
    <3>4. CASE q = x
      <4>1. ~full[q][v][d]
        BY <1>3, <2>3, <3>1, <3>4, ReleasedEmpty
      <4> HIDE DEF q, d
      <4>2. full[q][v][d] = FALSE
        BY <2>1, <3>2, <4>1
      <4>3. full'[q] = [w \in Var |-> [c \in Side |-> FALSE]]
        BY <2>1, <3>1, <3>2, <3>4
      <4>4. full'[q][v][d] = FALSE
        BY <2>1, <4>3
      <4> QED
        BY <4>2, <4>4 DEF q, d
    <3> QED
      BY <3>3, <3>4
  <2>4. CurCall(x).kind \in {"tune", "end", "prepare"}
    BY DEF LeaveBarrier
  <2> QED
    BY <2>2, <2>3, <2>4
<1> QED
  BY <1>1, <1>2, <1>3, AllKept

(* A step of a rank.                                                       *)
LEMMA StepLinks ==
  ASSUME MatchInv, UniformCalls, HaloInv', NEW x \in Rank, RankStep(x),
         NEW r \in Rank, NEW s \in Side
  PROVE  LinkInv(r, s)'
<1>1. /\ AgreementInv /\ HaloInv /\ RequestInv(x) /\ ExchangeInv(x)
      /\ \A y \in Rank : PostedNow(y) /\ NoStray(y) /\ BuffersDue(y)
      /\ LinkInv(r, s)
  BY DEF MatchInv, AgreementInv, RequestsInv
<1>2. \A y \in Rank : y # x => SentKept(y) /\ GotKept(y) /\ trail'[y] = trail[y]
  BY <1>1, OthersView
<1>3. ASSUME SentKept(x), GotKept(x), chan' = chan, full' = full,
             trail' = trail \/ \E e \in ExchangeRecord : trail'[x] = Append(trail[x], e)
      PROVE  LinkInv(r, s)'
  <2>1. ASSUME NEW y \in Rank
        PROVE  Begins(trail[y], trail'[y])
    <3>1. Begins(trail[y], trail[y]) /\ trail[y] \in Seq(ExchangeRecord)
      BY <1>1, BeginsSelf, OpenLength
    <3>2. CASE trail'[y] = trail[y]
      BY <3>1, <3>2
    <3>3. CASE y = x /\ \E e \in ExchangeRecord : trail'[x] = Append(trail[x], e)
      <4>1. PICK e \in ExchangeRecord : trail'[y] = Append(trail[y], e)
        BY <3>3
      <4> QED
        BY <3>1, <4>1, BeginsAppend
    <3> QED
      BY <1>2, <1>3, <3>2, <3>3
  <2>2. \A y \in Rank : SentKept(y) /\ GotKept(y) /\ Begins(trail[y], trail'[y])
    BY <1>2, <1>3, <2>1
  <2> QED
    BY <1>1, <1>3, <2>2, AllKept
<1>4. CASE BeginRun(x) \/ BeginEnd(x) \/ EvalExterior(x) \/ EvalAll(x)
  BY <1>1, <1>3, <1>4, BeginView
<1>5. CASE \/ SkipPack(x) \/ ExchangeDone(x) \/ Fill(x) \/ SetSlice(x) \/ SetElems(x)
           \/ SetPoint(x) \/ BeginPrepare(x) \/ LeaveBarrier(x) \/ LeaveAllocBarrier(x)
           \/ LeaveShmBarrier(x) \/ (\E k \in TuneSteps : Tune(x, k))
  <2>1. /\ SentKept(x) /\ GotKept(x) /\ chan' = chan /\ trail' = trail
        /\ ~LeaveBarrier(x) => full' = full
    BY <1>1, <1>5, QuietView
  <2>2. CASE LeaveBarrier(x)
    BY <1>1, <1>2, <2>1, <2>2, BarrierLinks
  <2> QED
    BY <1>3, <2>1, <2>2
<1>6. CASE EvalInterior(x)
  BY <1>1, <1>3, <1>6, InteriorView
<1>7. ASSUME NEW v \in Var, NEW t \in Side,
             \/ Irecv(x, v, t) \/ PackIsend(x, v, t) \/ PackShm(x, v, t)
             \/ UnpackMpi(x, v, t) \/ UnpackShm(x, v, t) \/ Final(x, v, t)
      PROVE  LinkInv(r, s)'
  <2>1. CASE Irecv(x, v, t)
    BY <1>1, <1>3, <2>1, IrecvView
  <2>2. CASE UnpackMpi(x, v, t) \/ Final(x, v, t)
    BY <1>1, <1>3, <2>2, OtherItemView
  <2>3. CASE PackIsend(x, v, t) \/ PackShm(x, v, t)
    BY <1>1, <1>2, <2>3, SendLinks
  <2>4. CASE UnpackShm(x, v, t)
    BY <1>1, <1>2, <2>4, ReadLinks
  <2> QED
    BY <1>7, <2>1, <2>2, <2>3, <2>4
<1> QED
  BY <1>4, <1>5, <1>6, <1>7 DEF RankStep

LEMMA DeliverLinks ==
  ASSUME MatchInv, UniformCalls, HaloInv', NEW y \in Rank, NEW t \in Side, Deliver(y, t),
         NEW r \in Rank, NEW s \in Side
  PROVE  LinkInv(r, s)'
<1> DEFINE p == Nbr(y, t)
           b == Opp(t)
<1>1. AgreementInv /\ HaloInv /\ PostedNow(y) /\ LinkInv(y, t) /\ LinkInv(r, s)
  BY DEF MatchInv, AgreementInv, RequestsInv
<1>2. HasNbr(y, t) /\ UNCHANGED <<calc, todo, full>>
  BY DEF Deliver
<1>3. p \in Rank /\ b \in Side
  BY <1>2, LinkEnds
<1>4. PICK i \in DOMAIN posted[y][t], k \in DOMAIN chan[p][b] :
        /\ posted[y][t][i].tag = chan[p][b][k].tag
        /\ FirstWith(chan[p][b], k)
        /\ posted' = [posted EXCEPT ![y][t] = RemoveAt(@, i)]
        /\ chan' = [chan EXCEPT ![p][b] = RemoveAt(@, k)]
  BY DEF Deliver
<1>5. posted \in [Rank -> [Side -> Seq(Posting)]] /\ chan \in [Rank -> [Side -> Seq(Message)]]
  BY <1>1 DEF HaloInv, TypeOK
<1>6. \A z \in Rank, c \in Side :
        /\ posted'[z][c] = IF z = y /\ c = t THEN RemoveAt(posted[y][t], i) ELSE posted[z][c]
        /\ chan'[z][c] = IF z = p /\ c = b THEN RemoveAt(chan[p][b], k) ELSE chan[z][c]
  <2> HIDE DEF p, b
  <2> QED
    BY <1>3, <1>4, <1>5
<1>7. CASE r = y /\ s = t
  <2>1. /\ posted'[y][t] = RemoveAt(posted[y][t], i)
        /\ chan'[p][b] = RemoveAt(chan[p][b], k)
    BY <1>3, <1>6
  <2>2. LinkInv(y, t)'
    BY <1>1, <1>2, <1>4, <2>1, MeetLink
  <2> QED
    BY <1>7, <2>2
<1>8. CASE HasNbr(r, s) /\ ~(r = y /\ s = t)
  <2> DEFINE q == Nbr(r, s)
             c == Opp(s)
  <2>1. q \in Rank /\ c \in Side
    BY <1>8, LinkEnds
  <2>2. ~ (q = p /\ c = b)
    BY <1>2, <1>8, OneLink
  <2>3. chan'[q][c] = chan[q][c] /\ posted'[r][s] = posted[r][s]
    BY <1>6, <1>8, <2>1, <2>2
  <2>4. trail' = trail /\ todo' = todo /\ pc' = pc
    BY <1>2 DEF calc
  <2>5. ASSUME NEW u \in Var, NEW e \in Nat
        PROVE  /\ SentIn(q, c, u, e)' <=> SentIn(q, c, u, e)
               /\ GotIn(r, s, u, e)' <=> GotIn(r, s, u, e)
    <3>1. SentIn(q, c, u, e)' <=> SentIn(q, c, u, e)
      BY <2>4 DEF SentIn
    <3>2. Awaits(r, s, u)' <=> Awaits(r, s, u)
      BY <2>3, <2>4 DEF Awaits
    <3>3. GotIn(r, s, u, e)' <=> GotIn(r, s, u, e)
      BY <2>4, <3>2 DEF GotIn
    <3> QED
      BY <3>1, <3>3
  <2>6. Begins(trail[q], trail'[q])
    BY <1>1, <2>1, <2>4, BeginsSelf
  <2>7. full' = full
    BY <1>2
  <2> HIDE DEF q, c
  <2> QED
    BY <1>1, <2>3, <2>5, <2>6, <2>7, LinkKept DEF q, c
<1> QED
  BY <1>7, <1>8 DEF LinkInv

LEMMA EagerLinks ==
  ASSUME MatchInv, UniformCalls, HaloInv', NEW y \in Rank, NEW t \in Side, Eager(y, t),
         NEW r \in Rank, NEW s \in Side
  PROVE  LinkInv(r, s)'
<1>1. HaloInv /\ LinkInv(r, s) /\ NoStray(y)
  BY DEF MatchInv, AgreementInv, RequestsInv
<1>2. UNCHANGED <<calc, todo, posted, full>>
  BY DEF Eager, bufs
<1>3. PICK k \in DOMAIN chan[y][t] :
        chan' = [chan EXCEPT ![y][t][k] =
                  [chan[y][t][k] EXCEPT !.eager = TRUE,
                                        !.data = sendBuf[y][chan[y][t][k].var][t]]]
  BY DEF Eager
<1> DEFINE m == chan[y][t][k]
           n == [m EXCEPT !.eager = TRUE, !.data = sendBuf[y][m.var][t]]
<1>4. m \in Message /\ chan \in [Rank -> [Side -> Seq(Message)]]
  BY <1>1, HeldType DEF HaloInv, TypeOK
<1>5. n.tag = m.tag /\ n.var = m.var /\ n.steps = m.steps /\ n.exch = m.exch
  BY <1>4 DEF Message
<1>6. /\ \A z \in Rank, c \in Side : ~(z = y /\ c = t) => chan'[z][c] = chan[z][c]
      /\ DOMAIN chan'[y][t] = DOMAIN chan[y][t]
      /\ \A j \in DOMAIN chan[y][t] : chan'[y][t][j] = IF j = k THEN n ELSE chan[y][t][j]
  BY <1>3, <1>4
<1> HIDE DEF n
<1>7. CASE HasNbr(r, s) /\ Nbr(r, s) = y /\ Opp(s) = t
  <2>1. chan[y][t] # <<>>
    OBVIOUS
  <2>2. ~UsesShm(r, s)
    BY <1>1, <1>7, <2>1, LinkEnds DEF NoStray
  <2>3. \A j \in DOMAIN chan[y][t] :
          /\ chan'[y][t][j].tag = chan[y][t][j].tag /\ chan'[y][t][j].var = chan[y][t][j].var
          /\ chan'[y][t][j].steps = chan[y][t][j].steps
          /\ chan'[y][t][j].exch = chan[y][t][j].exch
    BY <1>5, <1>6
  <2> QED
    BY <1>1, <1>2, <1>6, <1>7, <2>2, <2>3, CopyLink
<1>8. CASE HasNbr(r, s) /\ ~(Nbr(r, s) = y /\ Opp(s) = t)
  <2>1. Nbr(r, s) \in Rank /\ Opp(s) \in Side
    BY <1>8, LinkEnds
  <2>2. chan'[Nbr(r, s)][Opp(s)] = chan[Nbr(r, s)][Opp(s)]
    BY <1>6, <1>8, <2>1
  <2>3. \A u \in Var, e \in Nat :
          /\ SentIn(Nbr(r, s), Opp(s), u, e)' <=> SentIn(Nbr(r, s), Opp(s), u, e)
          /\ GotIn(r, s, u, e)' <=> GotIn(r, s, u, e)
    BY <1>2 DEF SentIn, GotIn, Awaits, calc
  <2>4. Begins(trail[Nbr(r, s)], trail'[Nbr(r, s)])
    BY <1>1, <1>2, <2>1, BeginsSelf DEF calc
  <2> QED
    BY <1>1, <1>2, <2>2, <2>3, <2>4, LinkKept
<1> QED
  BY <1>7, <1>8 DEF LinkInv

-----------------------------------------------------------------------------
(* What each rank keeps by itself.                                         *)

LEMMA StrayKept ==
  ASSUME NEW y \in Rank, NoStray(y),
         \A d \in Side : chan'[y][d] # <<>> =>
           chan[y][d] # <<>> \/ (HasNbr(y, d) /\ ~UsesShm(y, d)),
         \A d \in Side, v \in Var : full'[y][v][d] =>
           full[y][v][d] \/ (HasNbr(y, d) /\ UsesShm(y, d))
  PROVE  NoStray(y)'
BY DEF NoStray

LEMMA StepStray ==
  ASSUME HaloInv, NEW x \in Rank, RequestInv(x), ExchangeInv(x), RankStep(x),
         NEW y \in Rank, NoStray(y)
  PROVE  NoStray(y)'
<1>t. full \in [Rank -> [Var -> [Side -> BOOLEAN]]] /\ chan \in [Rank -> [Side -> Seq(Message)]]
  BY DEF HaloInv, TypeOK
<1>1. CASE chan' = chan /\ full' = full
  BY <1>1, StrayKept
<1>2. CASE BeginRun(x) \/ BeginEnd(x) \/ EvalExterior(x) \/ EvalAll(x)
  BY <1>1, <1>2, BeginView
<1>3. CASE \/ SkipPack(x) \/ ExchangeDone(x) \/ Fill(x) \/ SetSlice(x) \/ SetElems(x)
           \/ SetPoint(x) \/ BeginPrepare(x) \/ LeaveBarrier(x) \/ LeaveAllocBarrier(x)
           \/ LeaveShmBarrier(x) \/ (\E k \in TuneSteps : Tune(x, k))
  <2>1. chan' = chan /\ (~LeaveBarrier(x) => full' = full)
    BY <1>3, QuietView
  <2>2. CASE LeaveBarrier(x)
    <3>1. \/ full' = full
          \/ full' = [full EXCEPT ![x] = [v \in Var |-> [s \in Side |-> FALSE]]]
      BY <2>2 DEF LeaveBarrier, ReleaseMpiData, bufs
    <3>2. ASSUME NEW d \in Side, NEW v \in Var, full'[y][v][d]
          PROVE  full[y][v][d]
      <4>1. CASE full' = [full EXCEPT ![x] = [w \in Var |-> [s \in Side |-> FALSE]]] /\ y = x
        <5>1. full'[x] = [w \in Var |-> [s \in Side |-> FALSE]]
          BY <1>t, <4>1
        <5> QED
          BY <3>2, <4>1, <5>1
      <4>2. CASE full' = [full EXCEPT ![x] = [w \in Var |-> [s \in Side |-> FALSE]]] /\ y # x
        <5>1. full'[y] = full[y]
          BY <1>t, <4>2
        <5> QED
          BY <3>2, <5>1
      <4> QED
        BY <3>1, <3>2, <4>1, <4>2
    <3> QED
      BY <2>1, <3>2, StrayKept
  <2> QED
    BY <1>1, <2>1, <2>2
<1>4. CASE EvalInterior(x)
  BY <1>1, <1>4, InteriorView
<1>5. ASSUME NEW v \in Var, NEW t \in Side,
             \/ Irecv(x, v, t) \/ PackIsend(x, v, t) \/ PackShm(x, v, t)
             \/ UnpackMpi(x, v, t) \/ UnpackShm(x, v, t) \/ Final(x, v, t)
      PROVE  NoStray(y)'
  <2>1. CASE Irecv(x, v, t) \/ UnpackMpi(x, v, t) \/ Final(x, v, t)
    BY <1>1, <2>1 DEF Irecv, UnpackMpi, Final, bufs, net
  <2>2. CASE PackIsend(x, v, t)
    <3>1. HasNbr(x, t) /\ ~UsesShm(x, t) /\ full' = full
      BY <2>2, HeadType DEF PackIsend, HaloInv
    <3>2. \A d \in Side : ~(y = x /\ d = t) => chan'[y][d] = chan[y][d]
      BY <1>t, <2>2 DEF PackIsend
    <3> QED
      BY <3>1, <3>2, StrayKept
  <2>3. CASE PackShm(x, v, t)
    <3>1. HasNbr(x, t) /\ UsesShm(x, t) /\ chan' = chan
      BY <2>3, HeadType DEF PackShm, HaloInv, net
    <3>2. full' = [full EXCEPT ![x][v][t] = TRUE]
      BY <2>3 DEF PackShm
    <3>3. \A d \in Side, u \in Var : full'[y][u][d] => (y = x /\ d = t) \/ full[y][u][d]
      BY <1>t, <3>2, LockSet
    <3> QED
      BY <3>1, <3>3, StrayKept
  <2>4. CASE UnpackShm(x, v, t)
    <3>1. HasNbr(x, t) /\ chan' = chan
      BY <2>4, HeadType DEF UnpackShm, HaloInv, net
    <3>2. Nbr(x, t) \in Rank /\ Opp(t) \in Side
      BY <3>1, LinkEnds
    <3>3. full' = [full EXCEPT ![Nbr(x, t)][v][Opp(t)] = FALSE]
      BY <2>4 DEF UnpackShm
    <3>4. \A d \in Side, u \in Var : full'[y][u][d] => full[y][u][d]
      BY <1>t, <3>2, <3>3, LockFreed
    <3> QED
      BY <3>1, <3>4, StrayKept
  <2> QED
    BY <1>5, <2>1, <2>2, <2>3, <2>4
<1> QED
  BY <1>2, <1>3, <1>4, <1>5 DEF RankStep

(* What is put on the list of things to do has a buffer.                   *)
LEMMA DueStarted ==
  ASSUME NEW x \in Rank, NEW sw, NEW e \in BOOLEAN, NEW i \in BOOLEAN,
         todo'[x] = TodoOf(x, sw, e, i)
  PROVE  BuffersDue(x)'
<1>1. ASSUME NEW v \in Var, NEW s \in Side
      PROVE  /\ It(HaloPackIsend, v, s) \in TodoOf(x, sw, e, i) => SendBuf(v, s)
             /\ It(HaloUnpack, v, s) \in TodoOf(x, sw, e, i) => RecvBuf(v, s)
  BY TodoOfItems
<1> QED
  BY <1>1 DEF BuffersDue

LEMMA DueKept ==
  ASSUME NEW x \in Rank, BuffersDue(x), todo'[x] \subseteq todo[x]
  PROVE  BuffersDue(x)'
BY DEF BuffersDue

LEMMA StepDue ==
  ASSUME HaloInv, NEW x \in Rank, RankStep(x), BuffersDue(x)
  PROVE  BuffersDue(x)'
<1>t. todo \in [Rank -> SUBSET Item]
  BY DEF HaloInv, TypeOK, TodoType
<1>1. TRUE \in BOOLEAN /\ FALSE \in BOOLEAN
  OBVIOUS
<1>2. ASSUME NEW f, NEW g, NEW e \in BOOLEAN, NEW i \in BOOLEAN, NEW n,
             StartExchange(x, f, g, e, i, n)
      PROVE  BuffersDue(x)'
  <2>1. todo'[x] = TodoOf(x, SwapOf(x, f, g), e, i)
    BY <1>t, <1>2 DEF StartExchange
  <2> QED
    BY ONLY <2>1, x \in Rank, e \in BOOLEAN, i \in BOOLEAN, DueStarted, Zenon
<1>3. CASE BeginRun(x) \/ BeginEnd(x)
  <2>1. StartExchange(x, first[x], dirty[x], TRUE, TRUE, 0)
    BY <1>3 DEF BeginRun, BeginEnd
  <2> QED
    BY <1>1, <1>2, <2>1
<1>4. CASE EvalExterior(x) \/ EvalAll(x)
  <2>1. \/ StartExchange(x, FirstAfter(x), DirtyAfter(x), TRUE, FALSE, 1)
        \/ StartExchange(x, FirstAfter(x), DirtyAfter(x), TRUE, TRUE, 1)
    BY <1>4 DEF EvalExterior, EvalAll
  <2> QED
    BY <1>1, <1>2, <2>1
<1>5. CASE EvalInterior(x)
  <2>1. StartExchange(x, FirstAfter(x), dirty[x], FALSE, TRUE, 0)
    BY <1>5 DEF EvalInterior
  <2> QED
    BY <1>1, <1>2, <2>1
<1>6. CASE \/ SkipPack(x) \/ ExchangeDone(x) \/ Fill(x) \/ SetSlice(x) \/ SetElems(x)
           \/ SetPoint(x) \/ BeginPrepare(x) \/ LeaveBarrier(x) \/ LeaveAllocBarrier(x)
           \/ LeaveShmBarrier(x) \/ (\E k \in TuneSteps : Tune(x, k))
  <2>1. todo' = todo
    BY <1>6 DEF SkipPack, ExchangeDone, Fill, SetSlice, SetElems, SetPoint, BeginPrepare,
         LeaveBarrier, LeaveAllocBarrier, LeaveShmBarrier, Tune
  <2> QED
    BY <2>1, DueKept
<1>7. ASSUME NEW v \in Var, NEW t \in Side,
             \/ Irecv(x, v, t) \/ PackIsend(x, v, t) \/ PackShm(x, v, t)
             \/ UnpackMpi(x, v, t) \/ UnpackShm(x, v, t) \/ Final(x, v, t)
      PROVE  BuffersDue(x)'
  <2>1. \E a : Done(x, a, v, t)
    BY <1>7 DEF Irecv, PackIsend, PackShm, UnpackMpi, UnpackShm, Final
  <2>2. todo'[x] \subseteq todo[x]
    BY <1>t, <2>1 DEF Done
  <2> QED
    BY <2>2, DueKept
<1> QED
  BY <1>3, <1>4, <1>5, <1>6, <1>7 DEF RankStep

LEMMA PostedKept ==
  ASSUME NEW x \in Rank, PostedNow(x), posted'[x] = posted[x], trail'[x] = trail[x]
  PROVE  PostedNow(x)'
BY DEF PostedNow, CurSwap

LEMMA StepPosted ==
  ASSUME HaloInv, NEW x \in Rank, RequestInv(x), ExchangeInv(x), RankStep(x), PostedNow(x)
  PROVE  PostedNow(x)'
<1>1. CASE BeginRun(x) \/ BeginEnd(x) \/ EvalExterior(x) \/ EvalAll(x)
  <2>1. pc[x] \notin Halfway /\ pc[x] \notin Whole /\ posted' = posted
    BY <1>1, BeginView DEF BeginRun, BeginEnd, EvalExterior, EvalAll, Calling, Whole, Halfway
  <2>2. \A s \in Side : posted[x][s] = <<>>
    BY <2>1, QuietOutside
  <2> QED
    BY <2>1, <2>2 DEF PostedNow
<1>2. CASE \/ SkipPack(x) \/ ExchangeDone(x) \/ Fill(x) \/ SetSlice(x) \/ SetElems(x)
           \/ SetPoint(x) \/ BeginPrepare(x) \/ LeaveBarrier(x) \/ LeaveAllocBarrier(x)
           \/ LeaveShmBarrier(x) \/ (\E k \in TuneSteps : Tune(x, k))
  BY <1>2, QuietView, PostedKept
<1>3. CASE EvalInterior(x)
  BY <1>3, InteriorView, PostedKept
<1>4. ASSUME NEW v \in Var, NEW t \in Side, Irecv(x, v, t)
      PROVE  PostedNow(x)'
  <2> DEFINE p == [tag |-> Tag(x, v), var |-> v, steps |-> swap[x][v]]
             P == posted[x][t]
  <2>1. /\ It(HaloIrecv, v, t) \in todo[x] /\ trail' = trail
        /\ \A d \in Side : posted'[x][d] = IF d = t THEN Append(P, p) ELSE posted[x][d]
    BY <1>4 DEF Irecv, IsHead, It, calc, HaloInv, TypeOK
  <2>2. swap[x] = CurSwap(x)
    <3>1. pc[x] \in Whole \cup {"exch_ext"}
      BY <2>1 DEF RequestInv, ThingsDue
    <3> QED
      BY <3>1 DEF ExchangeInv, HalvesSwap
  <2>3. Swapped(swap[x][v])
    BY <2>1 DEF ExchangeInv, SwapsInWindow, It
  <2>4. p.tag = TagIn(CurSwap(x), v) /\ p.var = v /\ p.steps = CurSwap(x)[v] /\ Swapped(p.steps)
    BY <2>2, <2>3, TagOfSwap
  <2>5. P \in Seq(Posting) /\ p \in Posting
    BY HeldType, TagNat DEF Posting, HaloInv, TypeOK
  <2>6. ASSUME NEW d \in Side, NEW i \in DOMAIN posted'[x][d]
        PROVE  LET o == posted'[x][d][i]
               IN  /\ o.tag = TagIn(CurSwap(x), o.var) /\ o.steps = CurSwap(x)[o.var]
                   /\ Swapped(o.steps)
    <3>1. CASE d # t
      BY <2>1, <2>6, <3>1 DEF PostedNow
    <3>2. CASE d = t
      <4> HIDE DEF p, P
      <4>1. i \in DOMAIN Append(P, p) /\ posted'[x][d][i] = Append(P, p)[i]
        BY <2>1, <2>6, <3>2
      <4>2. CASE Append(P, p)[i] = p
        BY <2>4, <4>1, <4>2
      <4>3. CASE i \in DOMAIN P /\ Append(P, p)[i] = P[i]
        BY <4>1, <4>3 DEF PostedNow, P
      <4> QED
        BY <2>5, <4>1, <4>2, <4>3, Appended
    <3> QED
      BY <3>1, <3>2
  <2>7. CurSwap(x)' = CurSwap(x)
    BY <2>1 DEF CurSwap
  <2> HIDE DEF p, P
  <2> QED
    BY <2>6, <2>7 DEF PostedNow
<1>5. ASSUME NEW v \in Var, NEW t \in Side,
             \/ PackIsend(x, v, t) \/ PackShm(x, v, t)
             \/ UnpackMpi(x, v, t) \/ UnpackShm(x, v, t) \/ Final(x, v, t)
      PROVE  PostedNow(x)'
  <2>1. posted' = posted /\ trail' = trail
    BY <1>5 DEF PackIsend, PackShm, UnpackMpi, UnpackShm, Final, calc, net
  <2> QED
    BY <2>1, PostedKept
<1> QED
  BY <1>1, <1>2, <1>3, <1>4, <1>5 DEF RankStep

-----------------------------------------------------------------------------
(* The inductive invariant.                                                *)

LEMMA ScriptKept ==
  ASSUME HaloInv, [Next]_vars
  PROVE  UniformCalls' => UniformCalls
<1>1. ASSUME NEW x \in Rank, RankStep(x)
      PROVE  script' = script
  <2>1. \E y \in Rank : y # x
    <3>1. 0 \in Rank /\ 1 \in Rank
      BY HaloAssumption DEF Rank
    <3> QED
      BY <3>1
  <2> QED
    BY <1>1, <2>1, StepOthersExchange DEF SameExchange
<1>2. script' = script
  BY <1>1, ZenonT(60) DEF Next, Poke, Deliver, Eager, vars, calc
<1> QED
  BY <1>2 DEF UniformCalls

RankParts(y) == PostedNow(y) /\ NoStray(y) /\ BuffersDue(y)

(* What a rank keeps when MPI, or it while it computes, makes a step.      *)
LEMMA NetParts ==
  ASSUME HaloInv, NEW y \in Rank, RankParts(y), UNCHANGED <<calc, todo, full>>,
         \A s \in Side : \A i \in DOMAIN posted'[y][s] :
           \E j \in DOMAIN posted[y][s] : posted'[y][s][i] = posted[y][s][j],
         \A s \in Side : chan'[y][s] # <<>> => chan[y][s] # <<>>
  PROVE  RankParts(y)'
<1>1. PostedNow(y)'
  BY DEF RankParts, PostedNow, CurSwap, calc
<1>2. NoStray(y)'
  BY StrayKept DEF RankParts
<1>3. BuffersDue(y)'
  BY DEF RankParts, BuffersDue
<1> QED
  BY <1>1, <1>2, <1>3 DEF RankParts

LEMMA DeliverParts ==
  ASSUME HaloInv, NEW y \in Rank, RankParts(y), NEW r \in Rank, NEW s \in Side, Deliver(r, s)
  PROVE  RankParts(y)'
<1> DEFINE p == Nbr(r, s)
           b == Opp(s)
<1>1. HasNbr(r, s) /\ UNCHANGED <<calc, todo, full>>
  BY DEF Deliver
<1>2. p \in Rank /\ b \in Side
  BY <1>1, LinkEnds
<1>3. PICK i \in DOMAIN posted[r][s], k \in DOMAIN chan[p][b] :
        /\ posted' = [posted EXCEPT ![r][s] = RemoveAt(@, i)]
        /\ chan' = [chan EXCEPT ![p][b] = RemoveAt(@, k)]
  BY DEF Deliver
<1>4. posted \in [Rank -> [Side -> Seq(Posting)]] /\ chan \in [Rank -> [Side -> Seq(Message)]]
  BY DEF HaloInv, TypeOK
<1>5. chan[p][b] # <<>>
  BY <1>3
<1> HIDE DEF p, b
<1>6. \A z \in Rank, c \in Side :
        /\ posted'[z][c] = IF z = r /\ c = s THEN RemoveAt(posted[r][s], i) ELSE posted[z][c]
        /\ chan'[z][c] = IF z = p /\ c = b THEN RemoveAt(chan[p][b], k) ELSE chan[z][c]
  BY <1>2, <1>3, <1>4
<1>7. ASSUME NEW c \in Side, NEW m \in DOMAIN posted'[y][c]
      PROVE  \E j \in DOMAIN posted[y][c] : posted'[y][c][m] = posted[y][c][j]
  <2>1. CASE y = r /\ c = s
    <3>1. posted[r][s] \in Seq(Posting) /\ posted'[y][c] = RemoveAt(posted[r][s], i)
      BY <1>4, <1>6, <2>1
    <3>2. \A n \in DOMAIN RemoveAt(posted[r][s], i) :
            \E j \in DOMAIN posted[r][s] : RemoveAt(posted[r][s], i)[n] = posted[r][s][j]
      BY <1>3, <3>1, RemovedAt
    <3> QED
      BY <1>7, <2>1, <3>1, <3>2
  <2>2. CASE ~(y = r /\ c = s)
    BY <1>6, <1>7, <2>2
  <2> QED
    BY <2>1, <2>2
<1>8. \A c \in Side : chan'[y][c] # <<>> => chan[y][c] # <<>>
  BY <1>5, <1>6
<1> QED
  BY <1>1, <1>7, <1>8, NetParts

LEMMA EagerParts ==
  ASSUME HaloInv, NEW y \in Rank, RankParts(y), NEW r \in Rank, NEW s \in Side, Eager(r, s)
  PROVE  RankParts(y)'
<1>1. UNCHANGED <<calc, todo, full, posted>>
  BY DEF Eager, bufs
<1>2. \E k \in DOMAIN chan[r][s] : \E m : chan' = [chan EXCEPT ![r][s][k] = m]
  BY DEF Eager
<1>3. \A c \in Side : chan'[y][c] # <<>> => chan[y][c] # <<>>
  <2>1. chan \in [Rank -> [Side -> Seq(Message)]] /\ chan[r][s] # <<>>
    BY <1>2 DEF HaloInv, TypeOK
  <2>2. \A c \in Side : ~(y = r /\ c = s) => chan'[y][c] = chan[y][c]
    BY <1>2, <2>1
  <2> QED
    BY <2>1, <2>2
<1> QED
  BY <1>1, <1>3, NetParts

LEMMA InitMatch == Init => MatchInv
<1> SUFFICES ASSUME Init
             PROVE  MatchInv
  OBVIOUS
<1>1. AgreementInv
  BY InitAgreement
<1>2. ASSUME NEW r \in Rank, NEW s \in Side
      PROVE  posted[r][s] = <<>> /\ chan[r][s] = <<>> /\ todo[r] = {} /\ trail[r] = <<>>
             /\ \A v \in Var : ~full[r][v][s]
  BY DEF Init
<1>3. ASSUME NEW r \in Rank
      PROVE  PostedNow(r) /\ NoStray(r) /\ BuffersDue(r)
  BY <1>2 DEF PostedNow, NoStray, BuffersDue, Side
<1>4. ASSUME NEW r \in Rank, NEW s \in Side
      PROVE  LinkInv(r, s)
  <2> SUFFICES ASSUME HasNbr(r, s)
               PROVE  LinkInv(r, s)
    BY DEF LinkInv
  <2>1. Nbr(r, s) \in Rank /\ Opp(s) \in Side
    BY LinkEnds
  <2>2. trail[Nbr(r, s)] = <<>> /\ trail[r] = <<>> /\ chan[Nbr(r, s)][Opp(s)] = <<>>
        /\ \A v \in Var : ~full[Nbr(r, s)][v][Opp(s)]
    BY <1>2, <2>1
  <2>3. \A v \in Var, e \in Nat : ~SentIn(Nbr(r, s), Opp(s), v, e) /\ ~GotIn(r, s, v, e)
    BY <2>2 DEF SentIn, GotIn
  <2>4. GotSent(r, s) /\ ShmExact(r, s)
    BY <2>2, <2>3 DEF GotSent, ShmExact, OnWay
  <2>5. MpiExact(r, s)
    BY <2>2, <2>3 DEF MpiExact, Carried, OnWay
  <2> QED
    BY <2>4, <2>5 DEF LinkInv
<1> QED
  BY <1>1, <1>3, <1>4 DEF MatchInv

LEMMA NextMatch == MatchInv /\ [Next]_vars => MatchInv'
<1> SUFFICES ASSUME MatchInv, [Next]_vars
             PROVE  MatchInv'
  OBVIOUS
<1>1. /\ AgreementInv /\ HaloInv /\ \A r \in Rank : RequestInv(r) /\ ExchangeInv(r) /\ RankParts(r)
  BY DEF MatchInv, AgreementInv, RequestsInv, RankParts
<1>2. AgreementInv' /\ HaloInv'
  BY <1>1, NextAgreement DEF AgreementInv, RequestsInv
<1>3. UniformCalls' => UniformCalls
  BY <1>1, ScriptKept
<1>4. SUFFICES /\ \A y \in Rank : RankParts(y)'
               /\ UniformCalls => \A r \in Rank, s \in Side : LinkInv(r, s)'
  BY <1>2, <1>3 DEF MatchInv, RankParts
<1>5. ASSUME NEW x \in Rank, RankStep(x)
      PROVE  /\ \A y \in Rank : RankParts(y)'
             /\ UniformCalls => \A r \in Rank, s \in Side : LinkInv(r, s)'
  <2>1. ASSUME NEW y \in Rank
        PROVE  RankParts(y)'
    <3>1. NoStray(y)'
      BY <1>1, <1>5, StepStray DEF RankParts
    <3>2. CASE y = x
      BY <1>1, <1>5, <3>1, <3>2, StepPosted, StepDue DEF RankParts
    <3>3. CASE y # x
      <4>1. todo'[y] = todo[y] /\ posted'[y] = posted[y] /\ trail'[y] = trail[y]
        BY <1>1, <1>5, <3>3, OthersView
      <4> QED
        BY <1>1, <3>1, <4>1, PostedKept, DueKept DEF RankParts
    <3> QED
      BY <3>2, <3>3
  <2>2. ASSUME UniformCalls, NEW r \in Rank, NEW s \in Side
        PROVE  LinkInv(r, s)'
    BY <1>2, <1>5, <2>2, StepLinks
  <2> QED
    BY <2>1, <2>2
<1>6. ASSUME NEW x \in Rank, NEW t \in Side, Deliver(x, t)
      PROVE  /\ \A y \in Rank : RankParts(y)'
             /\ UniformCalls => \A r \in Rank, s \in Side : LinkInv(r, s)'
  BY <1>1, <1>2, <1>6, DeliverParts, DeliverLinks
<1>7. ASSUME NEW x \in Rank, NEW t \in Side, Eager(x, t)
      PROVE  /\ \A y \in Rank : RankParts(y)'
             /\ UniformCalls => \A r \in Rank, s \in Side : LinkInv(r, s)'
  BY <1>1, <1>2, <1>7, EagerParts, EagerLinks
<1>8. ASSUME UNCHANGED <<calc, todo, full, net>>
      PROVE  /\ \A y \in Rank : RankParts(y)'
             /\ UniformCalls => \A r \in Rank, s \in Side : LinkInv(r, s)'
  <2>1. \A y \in Rank : RankParts(y)'
    <3> TAKE y \in Rank
    <3>1. chan' = chan /\ posted' = posted
      BY <1>8 DEF net
    <3> QED
      BY <1>1, <1>8, <3>1, NetParts
  <2>2. ASSUME UniformCalls, NEW r \in Rank, NEW s \in Side
        PROVE  LinkInv(r, s)'
    <3>1. /\ chan' = chan /\ posted' = posted /\ trail' = trail /\ todo' = todo
          /\ pc' = pc /\ full' = full
      BY <1>8 DEF net, calc
    <3>2. \A y \in Rank : SentKept(y) /\ GotKept(y) /\ Begins(trail[y], trail'[y])
      BY <1>1, <3>1, OtherView, BeginsSelf
    <3>3. LinkInv(r, s)
      BY <2>2 DEF MatchInv
    <3> QED
      BY <1>1, <1>2, <3>1, <3>2, <3>3, AllKept
  <2> QED
    BY <2>1, <2>2
<1>9. CASE \E x \in Rank : Poke(x)
  BY <1>8, <1>9 DEF Poke, bufs
<1>10. CASE UNCHANGED vars
  BY <1>8, <1>10 DEF vars, bufs
<1> QED
  BY <1>5, <1>6, <1>7, <1>9, <1>10 DEF Next

LEMMA MatchAlways == Spec => []MatchInv
BY InitMatch, NextMatch, PTL DEF Spec

-----------------------------------------------------------------------------
(* The first message and the first receive with the same tag, which MPI    *)
(* will match, are of the same var and the same steps: although the two    *)
(* ranks count their tags each for itself, and one of them may have sent   *)
(* for an exchange that the other has not yet begun (exchange_halos()      *)
(* gives each swapped var its position as tag, context.cpp).               *)
THEOREM MessagesMatch == Spec => [](UniformCalls => MatchAgrees)
<1>1. ASSUME MatchInv, UniformCalls
      PROVE  MatchAgrees
  <2> SUFFICES ASSUME NEW r \in Rank, NEW s \in Side, HasNbr(r, s),
                      NEW i \in DOMAIN posted[r][s],
                      NEW k \in DOMAIN chan[Nbr(r, s)][Opp(s)],
                      posted[r][s][i].tag = chan[Nbr(r, s)][Opp(s)][k].tag,
                      FirstWith(chan[Nbr(r, s)][Opp(s)], k)
               PROVE  LET p == posted[r][s][i]
                          m == chan[Nbr(r, s)][Opp(s)][k]
                      IN  p.var = m.var /\ p.steps = m.steps
    BY DEF MatchAgrees
  <2>1. AgreementInv /\ LinkInv(r, s) /\ PostedNow(r)
    BY <1>1 DEF MatchInv
  <2> QED
    BY <1>1, <2>1, Meets
<1>2. MatchInv => (UniformCalls => MatchAgrees)
  BY <1>1
<1> QED
  BY <1>2, MatchAlways, PTL

(* No call returns with a request of its own open, and when every rank is  *)
(* between the same two calls nothing is left in MPI or in a shared buffer *)
(* (all that a rank sends in an exchange its neighbour takes in the same   *)
(* one).                                                                   *)
THEOREM QuietWhenTogether == Spec => [](UniformCalls => QuietBetweenCalls)
<1>1. ASSUME MatchInv, UniformCalls
      PROVE  QuietBetweenCalls
  <2>1. AgreementInv /\ HaloInv /\ \A r \in Rank : RequestInv(r) /\ NoStray(r)
    BY <1>1 DEF MatchInv, AgreementInv, RequestsInv
  <2>2. ASSUME NEW r \in Rank, pc[r] = "call"
        PROVE  /\ \A v \in Var, s \in Side :
                    sendReq[r][v][s] = "null" /\ recvReq[r][v][s] = "null"
               /\ \A s \in Side : posted[r][s] = <<>>
               /\ \A v \in Var, s \in Side : ~Awaits(r, s, v)
    <3>1. pc[r] \notin Halfway /\ pc[r] \notin Whole
      BY <2>2 DEF Halfway, Whole
    <3> QED
      BY <2>1, <3>1, QuietOutside, ClosedOutside DEF NoneOpen
  <2>3. ASSUME \A r \in Rank : pc[r] = "call" /\ op[r] = op[0],
               NEW q \in Rank, NEW d \in Side
        PROVE  chan[q][d] = <<>> /\ \A v \in Var : ~full[q][v][d]
    <3> DEFINE r == Nbr(q, d)
               s == Opp(d)
    <3>1. ASSUME HasNbr(q, d), NEW v \in Var, NEW e \in Nat
          PROVE  ~OnWay(r, s, v, e)
      <4>1. /\ r \in Rank /\ s \in Side /\ HasNbr(r, s) /\ Nbr(r, s) = q /\ Opp(s) = d
            /\ (SendBuf(v, d) => RecvBuf(v, s))
        BY <3>1, LinkEnds
      <4>2. trail[r] = trail[q]
        <5>1. ASSUME NEW x \in Rank
              PROVE  Prog(x).op = op[0] /\ Prog(x).at = "call" /\ Prog(x).trail = trail[x]
          BY <2>3, ProgFields DEF Tuned, At, Halfway, Ending
        <5>2. Prog(r) \in ProgState /\ Prog(q) \in ProgState
          BY <2>1, <4>1, ProgType
        <5>3. op[0] \in Nat
          BY <2>1, HaloAssumption DEF HaloInv, TypeOK, Rank
        <5> HIDE DEF r
        <5>4. ~Later(Prog(r), Prog(q)) /\ ~Later(Prog(q), Prog(r))
          BY <4>1, <5>1, <5>3 DEF Later, Stage
        <5>5. Prog(r) = Prog(q)
          BY <1>1, <2>1, <4>1, <5>2, <5>4, SameProg
        <5> QED
          BY <4>1, <5>1, <5>5
      <4>3. ~Awaits(r, s, v)
        BY <2>2, <2>3, <4>1
      <4> HIDE DEF r, s
      <4> QED
        BY <4>1, <4>2, <4>3 DEF OnWay, SentIn, GotIn
    <3>2. HasNbr(q, d) => /\ r \in Rank /\ s \in Side /\ HasNbr(r, s)
                          /\ Nbr(r, s) = q /\ Opp(s) = d /\ UsesShm(r, s) = UsesShm(q, d)
      BY LinkEnds
    <3>3. HasNbr(q, d) => LinkInv(r, s)
      BY <1>1, <3>2 DEF MatchInv
    <3> HIDE DEF r, s
    <3>4. ASSUME NEW v \in Var, full[q][v][d]
          PROVE  FALSE
      <4>1. HasNbr(q, d) /\ UsesShm(q, d)
        BY <2>1, <3>4 DEF NoStray
      <4>2. ShmExact(r, s)
        BY <3>2, <3>3, <4>1 DEF LinkInv
      <4>3. \E e \in Nat : OnWay(r, s, v, e)
        BY <3>2, <3>4, <4>1, <4>2 DEF ShmExact
      <4> QED
        BY <3>1, <4>1, <4>3 DEF r, s
    <3>5. ASSUME chan[q][d] # <<>>
          PROVE  FALSE
      <4> DEFINE M == chan[q][d]
      <4>1. HasNbr(q, d) /\ ~UsesShm(q, d)
        BY <2>1, <3>5 DEF NoStray
      <4>2. MpiExact(r, s)
        BY <3>2, <3>3, <4>1 DEF LinkInv
      <4>3. M \in Seq(Message) /\ Len(trail[q]) \in Nat
        BY <2>1, HeldType, OpenLength
      <4>4. 1 \in DOMAIN M
        BY <3>5, <4>3, EmptySeq
      <4>5. M[1].var \in Var
        BY <2>1, <4>4, HeldType
      <4>6. M[1].exch \in Nat
        <5>1. M[1] \in Message
          BY <2>1, <4>4, HeldType
        <5> HIDE DEF M
        <5> QED
          BY <5>1 DEF Message
      <4>7. OnWay(r, s, M[1].var, M[1].exch)
        BY <3>2, <4>1, <4>2, <4>4, <4>5, <4>6 DEF MpiExact
      <4> QED
        BY <3>1, <4>1, <4>5, <4>6, <4>7 DEF r, s
    <3> QED
      BY <3>4, <3>5
  <2> QED
    BY <2>2, <2>3 DEF QuietBetweenCalls
<1>2. MatchInv => (UniformCalls => QuietBetweenCalls)
  BY <1>1
<1> QED
  BY <1>2, MatchAlways, PTL

-----------------------------------------------------------------------------
(* The exchange keeps the ranks in step: where every evaluation writes a   *)
(* var that neighbours swap in both directions, a rank publishes its next  *)
(* evaluation only when its neighbours have published all it has, which is *)
(* what NeighborSync promises.  For every number of ranks and variables,   *)
(* shared memory or messages, and every program that all ranks answer      *)
(* alike.                                                                  *)

-----------------------------------------------------------------------------
(* The programs and packs the theorem is about.                            *)

UniformScripts ==
  \A scr \in Scripts : \A k \in DOMAIN scr :
    /\ scr[k].kind # "point"
    /\ scr[k].kind = "tune" => \A m, n \in TuneSteps : m = n

BothWays(v) == LeftHalo[v] /\ RightHalo[v]

SwapsBothWays ==
  IF WfSteps = 0 THEN \A p \in Pack : \E v \in Packs[p].writes : BothWays(v)
                 ELSE \E p \in Pack : \E v \in Packs[p].writes : BothWays(v)

(* The inductive invariant.  A rank in a run has a step to do; the last    *)
(* evaluation it published went out in an exchange that swapped a var both *)
(* ways, and no exchange of its history says more than the last.           *)
Running == {"packs", "inner", "exch_init", "exch_ext", "exch_int", "exch_all"}

StepsLeft(r) ==
  pc[r] \in Running =>
    IF StepDir > 0 THEN step[r] <= CurCall(r).last ELSE step[r] >= CurCall(r).last

Published(r) ==
  Evals(r) > 0 =>
    \E e \in DOMAIN trail[r] : \E v \in Var :
      BothWays(v) /\ Swapped(trail[r][e].swap[v]) /\ trail[r][e].evals = Evals(r)

EvalsRise(r) == \A e \in DOMAIN trail[r] : trail[r][e].evals <= Evals(r)

SyncParts(r) == StepsLeft(r) /\ Published(r) /\ EvalsRise(r)

SyncInv == MatchInv /\ \A r \in Rank : SyncParts(r)

-----------------------------------------------------------------------------
(* What one rank does.                                                     *)

(* Something was evaluated: the last step written is one of those written. *)
LEMMA StopIsWritten ==
  ASSUME HaloInv, NEW r \in Rank, pc[r] = "packs", StepsLeft(r)
  PROVE  StopT(r) \in OutSteps(r) /\ StopT(r) \in Int
<1>1. op[r] \in DOMAIN script
  BY DEF HaloInv, InCall
<1>2. step[r] \in Int /\ CurCall(r).last \in Int /\ StopT(r) \in Int
  BY <1>1, CallType, StopTInt DEF HaloInv, TypeOK, Call
<1>3. Stride \in Int /\ Stride > 0
  BY HaloAssumption DEF Stride
<1>4. IF StepDir > 0 THEN step[r] <= CurCall(r).last ELSE step[r] >= CurCall(r).last
  BY DEF StepsLeft, Running
<1>5. StopT(r) - StepDir \in Steps(r)
  <2>1. CASE StepDir = 1
    BY <1>2, <1>3, <1>4, <2>1 DEF StopT, Steps
  <2>2. CASE StepDir = -1
    BY <1>2, <1>3, <1>4, <2>2 DEF StopT, Steps
  <2> QED
    BY <2>1, <2>2, HaloAssumption
<1>6. StopT(r) = (StopT(r) - StepDir) + StepDir
  BY <1>2, HaloAssumption
<1> QED
  BY <1>2, <1>5, <1>6 DEF OutSteps

(* A window that was moved to a step has it.                               *)
LEMMA StepInWindow ==
  ASSUME NEW v \in Var, HasStep[v], NEW f \in Int, NEW a \in Int, NEW b \in Int
  PROVE  b \in Window(v, UpdateValidSteps(v, f, a, b))
<1> DEFINE g == UpdateValidStep(v, f, a)
<1>1. g \in Int
  BY ValidStepInt
<1>2. Alloc[v] \in Int /\ Alloc[v] >= 1
  BY HaloAssumption
<1> HIDE DEF g
<1>3. b \in Window(v, UpdateValidStep(v, g, b))
  BY <1>1, <1>2 DEF Window, UpdateValidStep
<1> QED
  BY <1>3 DEF g, UpdateValidSteps

(* The exchange after an evaluation swaps every var that was written and   *)
(* has a halo.                                                             *)
LEMMA EvalSwaps ==
  ASSUME HaloInv, NEW r \in Rank, pc[r] = "packs", StepsLeft(r),
         NEW v \in Var, v \in OutVars(r), HasMpiData(r, v)
  PROVE  Swapped(SwapOf(r, FirstAfter(r), DirtyAfter(r))[v])
<1> DEFINE fst == FirstAfter(r)
           drt == DirtyAfter(r)
           D == {t \in Window(v, fst[v]) : drt[v][Wrap(v, t)]}
<1>1. op[r] \in DOMAIN script
  BY DEF HaloInv, InCall
<1>2. StopT(r) \in OutSteps(r) /\ StopT(r) \in Int
  BY StopIsWritten
<1>3. HasStep[v]
  BY HaloAssumption DEF OutVars, Selected, Pack, HaloInv, TypeOK
<1>4. fst \in [Var -> Int]
  BY <1>1, AfterType
<1>5. StopT(r) \in Window(v, fst[v])
  <2>1. fst[v] = UpdateValidSteps(v, first[r][v], step[r] + StepDir, StopT(r))
    BY DEF FirstAfter
  <2>2. first[r][v] \in Int /\ step[r] + StepDir \in Int
    BY HaloAssumption DEF HaloInv, TypeOK
  <2> QED
    BY <1>2, <1>3, <2>1, <2>2, StepInWindow
<1>6. drt[v][Wrap(v, StopT(r))]
  <2>1. Wrap(v, StopT(r)) \in Slot
    BY <1>2, WrapSlot
  <2> QED
    BY <1>2, <2>1 DEF DirtyAfter, DirtyWith
<1>7. D # {}
  BY <1>5, <1>6
<1>8. \E a, b \in Int : D \in SUBSET (a .. b)
  <2>1. D \in SUBSET (fst[v] .. fst[v] + Alloc[v] - 1)
    BY <1>3 DEF Window
  <2>2. fst[v] \in Int /\ fst[v] + Alloc[v] - 1 \in Int
    BY <1>4, HaloAssumption
  <2> QED
    BY <2>1, <2>2
<1>9. SwapOf(r, fst, drt)[v] = [first |-> Low(D), last |-> High(D)]
  BY <1>7 DEF SwapOf
<1>10. D \subseteq Int
  BY <1>8
<1> HIDE DEF D
<1>11. High(D) \in D /\ Low(D) \in D /\ \A y \in D : Low(D) <= y
  BY <1>7, <1>8, HighLowOf
<1>12. Low(D) <= High(D)
  BY <1>11
<1> QED
  BY <1>9, <1>12 DEF Swapped

(* An exchange that begins is added to the history.                        *)
LEMMA StartEvals ==
  ASSUME HaloInv, NEW r \in Rank, Published(r), EvalsRise(r),
         NEW f, NEW d, NEW i, NEW n \in {0, 1}, StartExchange(r, f, d, TRUE, i, n),
         n = 1 => \E v \in Var : BothWays(v) /\ Swapped(SwapOf(r, f, d)[v])
  PROVE  Published(r)' /\ EvalsRise(r)' /\ Evals(r)' = Evals(r) + n
<1> DEFINE T == trail[r]
           x == [swap |-> SwapOf(r, f, d), evals |-> Evals(r) + n]
           U == Append(T, x)
<1>1. trail \in [Rank -> Seq(ExchangeRecord)] /\ T \in Seq(ExchangeRecord)
  BY DEF HaloInv, TypeOK
<1>2. trail'[r] = U
  BY <1>1 DEF StartExchange
<1>3. /\ Len(U) = Len(T) + 1 /\ Len(T) \in Nat /\ U # <<>>
      /\ U[Len(U)] = x /\ \A e \in DOMAIN T : U[e] = T[e]
      /\ DOMAIN U = 1 .. Len(U) /\ DOMAIN T = 1 .. Len(T)
  <2> HIDE DEF x
  <2>1. U \in Seq(ExchangeRecord \cup {x}) /\ T \in Seq(ExchangeRecord \cup {x})
    BY <1>1
  <2>2. /\ Len(U) = Len(T) + 1 /\ Len(T) \in Nat
        /\ U[Len(U)] = x /\ \A e \in DOMAIN T : U[e] = T[e]
        /\ DOMAIN U = 1 .. Len(U) /\ DOMAIN T = 1 .. Len(T)
    BY <1>1
  <2> HIDE DEF U
  <2>3. U # <<>>
    BY <2>2
  <2> QED
    BY <2>2, <2>3
<1>4. Evals(r) \in Nat
  BY <1>1, EvalsNat
<1>5. x.swap = SwapOf(r, f, d) /\ x.evals = Evals(r) + n
  OBVIOUS
<1> HIDE DEF x, U
<1>6. Evals(r)' = Evals(r) + n
  BY <1>2, <1>3, <1>5 DEF Evals, Last
<1>7. EvalsRise(r)'
  <2> SUFFICES ASSUME NEW e \in DOMAIN U
               PROVE  U[e].evals <= Evals(r) + n
    BY <1>2, <1>6 DEF EvalsRise
  <2>1. CASE e \in DOMAIN T
    <3>1. U[e] = T[e] /\ T[e].evals <= Evals(r) /\ T[e].evals \in Nat
      <4>1. T[e] \in ExchangeRecord
        BY <1>1, <2>1
      <4> HIDE DEF T
      <4>2. T[e].evals \in Nat
        BY <4>1 DEF ExchangeRecord
      <4> QED
        BY <1>3, <2>1, <4>2 DEF EvalsRise, T
    <3> QED
      BY <1>4, <3>1
  <2>2. CASE e \notin DOMAIN T
    <3>1. e = Len(U)
      BY <1>3, <2>2
    <3> QED
      BY <1>3, <1>4, <1>5, <3>1
  <2> QED
    BY <2>1, <2>2
<1>8. Published(r)'
  <2> SUFFICES ASSUME Evals(r) + n > 0
               PROVE  \E e \in DOMAIN U : \E v \in Var :
                        BothWays(v) /\ Swapped(U[e].swap[v]) /\ U[e].evals = Evals(r) + n
    BY <1>2, <1>6 DEF Published
  <2>1. CASE n = 1
    <3>1. PICK v \in Var : BothWays(v) /\ Swapped(SwapOf(r, f, d)[v])
      BY <2>1
    <3>2. Len(U) \in DOMAIN U
      BY <1>3
    <3>3. Swapped(U[Len(U)].swap[v]) /\ U[Len(U)].evals = Evals(r) + n
      BY <1>3, <1>5, <3>1
    <3> QED
      BY <3>1, <3>2, <3>3
  <2>2. CASE n = 0
    <3>1. PICK e \in DOMAIN T, v \in Var :
            BothWays(v) /\ Swapped(T[e].swap[v]) /\ T[e].evals = Evals(r)
      BY <1>4, <2>2 DEF Published
    <3>2. e \in DOMAIN U /\ U[e] = T[e]
      BY <1>3
    <3>3. Swapped(U[e].swap[v]) /\ U[e].evals = Evals(r) + n
      BY <1>4, <2>2, <3>1, <3>2
    <3> QED
      BY <3>1, <3>2, <3>3
  <2> QED
    BY <2>1, <2>2
<1> QED
  BY <1>6, <1>7, <1>8

(* A history that stays.                                                   *)
LEMMA HistoryKept ==
  ASSUME NEW x, trail'[x] = trail[x]
  PROVE  /\ Published(x) => Published(x)'
         /\ EvalsRise(x) => EvalsRise(x)'
         /\ Evals(x)' = Evals(x)
<1>1. Evals(x)' = Evals(x)
  BY DEF Evals
<1> QED
  BY <1>1 DEF Published, EvalsRise

LEMMA StepsKept ==
  ASSUME NEW x, StepsLeft(x), script' = script,
         op'[x] = op[x], step'[x] = step[x], pc'[x] \in Running => pc[x] \in Running
  PROVE  StepsLeft(x)'
BY DEF StepsLeft, CurCall

(* The loop over packs and steps leaves the call with the last step.       *)
LEMMA NextPackLeft ==
  ASSUME HaloInv, NEW r \in Rank, pc[r] \in Running, StepsLeft(r), NextPack(r),
         script' = script
  PROVE  StepsLeft(r)'
<1>t. /\ pc \in [Rank -> PcType] /\ step \in [Rank -> Int] /\ op \in [Rank -> Nat \ {0}]
  BY DEF HaloInv, TypeOK, PcType
<1>1. op[r] \in DOMAIN script
  BY DEF HaloInv, InCall, Running
<1>2. step[r] \in Int /\ CurCall(r).last \in Int /\ StopT(r) \in Int
  BY <1>1, CallType, StopTInt DEF HaloInv, TypeOK, Call
<1>3. Stride \in Int /\ Stride > 0
  BY HaloAssumption DEF Stride
<1>4. CASE op' = op /\ step' = step
  BY <1>4, StepsKept DEF StepsLeft
<1>5. CASE /\ StopT(r) # CurCall(r).last + StepDir
           /\ step' = [step EXCEPT ![r] = StopT(r)]
           /\ pc' = [pc EXCEPT ![r] = "packs"]
           /\ op' = op
  <2>1. step'[r] = StopT(r) /\ CurCall(r)' = CurCall(r)
    BY <1>t, <1>5 DEF CurCall
  <2>2. CASE StepDir = 1
    <3>1. StopT(r) <= CurCall(r).last
      BY <1>2, <1>3, <1>5, <2>2 DEF StopT
    <3> QED
      BY <2>1, <2>2, <3>1 DEF StepsLeft
  <2>3. CASE StepDir = -1
    <3>1. StopT(r) >= CurCall(r).last
      BY <1>2, <1>3, <1>5, <2>3 DEF StopT
    <3> QED
      BY <2>1, <2>3, <3>1 DEF StepsLeft
  <2> QED
    BY <2>2, <2>3, HaloAssumption
<1>6. CASE Returns(r)
  <2>1. pc'[r] = "call"
    BY <1>t, <1>6 DEF Returns
  <2> QED
    BY <2>1 DEF StepsLeft, Running
<1> QED
  BY <1>4, <1>5, <1>6 DEF NextPack

(* A step of a rank publishes nothing, or one evaluation.                  *)
Publishes(x) == pc[x] = "packs" /\ Evals(x)' = Evals(x) + 1

LEMMA WritesBothWays ==
  ASSUME SwapsBothWays, HaloInv, NEW x \in Rank
  PROVE  \E v \in Var : BothWays(v) /\ v \in OutVars(x) /\ HasMpiData(x, v)
<1>1. pack[x] \in Pack
  BY DEF HaloInv, TypeOK
<1>2. \E p \in Selected(x) : p \in Pack /\ \E v \in Packs[p].writes : BothWays(v)
  BY <1>1 DEF SwapsBothWays, Selected
<1>3. PICK p \in Selected(x) : p \in Pack /\ \E v \in Packs[p].writes : BothWays(v)
  BY <1>2
<1>4. PICK v \in Packs[p].writes : BothWays(v)
  BY <1>3
<1>5. v \in OutVars(x)
  BY <1>4 DEF OutVars
<1>6. v \in Var
  <2>1. Packs[p] \in PackType
    BY <1>3, HaloAssumption DEF Pack
  <2>2. Packs[p].writes \subseteq Var
    BY <2>1 DEF PackType
  <2> QED
    BY <1>4, <2>2
<1>7. HasMpiData(x, v)
  BY <1>4, SomeNbr DEF HasMpiData, RecvBuf, BothWays, Side
<1> QED
  BY <1>4, <1>5, <1>6, <1>7

LEMMA StepSync ==
  ASSUME SwapsBothWays, HaloInv, NEW x \in Rank, RankStep(x), SyncParts(x)
  PROVE  SyncParts(x)' /\ (Evals(x)' = Evals(x) \/ Publishes(x))
<1>t. /\ pc \in [Rank -> PcType] /\ op \in [Rank -> Nat \ {0}] /\ step \in [Rank -> Int]
      /\ script \in Scripts
  BY DEF HaloInv, TypeOK, PcType
<1>p. StepsLeft(x) /\ Published(x) /\ EvalsRise(x)
  BY DEF SyncParts
<1>1. CASE BeginRun(x) \/ BeginEnd(x)
  <2>1. \E i : StartExchange(x, first[x], dirty[x], TRUE, i, 0)
    BY <1>1 DEF BeginRun, BeginEnd
  <2>2. Published(x)' /\ EvalsRise(x)' /\ Evals(x)' = Evals(x) + 0
    <3>1. PICK i : StartExchange(x, first[x], dirty[x], TRUE, i, 0)
      BY <2>1
    <3>2. 0 \in {0, 1} /\ 0 # 1
      OBVIOUS
    <3> QED
      BY <1>p, <3>1, <3>2, StartEvals
  <2>3. Evals(x) \in Nat
    BY EvalsNat DEF HaloInv, TypeOK
  <2>4. StepsLeft(x)'
    <3>1. CASE BeginRun(x)
      <4>1. op[x] \in DOMAIN script /\ CurCall(x).kind = "run"
        BY <3>1, CallingType DEF BeginRun, Calling
      <4>2. /\ script' = script /\ op' = op /\ pc'[x] = "exch_init"
            /\ step'[x] = CurCall(x).first
        BY <1>t, <3>1 DEF BeginRun
      <4>3. CurCall(x)' = CurCall(x)
        BY <4>2 DEF CurCall
      <4> QED
        BY <1>t, <4>1, <4>2, <4>3, RunsAssumption DEF StepsLeft, CurCall
    <3>2. CASE BeginEnd(x)
      <4>1. pc'[x] = "exch_end"
        BY <1>t, <3>2 DEF BeginEnd
      <4> QED
        BY <4>1 DEF StepsLeft, Running
    <3> QED
      BY <1>1, <3>1, <3>2
  <2> QED
    BY <2>2, <2>3, <2>4 DEF SyncParts
<1>2. CASE EvalExterior(x) \/ EvalAll(x)
  <2>1. /\ pc[x] = "packs" /\ script' = script /\ op' = op /\ step' = step
        /\ pc'[x] \in Running
    BY <1>t, <1>2 DEF EvalExterior, EvalAll, Running
  <2>2. PICK v \in Var : BothWays(v) /\ v \in OutVars(x) /\ HasMpiData(x, v)
    BY WritesBothWays
  <2>3. Swapped(SwapOf(x, FirstAfter(x), DirtyAfter(x))[v])
    BY <1>p, <2>1, <2>2, EvalSwaps
  <2>4. \E i : StartExchange(x, FirstAfter(x), DirtyAfter(x), TRUE, i, 1)
    BY <1>2 DEF EvalExterior, EvalAll
  <2>5. PICK i : StartExchange(x, FirstAfter(x), DirtyAfter(x), TRUE, i, 1)
    BY <2>4
  <2>6. Published(x)' /\ EvalsRise(x)' /\ Evals(x)' = Evals(x) + 1
    BY <1>p, <2>2, <2>3, <2>5, StartEvals
  <2>7. StepsLeft(x)'
    BY <1>p, <2>1, StepsKept DEF Running
  <2> QED
    BY <2>1, <2>6, <2>7 DEF SyncParts, Publishes
<1>3. CASE SkipPack(x) \/ (ExchangeDone(x) /\ NextPack(x))
  <2>1. script' = script /\ trail' = trail /\ NextPack(x)
    BY <1>3 DEF SkipPack, ExchangeDone
  <2>2. CASE pc[x] \in Running
    BY <1>p, <2>1, <2>2, NextPackLeft, HistoryKept DEF SyncParts
  <2>3. CASE pc[x] \notin Running
    <3>1. pc[x] = "exch_end" /\ ExchangeDone(x)
      BY <1>3, <2>3 DEF SkipPack, ExchangeDone, Running
    <3>2. pc' = [pc EXCEPT ![x] = "barrier"]
      BY <3>1 DEF ExchangeDone
    <3>3. pc'[x] = "barrier"
      BY <1>t, <3>2
    <3>4. StepsLeft(x)'
      BY <3>3 DEF StepsLeft, Running
    <3> QED
      BY <1>p, <2>1, <3>4, HistoryKept DEF SyncParts
  <2> QED
    BY <2>2, <2>3
<1>4. ASSUME script' = script, trail' = trail,
             \/ pc'[x] \notin Running
             \/ op'[x] = op[x] /\ step'[x] = step[x] /\ pc[x] \in Running
      PROVE  SyncParts(x)' /\ Evals(x)' = Evals(x)
  <2>1. StepsLeft(x)'
    <3>1. CASE pc'[x] \notin Running
      BY <3>1 DEF StepsLeft
    <3>2. CASE op'[x] = op[x] /\ step'[x] = step[x] /\ pc[x] \in Running
      BY <1>p, <1>4, <3>2, StepsKept
    <3> QED
      BY <1>4, <3>1, <3>2
  <2> QED
    BY <1>p, <1>4, <2>1, HistoryKept DEF SyncParts
<1>5. CASE ExchangeDone(x) /\ ~NextPack(x)
  <2>1. \/ pc'[x] = "barrier"
        \/ op'[x] = op[x] /\ step'[x] = step[x] /\ pc[x] \in Running
    BY <1>t, <1>5 DEF ExchangeDone, Running
  <2>2. script' = script /\ trail' = trail
    BY <1>5 DEF ExchangeDone
  <2>3. "barrier" \notin Running
    BY DEF Running
  <2> QED
    BY <1>4, <2>1, <2>2, <2>3
<1>6. CASE EvalInterior(x)
  <2>1. trail' = trail
    BY <1>6 DEF EvalInterior, StartExchange
  <2>2. script' = script /\ op' = op /\ step' = step /\ pc[x] \in Running
    BY <1>6 DEF EvalInterior, Running
  <2> QED
    BY <1>4, <2>1, <2>2
<1>7. ASSUME NEW v \in Var, NEW s \in Side,
             \/ Irecv(x, v, s) \/ PackIsend(x, v, s) \/ PackShm(x, v, s)
             \/ UnpackMpi(x, v, s) \/ UnpackShm(x, v, s) \/ Final(x, v, s)
      PROVE  SyncParts(x)' /\ Evals(x)' = Evals(x)
  <2>1. UNCHANGED calc
    BY <1>7 DEF Irecv, PackIsend, PackShm, UnpackMpi, UnpackShm, Final
  <2>2. script' = script /\ trail' = trail /\ op' = op /\ step' = step /\ pc' = pc
    BY <2>1 DEF calc
  <2> QED
    BY <1>4, <2>2
<1>8. CASE \/ Fill(x) \/ SetSlice(x) \/ SetElems(x) \/ SetPoint(x) \/ BeginPrepare(x)
           \/ LeaveBarrier(x) \/ LeaveAllocBarrier(x) \/ LeaveShmBarrier(x)
           \/ \E k \in TuneSteps : Tune(x, k)
  <2>1. script' = script /\ trail' = trail
    BY <1>8 DEF Fill, SetSlice, SetElems, SetPoint, BeginPrepare, LeaveBarrier,
                LeaveAllocBarrier, LeaveShmBarrier, Tune
  <2>2. pc'[x] \in {"call", "barrier", "alloc_barrier", "shm_barrier"}
    BY <1>t, <1>8 DEF Fill, SetSlice, SetElems, SetPoint, BeginPrepare, LeaveBarrier,
                      LeaveAllocBarrier, LeaveShmBarrier, Tune, Returns
  <2>3. pc'[x] \notin Running
    BY <2>2 DEF Running
  <2> QED
    BY <1>4, <2>1, <2>3
<1> QED
  BY <1>1, <1>2, <1>3, <1>4, <1>5, <1>6, <1>7, <1>8 DEF RankStep

-----------------------------------------------------------------------------
(* The inductive invariant, and the refinement.                            *)

LEMMA InitSync == Init => SyncInv
<1> SUFFICES ASSUME Init
             PROVE  SyncInv
  OBVIOUS
<1>1. MatchInv
  BY InitMatch
<1>2. ASSUME NEW r \in Rank
      PROVE  SyncParts(r)
  <2>1. pc[r] = "call" /\ trail[r] = <<>>
    BY <1>2 DEF Init
  <2>2. Evals(r) = 0 /\ DOMAIN trail[r] = {}
    BY <2>1 DEF Evals
  <2>3. ~ (0 > 0) /\ "call" \notin Running
    BY DEF Running
  <2> QED
    BY <2>1, <2>2, <2>3 DEF SyncParts, StepsLeft, Published, EvalsRise
<1> QED
  BY <1>1, <1>2 DEF SyncInv

(* One rank at most publishes in a step.                                   *)
LEMMA NextSync ==
  ASSUME SwapsBothWays, SyncInv, [Next]_vars
  PROVE  /\ SyncInv'
         /\ \/ \A y \in Rank : Evals(y)' = Evals(y)
            \/ \E x \in Rank : /\ Publishes(x)
                               /\ \A y \in Rank : y # x => Evals(y)' = Evals(y)
<1>1. HaloInv /\ MatchInv
  BY DEF SyncInv, MatchInv, AgreementInv, RequestsInv
<1>2. MatchInv'
  BY <1>1, NextMatch
<1>3. ASSUME NEW x \in Rank, RankStep(x)
      PROVE  /\ \A y \in Rank : SyncParts(y)'
             /\ Evals(x)' = Evals(x) \/ Publishes(x)
             /\ \A y \in Rank : y # x => Evals(y)' = Evals(y)
  <2>1. SyncParts(x)' /\ (Evals(x)' = Evals(x) \/ Publishes(x))
    BY <1>1, <1>3, StepSync DEF SyncInv
  <2>2. ASSUME NEW y \in Rank, y # x
        PROVE  SyncParts(y)' /\ Evals(y)' = Evals(y)
    <3>1. SameExchange(y)
      BY <1>1, <1>3, <2>2, StepOthersExchange
    <3>2. SyncParts(y)
      BY DEF SyncInv
    <3> QED
      BY <3>1, <3>2, HistoryKept, StepsKept DEF SyncParts, SameExchange
  <2> QED
    BY <2>1, <2>2
<1>4. ASSUME UNCHANGED calc
      PROVE  /\ \A y \in Rank : SyncParts(y)'
             /\ \A y \in Rank : Evals(y)' = Evals(y)
  <2> SUFFICES ASSUME NEW y \in Rank
               PROVE  SyncParts(y)' /\ Evals(y)' = Evals(y)
    OBVIOUS
  <2>1. SyncParts(y)
    BY DEF SyncInv
  <2>2. script' = script /\ op' = op /\ pc' = pc /\ step' = step /\ trail' = trail
    BY <1>4 DEF calc
  <2> QED
    BY <2>1, <2>2, HistoryKept, StepsKept DEF SyncParts
<1>5. CASE \E x \in Rank : RankStep(x)
  BY <1>2, <1>3, <1>5 DEF SyncInv
<1>6. CASE \/ \E x \in Rank : Poke(x)
           \/ \E x \in Rank, s \in Side : Deliver(x, s) \/ Eager(x, s)
           \/ UNCHANGED vars
  <2>1. UNCHANGED calc
    BY <1>6, ZenonT(60) DEF Poke, Deliver, Eager, vars
  <2> QED
    BY <1>2, <1>4, <2>1 DEF SyncInv
<1> QED
  BY <1>5, <1>6 DEF Next

(* A rank that is about to evaluate has had what its neighbours sent in    *)
(* the exchange that published its last evaluation, and so they have       *)
(* published as much.                                                      *)
LEMMA NeighborsPublished ==
  ASSUME SyncInv, UniformCalls, NEW r \in Rank, pc[r] = "packs",
         NEW s \in Side, HasNbr(r, s)
  PROVE  Evals(Nbr(r, s)) >= Evals(r)
<1> DEFINE q == Nbr(r, s)
<1>1. /\ AgreementInv /\ HaloInv /\ RequestInv(r) /\ LinkInv(r, s)
      /\ Published(r) /\ EvalsRise(q) /\ q \in Rank
  BY LinkEnds DEF SyncInv, SyncParts, MatchInv, AgreementInv, RequestsInv
<1>2. Evals(r) \in Nat /\ Evals(q) \in Nat
  BY <1>1, EvalsNat DEF HaloInv, TypeOK
<1>3. CASE Evals(r) = 0
  BY <1>2, <1>3
<1>4. CASE Evals(r) > 0
  <2>1. PICK e \in DOMAIN trail[r], v \in Var :
          BothWays(v) /\ Swapped(trail[r][e].swap[v]) /\ trail[r][e].evals = Evals(r)
    BY <1>1, <1>4 DEF Published
  <2>2. e \in 1 .. Len(trail[r]) /\ e \in Nat
    <3>1. trail[r] \in Seq(ExchangeRecord)
      BY <1>1 DEF HaloInv, TypeOK
    <3> QED
      BY <3>1
  <2>3. pc[r] \notin Halfway /\ pc[r] \notin Whole
    BY DEF Halfway, Whole
  <2>4. ~Awaits(r, s, v)
    BY <1>1, <2>3, QuietOutside
  <2>5. GotIn(r, s, v, e)
    BY <2>1, <2>2, <2>4 DEF GotIn, BothWays, RecvBuf
  <2>6. SentIn(q, Opp(s), v, e)
    BY <1>1, <2>2, <2>5 DEF LinkInv, GotSent
  <2>7. e \in 1 .. Len(trail[q])
    BY <2>6 DEF SentIn
  <2>8. trail[q][e] = trail[r][e]
    BY <1>1, <2>2, <2>7, TrailsAgree
  <2>9. e \in DOMAIN trail[q]
    <3>1. trail[q] \in Seq(ExchangeRecord)
      BY <1>1 DEF HaloInv, TypeOK
    <3> QED
      BY <2>7, <3>1
  <2> HIDE DEF q
  <2>10. trail[q][e].evals <= Evals(q)
    BY <1>1, <2>9 DEF EvalsRise
  <2> QED
    BY <1>2, <2>1, <2>8, <2>10 DEF q
<1> QED
  BY <1>2, <1>3, <1>4

(* Neighbours keep each other in step: the exchange implements the         *)
(* specification of what it promises, for any number of ranks and any      *)
(* delays of messages (the waits of exchange_halos(), context.cpp, are all *)
(* that holds a rank back).                                                *)
THEOREM ImplementsNeighborSync ==
  UniformScripts /\ SwapsBothWays => (Spec => NeighborsInStep)
<1> SUFFICES ASSUME UniformScripts, SwapsBothWays
             PROVE  Spec => NeighborsInStep
  OBVIOUS
<1> DEFINE done == [r \in Rank |-> Evals(r)]
<1>1. Init => Sync!Init
  <2> SUFFICES ASSUME Init
               PROVE  done = [r \in Rank |-> 0]
    BY DEF Sync!Init
  <2>1. \A r \in Rank : trail[r] = <<>>
    BY DEF Init
  <2> QED
    BY <2>1 DEF Evals
<1>2. SyncInv /\ [Next]_vars => [Sync!Next]_done
  <2> SUFFICES ASSUME SyncInv, [Next]_vars
               PROVE  Sync!Next \/ done' = done
    OBVIOUS
  <2>1. UniformCalls
    BY DEF SyncInv, MatchInv, AgreementInv, RequestsInv, HaloInv, TypeOK,
           UniformScripts, UniformCalls
  <2>2. CASE \A y \in Rank : Evals(y)' = Evals(y)
    BY <2>2
  <2>3. ASSUME NEW x \in Rank, Publishes(x), \A y \in Rank : y # x => Evals(y)' = Evals(y)
        PROVE  Sync!Next
    <3>1. ASSUME NEW q \in Rank, q = x - 1 \/ q = x + 1
          PROVE  Evals(q) >= Evals(x)
      <4>1. \E s \in Side : HasNbr(x, s) /\ Nbr(x, s) = q
        BY <3>1, HaloAssumption DEF Rank, Side, HasNbr, Nbr
      <4> QED
        BY <2>1, <2>3, <4>1, NeighborsPublished DEF Publishes
    <3>2. done' = [done EXCEPT ![x] = @ + 1]
      BY <2>3 DEF Publishes
    <3> QED
      BY <3>1, <3>2 DEF Sync!Next, Sync!Evaluate
  <2> QED
    BY <2>2, <2>3, NextSync
<1>3. SyncInv /\ [Next]_vars => SyncInv'
  BY NextSync
<1> QED
  BY <1>1, <1>2, <1>3, InitSync, PTL DEF Spec, NeighborsInStep, Sync!Spec

(* So no rank is ever more than one evaluation ahead of a neighbour, which *)
(* is why one buffer for each var, side and direction is enough.           *)
THEOREM NeverTwoAhead ==
  UniformScripts /\ SwapsBothWays => (Spec => []Sync!AtMostOneAhead)
<1> SUFFICES ASSUME UniformScripts, SwapsBothWays
             PROVE  Spec => []Sync!AtMostOneAhead
  OBVIOUS
<1> DEFINE Ahead == \A x \in Rank : \A s \in Side :
                      HasNbr(x, s) => Evals(x) <= Evals(Nbr(x, s)) + 1
<1>1. Init => Ahead
  <2> SUFFICES ASSUME Init, NEW x \in Rank, NEW s \in Side, HasNbr(x, s)
               PROVE  Evals(x) <= Evals(Nbr(x, s)) + 1
    OBVIOUS
  <2>1. Evals(x) = 0 /\ Evals(Nbr(x, s)) = 0
    BY LinkEnds DEF Init, Evals
  <2> QED
    BY <2>1
<1>2. Ahead /\ SyncInv /\ [Next]_vars => Ahead'
  <2> SUFFICES ASSUME Ahead, SyncInv, [Next]_vars, NEW x \in Rank, NEW s \in Side,
                      HasNbr(x, s)
               PROVE  Evals(x)' <= Evals(Nbr(x, s))' + 1
    BY DEF HasNbr, Nbr
  <2>1. UniformCalls
    BY DEF SyncInv, MatchInv, AgreementInv, RequestsInv, HaloInv, TypeOK,
           UniformScripts, UniformCalls
  <2>2. Nbr(x, s) \in Rank /\ Nbr(x, s) # x
    BY LinkEnds
  <2> DEFINE q == Nbr(x, s)
  <2>3. Evals(x) \in Nat /\ Evals(q) \in Nat /\ Evals(x) <= Evals(q) + 1
    BY <2>2, EvalsNat DEF SyncInv, MatchInv, AgreementInv, RequestsInv, HaloInv, TypeOK
  <2>4. pc[x] = "packs" => Evals(q) >= Evals(x)
    BY <2>1, NeighborsPublished
  <2>5. CASE \A y \in Rank : Evals(y)' = Evals(y)
    BY <2>2, <2>3, <2>5
  <2>6. ASSUME NEW z \in Rank, Publishes(z), \A y \in Rank : y # z => Evals(y)' = Evals(y)
        PROVE  Evals(x)' <= Evals(q)' + 1
    <3>1. CASE z = x
      <4>1. Evals(x)' = Evals(x) + 1 /\ Evals(q)' = Evals(q) /\ pc[x] = "packs"
        BY <2>2, <2>6, <3>1 DEF Publishes
      <4> QED
        BY <2>3, <2>4, <4>1
    <3>2. CASE z # x
      <4>1. Evals(x)' = Evals(x) /\ Evals(q)' \in {Evals(q), Evals(q) + 1}
        BY <2>2, <2>6, <3>2 DEF Publishes
      <4> QED
        BY <2>3, <4>1
    <3> QED
      BY <3>1, <3>2
  <2> QED
    BY <2>5, <2>6, NextSync
<1>3. Ahead => Sync!AtMostOneAhead
  <2> SUFFICES ASSUME Ahead, NEW r \in Rank, NEW q \in Rank, q = r - 1 \/ q = r + 1
               PROVE  Evals(r) <= Evals(q) + 1
    BY DEF Sync!AtMostOneAhead
  <2>1. \E s \in Side : HasNbr(r, s) /\ Nbr(r, s) = q
    BY HaloAssumption DEF Rank, Side, HasNbr, Nbr
  <2> QED
    BY <2>1
<1>4. SyncInv /\ [Next]_vars => SyncInv'
  BY NextSync
<1> QED
  BY <1>1, <1>2, <1>3, <1>4, InitSync, PTL DEF Spec

-----------------------------------------------------------------------------
(* The program state of a rank with the exterior of its vars: the values   *)
(* that are sent.                                                          *)

Exterior(r) == [v \in Var |-> [n \in Slot |-> data[r][v][n]["ext"]]]
Full(r) == [prog |-> Prog(r), ext |-> Exterior(r)]

ExtType == [Var -> [Slot -> Value]]
FullState == [prog : ProgState, ext : ExtType]

(* What a step of the program makes of the exterior.                       *)
XComputed(x, v) ==
  {t + StepDir : t \in {u \in XSteps(x) : \E p \in XSelected(x) :
                          v \in Packs[p].writes /\ u \notin Packs[p].skip}}
XLast(x, v, n) ==
  LET U == {u \in XComputed(x, v) : Wrap(v, u) = n}
  IN  IF StepDir > 0 THEN High(U) ELSE Low(U)
EvalExt(x, E) ==
  [v \in Var |-> [n \in Slot |->
     IF {u \in XComputed(x, v) : Wrap(v, u) = n} # {}
     THEN [gen |-> x.op, step |-> XLast(x, v, n)] ELSE E[v][n]]]

TuneExt(k, E) ==
  [v \in Var |-> [n \in Slot |->
     IF /\ v \in UNION {Packs[p].writes : p \in Pack}
        /\ \E t \in {StepDir * i : i \in 1 .. k * Stride} : Wrap(v, t) = n
     THEN Garbage ELSE E[v][n]]]

CallExt(x, E) ==
  LET c == XCall(x)
  IN  CASE c.kind = "fill" ->
             [E EXCEPT ![c.var] = [n \in Slot |-> [gen |-> x.op, step |-> 0]]]
        [] c.kind \in {"slice", "elems"} ->
             [E EXCEPT ![c.var][Wrap(c.var, c.first)] =
                [gen |-> x.op, step |-> StepOf(c.var, c.first)]]
        [] c.kind = "tune" /\ TuneSteps # {} -> TuneExt(CHOOSE k \in TuneSteps : TRUE, E)
        [] OTHER -> E

NextExt(x, E) ==
  IF Nxt(x) = x THEN E
  ELSE IF x.at = "call" THEN CallExt(x, E)
  ELSE IF x.at = "packs" /\ ~XSkips(x) THEN EvalExt(x, E)
  ELSE E

Move(y) == [prog |-> Nxt(y.prog), ext |-> NextExt(y.prog, y.ext)]

(* z is where a rank at y can come to.                                     *)
FullReach(y, z) == \A S : y \in S /\ (\A w \in S : Move(w) \in S) => z \in S

Start(scr) ==
  [prog |-> State(scr, 1, "call", 0, 1, [v \in Var |-> 0],
                  [v \in Var |-> [n \in Slot |-> TRUE]], <<>>),
   ext |-> [v \in Var |-> [n \in Slot |-> [gen |-> 0, step |-> n]]]]

(* What a rank in state y, which has just begun an exchange, sends of v.   *)
Shares(y, v) ==
  LET w == Last(y.prog.trail).swap[v]
  IN  [k \in 1 .. NumSteps(w) |-> y.ext[v][Wrap(v, w.first + k - 1)]]

(* b is what every rank sends of v in its exchange e.                      *)
Carries(scr, b, v, e) ==
  \A y \in FullState :
    /\ FullReach(Start(scr), y)
    /\ y.prog.at \in Exchanges
    /\ Len(y.prog.trail) = e
    => b = Shares(y, v)

-----------------------------------------------------------------------------
(* The inductive invariant.                                                *)

(* A message holds what it should, or the buffer does that it will be read *)
(* from; so does a shared buffer that is still to be read.                 *)
Held(q, d, k) ==
  LET m == chan[q][d][k]
  IN  IF m.eager THEN m.data ELSE sendBuf[q][m.var][d]

MpiContent(q, d) ==
  \A k \in DOMAIN chan[q][d] :
    Carries(script, Held(q, d, k), chan[q][d][k].var, chan[q][d][k].exch)

ShmContent(r, s) ==
  HasNbr(r, s) /\ UsesShm(r, s) =>
    \A v \in Var, e \in Nat :
      OnWay(r, s, v, e) => Carries(script, sendBuf[Nbr(r, s)][v][Opp(s)], v, e)

(* What has come by MPI in the exchange that is going on.                  *)
GotContent(r) ==
  pc[r] \in InExchange =>
    \A v \in Var, s \in Side :
      /\ HasNbr(r, s) /\ RecvBuf(v, s) /\ ~UsesShm(r, s)
      /\ Swapped(CurSwap(r)[v]) /\ ~Awaits(r, s, v)
      => Carries(script, recvBuf[r][v][s], v, Len(trail[r]))

(* In an exchange, what is dirty is swapped; after it nothing is dirty     *)
(* until the next evaluation or the next call.                             *)
InSwap(r, v, n) ==
  \E t \in CurSwap(r)[v].first .. CurSwap(r)[v].last : Wrap(v, t) = n

AfterRun(r) == pc[r] = "call" /\ op[r] > 1 /\ script[op[r] - 1].kind = "run"

FlagsKnown(r) ==
  \A v \in Var, n \in Slot : HasMpiData(r, v) /\ n < Alloc[v] /\ dirty[r][v][n] =>
    /\ pc[r] \in InExchange => InSwap(r, v, n)
    /\ pc[r] # "packs" /\ ~AfterRun(r)

(* A halo is what the exterior is but where it is dirty or, in an          *)
(* exchange, still to be unpacked.                                         *)
HaloDue(r, v, n, s) ==
  IF pc[r] \in InExchange /\ InSwap(r, v, n)
  THEN pc[r] \in Halfway \/ It(HaloUnpack, v, s) \in todo[r]
  ELSE dirty[r][v][n]

HalosKept(r) ==
  \A v \in Var, n \in Slot, s \in Side :
    HasNbr(r, s) /\ RecvBuf(v, s) /\ ~HaloDue(r, v, n, s) =>
      data[r][v][n][s] = data[r][v][n]["ext"]

RankCoherent(r) ==
  FullReach(Start(script), Full(r)) /\ GotContent(r) /\ FlagsKnown(r) /\ HalosKept(r)

CoherenceInv ==
  /\ MatchInv
  /\ UniformCalls =>
       \A r \in Rank : /\ RankCoherent(r)
                       /\ \A s \in Side : MpiContent(r, s) /\ ShmContent(r, s)

-----------------------------------------------------------------------------
(* The sequence of states.                                                 *)

LEMMA EvalExtType ==
  ASSUME NEW x \in ProgState, x.op <= Len(x.script), NEW E \in ExtType
  PROVE  EvalExt(x, E) \in ExtType
<1>1. x.op \in Int /\ x.step \in Int /\ XStop(x) \in Int /\ StepDir \in Int
  BY FieldType, XStopInt, HaloAssumption
<1>2. XSteps(x) \subseteq Int
  BY <1>1 DEF XSteps
<1>3. ASSUME NEW v \in Var, NEW n \in Slot
      PROVE  XLast(x, v, n) \in Int
  <2> DEFINE U == {u \in XComputed(x, v) : Wrap(v, u) = n}
  <2>1. U \in SUBSET Int
    BY <1>1, <1>2 DEF XComputed
  <2>2. XLast(x, v, n) = IF StepDir > 0 THEN High(U) ELSE Low(U)
    BY DEF XLast
  <2> HIDE DEF U
  <2> QED
    BY <2>1, <2>2, HighLowInt
<1>4. ASSUME NEW v \in Var, NEW n \in Slot
      PROVE  [gen |-> x.op, step |-> XLast(x, v, n)] \in Value /\ E[v][n] \in Value
  BY <1>1, <1>3 DEF Value, ExtType
<1> QED
  BY <1>4 DEF EvalExt, ExtType

LEMMA CallExtType ==
  ASSUME NEW x \in ProgState, x.op <= Len(x.script), NEW E \in ExtType
  PROVE  CallExt(x, E) \in ExtType
<1> DEFINE c == XCall(x)
<1>1. c.var \in Var /\ c.first \in Int /\ x.op \in Int
  BY XCallType, FieldType DEF Call
<1>2. [gen |-> x.op, step |-> 0] \in Value /\ Garbage \in Value
      /\ [gen |-> x.op, step |-> StepOf(c.var, c.first)] \in Value
  BY <1>1 DEF Value, Garbage, StepOf
<1>3. CASE c.kind = "fill"
  <2>1. CallExt(x, E) = [E EXCEPT ![c.var] = [n \in Slot |-> [gen |-> x.op, step |-> 0]]]
    BY <1>3 DEF CallExt
  <2>2. [n \in Slot |-> [gen |-> x.op, step |-> 0]] \in [Slot -> Value]
    BY <1>2
  <2> HIDE DEF c
  <2> QED
    BY <2>1, <2>2 DEF ExtType
<1>4. CASE c.kind \in {"slice", "elems"}
  <2>1. CallExt(x, E) = [E EXCEPT ![c.var][Wrap(c.var, c.first)] =
                           [gen |-> x.op, step |-> StepOf(c.var, c.first)]]
    BY <1>4 DEF CallExt
  <2> HIDE DEF c
  <2> QED
    BY <1>1, <1>2, <2>1, WrapSlot DEF ExtType
<1>5. CASE c.kind = "tune" /\ TuneSteps # {}
  <2>1. CallExt(x, E) = TuneExt(CHOOSE k \in TuneSteps : TRUE, E)
    BY <1>5 DEF CallExt
  <2>2. ASSUME NEW k
        PROVE  TuneExt(k, E) \in ExtType
    <3>1. \A v \in Var, n \in Slot : E[v][n] \in Value
      BY DEF ExtType
    <3> QED
      BY <1>2, <3>1 DEF TuneExt, ExtType
  <2> QED
    BY <2>1, <2>2
<1>6. CASE c.kind \notin {"fill", "slice", "elems"} /\ ~(c.kind = "tune" /\ TuneSteps # {})
  BY <1>6 DEF CallExt
<1> QED
  BY <1>3, <1>4, <1>5, <1>6

LEMMA MoveType ==
  ASSUME NEW y \in FullState
  PROVE  Move(y) \in FullState
<1> DEFINE x == y.prog
           E == y.ext
<1>1. x \in ProgState /\ E \in ExtType
  BY DEF FullState
<1>2. Nxt(x) \in ProgState
  BY <1>1, NxtFollows
<1>3. Nxt(x) # x => x.op <= Len(x.script)
  <2>1. x.op \in Nat /\ x.script \in Seq(Call)
    BY <1>1, FieldType, HaloAssumption
  <2>2. x.op > Len(x.script) => Nxt(x) = x
    BY DEF Nxt
  <2> HIDE DEF x
  <2> QED
    BY <2>1, <2>2
<1> HIDE DEF x, E
<1>4. NextExt(x, E) \in ExtType
  BY <1>1, <1>3, CallExtType, EvalExtType DEF NextExt
<1> QED
  BY <1>2, <1>4 DEF Move, FullState, x, E

LEMMA FullReachStep ==
  ASSUME NEW y, NEW z, FullReach(y, z)
  PROVE  FullReach(y, Move(z)) /\ FullReach(y, y)
BY DEF FullReach

LEMMA FullReachFirst ==
  ASSUME NEW y, NEW z, FullReach(y, z)
  PROVE  z = y \/ FullReach(Move(y), z)
<1> SUFFICES ASSUME z # y, NEW S, Move(y) \in S, \A w \in S : Move(w) \in S
             PROVE  z \in S
  BY DEF FullReach
<1>1. y \in S \cup {y} /\ \A w \in S \cup {y} : Move(w) \in S \cup {y}
  OBVIOUS
<1>2. z \in S \cup {y}
  BY <1>1 DEF FullReach
<1> QED
  BY <1>2

LEMMA FullBetween ==
  ASSUME NEW y \in FullState, NEW z, FullReach(y, z)
  PROVE  /\ z \in FullState
         /\ z.prog.at \in Exchanges /\ z # y => Len(y.prog.trail) < Len(z.prog.trail)
<1> DEFINE S == {w \in FullState :
                   /\ Begins(y.prog.trail, w.prog.trail)
                   /\ w.prog.at \in Exchanges /\ w # y =>
                        Len(y.prog.trail) < Len(w.prog.trail)}
<1>t. \A w \in FullState : w.prog \in ProgState /\ w.prog.trail \in Seq(ExchangeRecord)
  BY FieldType DEF FullState
<1>1. y \in S
  BY <1>t DEF Begins
<1>2. ASSUME NEW w \in S
      PROVE  Move(w) \in S
  <2> DEFINE x == w.prog
  <2>1. Nxt(x) = x \/ Follows(x, Nxt(x))
    BY <1>t, NxtFollows
  <2>2. Move(w) \in FullState /\ Move(w).prog = Nxt(x)
    BY MoveType DEF Move
  <2>3. CASE Nxt(x) = x
    <3>1. NextExt(x, w.ext) = w.ext
      BY <2>3 DEF NextExt
    <3>2. Move(w) = w
      BY <2>3, <3>1 DEF Move, FullState
    <3> QED
      BY <3>2
  <2>4. CASE Follows(x, Nxt(x))
    <3> DEFINE m == Move(w)
               a == y.prog.trail
               b == x.trail
               d == Nxt(x).trail
    <3>1. a \in Seq(ExchangeRecord) /\ b \in Seq(ExchangeRecord) /\ Begins(a, b)
      BY <1>t
    <3>2. d = b \/ \E e \in ExchangeRecord : d = Append(b, e)
      BY <2>4 DEF Follows
    <3>3. Nxt(x).at \in Exchanges => d # b
      BY <2>4 DEF Follows
    <3> HIDE DEF a, b, d
    <3>4. Begins(a, d) /\ (d # b => Len(a) < Len(d))
      BY <3>1, <3>2, BeginsAppend
    <3>5. m.prog.trail = d /\ m.prog.at = Nxt(x).at /\ m \in FullState
      BY <2>2 DEF d
    <3> HIDE DEF m
    <3>6. m \in S
      BY <3>3, <3>4, <3>5 DEF a
    <3> QED
      BY <3>6 DEF m
  <2> QED
    BY <2>1, <2>3, <2>4
<1> HIDE DEF S
<1>3. z \in S
  BY <1>1, <1>2 DEF FullReach
<1> QED
  BY <1>3 DEF S

(* Of two states that a rank comes to one comes after the other, and a     *)
(* rank is only once at the beginning of an exchange.                      *)
LEMMA OneExchange ==
  ASSUME NEW a \in FullState, NEW y, NEW z, FullReach(a, y), FullReach(a, z),
         y.prog.at \in Exchanges, z.prog.at \in Exchanges,
         Len(y.prog.trail) = Len(z.prog.trail)
  PROVE  y = z
<1> DEFINE S == {w \in FullState : FullReach(w, y) \/ FullReach(y, w)}
<1>1. a \in S
  OBVIOUS
<1>2. ASSUME NEW w \in S
      PROVE  Move(w) \in S
  <2>1. Move(w) \in FullState
    BY MoveType
  <2>2. CASE FullReach(w, y)
    <3>1. CASE y = w
      BY <2>1, <2>2, <3>1, FullReachStep
    <3>2. CASE FullReach(Move(w), y)
      BY <2>1, <3>2
    <3> QED
      BY <2>2, <3>1, <3>2, FullReachFirst
  <2>3. CASE FullReach(y, w)
    BY <2>1, <2>3, FullReachStep
  <2> QED
    BY <2>2, <2>3
<1> HIDE DEF S
<1>3. z \in S
  BY <1>1, <1>2 DEF FullReach
<1>4. FullReach(z, y) \/ FullReach(y, z)
  BY <1>3 DEF S
<1>5. y \in FullState /\ z \in FullState
  BY FullBetween
<1>6. Len(y.prog.trail) \in Nat
  <2>1. y.prog.trail \in Seq(ExchangeRecord)
    BY <1>5, FieldType DEF FullState
  <2> QED
    BY <2>1
<1> QED
  BY <1>4, <1>5, <1>6, FullBetween

-----------------------------------------------------------------------------
(* Every rank goes through that sequence.                                  *)

LEMMA FullParts ==
  ASSUME HaloInv, NEW r \in Rank
  PROVE  /\ Full(r) \in FullState /\ Full(r).prog = Prog(r) /\ Full(r).ext = Exterior(r)
         /\ \A v \in Var, n \in Slot : Full(r).ext[v][n] = data[r][v][n]["ext"]
<1>1. data[r] \in [Var -> [Slot -> [Zone -> Value]]] /\ "ext" \in Zone
  BY DEF HaloInv, TypeOK, Zone
<1>2. Exterior(r) \in ExtType
  BY <1>1 DEF Exterior, ExtType
<1>3. Prog(r) \in ProgState
  BY ProgType
<1> QED
  BY <1>2, <1>3 DEF Full, FullState, Exterior

LEMMA StillExt ==
  ASSUME NEW x, NEW E,
         \/ x.at \notin {"call", "packs"}
         \/ x.at = "packs" /\ XSkips(x)
         \/ x.at = "call" /\ XCall(x).kind \notin {"fill", "slice", "elems", "tune"}
  PROVE  NextExt(x, E) = E
BY DEF NextExt, CallExt

Moved(r) == Full(r)' = Full(r) \/ Full(r)' = Move(Full(r))

LEMMA MovedBy ==
  ASSUME NEW r \in Rank, Advances(r),
         \/ Exterior(r)' = Exterior(r) /\ NextExt(Prog(r), Exterior(r)) = Exterior(r)
         \/ Exterior(r)' = Exterior(r) /\ Prog(r)' = Prog(r)
         \/ Exterior(r)' = NextExt(Prog(r), Exterior(r)) /\ Prog(r)' # Prog(r)
  PROVE  Moved(r)
<1> DEFINE x == Prog(r)
           E == Exterior(r)
<1>1. Full(r) = [prog |-> x, ext |-> E]
  BY DEF Full
<1>2. Full(r)' = [prog |-> x', ext |-> E']
  BY DEF Full
<1>3. x' = x \/ x' = Nxt(x)
  BY DEF Advances
<1> HIDE DEF x, E
<1>4. Move(Full(r)) = [prog |-> Nxt(x), ext |-> NextExt(x, E)]
  BY <1>1 DEF Move
<1>5. CASE E' = E /\ NextExt(x, E) = E
  BY <1>1, <1>2, <1>3, <1>4, <1>5 DEF Moved
<1>6. CASE E' = E /\ x' = x
  BY <1>1, <1>2, <1>6 DEF Moved
<1>7. CASE E' = NextExt(x, E) /\ x' # x
  BY <1>2, <1>3, <1>4, <1>7 DEF Moved
<1> QED
  BY <1>5, <1>6, <1>7 DEF x, E

LEMMA ExteriorSame ==
  ASSUME NEW r \in Rank, data'[r] = data[r]
  PROVE  Exterior(r)' = Exterior(r)
BY DEF Exterior

(* Where a rank is when it is at a call or at a pack.                      *)
LEMMA AtCall ==
  ASSUME HaloInv, NEW r \in Rank, pc[r] = "call", op[r] <= Len(script)
  PROVE  /\ ~Tuned(r) /\ Prog(r).at = "call" /\ XCall(Prog(r)) = CurCall(r)
         /\ Prog(r).op = op[r]
<1>1. ~Tuned(r) /\ At(r) = "call"
  BY DEF Tuned, At, Halfway, Ending
<1> QED
  BY <1>1, ProgFields, ProgOps

LEMMA AtPacks ==
  ASSUME HaloInv, NEW r \in Rank, pc[r] = "packs"
  PROVE  /\ ~Tuned(r) /\ Prog(r).at = "packs" /\ (XSkips(Prog(r)) <=> Skips(r))
         /\ Prog(r).op = op[r]
<1>1. ~Tuned(r) /\ At(r) = "packs"
  BY DEF Tuned, At, Halfway, Ending
<1> QED
  BY <1>1, ProgFields, ProgOps

(* An exchange begins, goes on or ends: the exterior stays.                *)
LEMMA AtExchange ==
  ASSUME NEW r \in Rank, pc[r] \in InExchange
  PROVE  Prog(r).at \in Exchanges /\ Prog(r).at \notin {"call", "packs"}
<1>1. At(r) \in Exchanges /\ At(r) \notin {"call", "packs"}
  BY DEF At, InExchange, Whole, Halfway, Ending, Exchanges
<1> QED
  BY <1>1, ProgFields

LEMMA BeginMoved ==
  ASSUME HaloInv, NEW r \in Rank, BeginRun(r) \/ BeginEnd(r)
  PROVE  Moved(r)
<1>1. /\ pc[r] = "call" /\ op[r] <= Len(script) /\ data' = data
      /\ CurCall(r).kind \notin {"fill", "slice", "elems", "tune"}
  BY DEF BeginRun, BeginEnd, Calling
<1>2. Advances(r)
  BY BeginStep
<1>3. NextExt(Prog(r), Exterior(r)) = Exterior(r)
  BY <1>1, AtCall, StillExt
<1> QED
  BY <1>1, <1>2, <1>3, ExteriorSame, MovedBy

LEMMA EvalMoved ==
  ASSUME HaloInv, NEW r \in Rank, RequestInv(r), EvalExterior(r) \/ EvalAll(r)
  PROVE  Moved(r)
<1> DEFINE x == Prog(r)
           E == Exterior(r)
<1>t. data \in [Rank -> [Var -> [Slot -> [Zone -> Value]]]] /\ "ext" \in Zone
      /\ trail[r] \in Seq(ExchangeRecord)
  BY DEF HaloInv, TypeOK, Zone
<1>1. pc[r] = "packs" /\ ~Skips(r)
  BY DEF EvalExterior, EvalAll
<1>2. Advances(r)
  BY EvalStep
<1>3. x' # x
  <2>1. \E e \in ExchangeRecord : trail'[r] = Append(trail[r], e)
    BY BeginView
  <2>2. trail'[r] # trail[r]
    BY <1>t, <2>1
  <2>3. x.trail = trail[r] /\ (x.trail)' = trail'[r]
    BY DEF Prog, State
  <2> HIDE DEF x
  <2> QED
    BY <2>2, <2>3
<1>4. Nxt(x) # x /\ x.at = "packs" /\ ~XSkips(x)
  BY <1>1, <1>2, <1>3, AtPacks DEF Advances
<1>5. NextExt(x, E) = EvalExt(x, E)
  BY <1>4 DEF NextExt
<1>6. \E Z : "ext" \in Z /\ data'[r] = DataAfter(r, Z)
  <2>1. CASE EvalExterior(r)
    BY <1>t, <2>1 DEF EvalExterior
  <2>2. CASE EvalAll(r)
    BY <1>t, <2>2 DEF EvalAll
  <2> QED
    BY <2>1, <2>2
<1>7. PICK Z : "ext" \in Z /\ data'[r] = DataAfter(r, Z)
  BY <1>6
<1>8. /\ x.op = op[r] /\ XSteps(x) = Steps(r) /\ XSelected(x) = Selected(r)
  <2>1. ~Tuned(r)
    BY <1>1, AtPacks
  <2>2. /\ x.op = op[r] /\ x.step = step[r] /\ x.pack = pack[r] /\ XStop(x) = StopT(r)
    BY <2>1, ProgFields, ProgOps
  <2> HIDE DEF x
  <2> QED
    BY <2>2 DEF XSteps, Steps, XSelected, Selected
<1>9. ASSUME NEW v \in Var
      PROVE  XComputed(x, v) = Computed(r, v)
  BY <1>8 DEF XComputed, Computed
<1>10. ASSUME NEW v \in Var, NEW n \in Slot
       PROVE  data'[r][v][n]["ext"] = EvalExt(x, E)[v][n]
  <2> DEFINE U == {u \in Computed(r, v) : Wrap(v, u) = n}
             u == IF StepDir > 0 THEN High(U) ELSE Low(U)
  <2>1. data'[r][v][n]["ext"] =
          IF U # {} THEN [gen |-> op[r], step |-> u] ELSE data[r][v][n]["ext"]
    BY <1>t, <1>7 DEF DataAfter
  <2>2. EvalExt(x, E)[v][n] = IF U # {} THEN [gen |-> x.op, step |-> u] ELSE E[v][n]
    BY <1>9 DEF EvalExt, XLast
  <2>3. E[v][n] = data[r][v][n]["ext"]
    BY DEF Exterior
  <2> HIDE DEF U, u, x, E
  <2> QED
    BY <1>8, <2>1, <2>2, <2>3
<1>11. E' = EvalExt(x, E)
  <2>1. EvalExt(x, E) = [v \in Var |-> [n \in Slot |-> EvalExt(x, E)[v][n]]]
    BY DEF EvalExt
  <2>2. E' = [v \in Var |-> [n \in Slot |-> data'[r][v][n]["ext"]]]
    BY DEF Exterior
  <2> HIDE DEF x, E
  <2> QED
    BY <1>10, <2>1, <2>2
<1> HIDE DEF x, E
<1>12. E' = NextExt(x, E)
  BY <1>5, <1>11
<1> QED
  BY <1>2, <1>3, <1>12, MovedBy DEF x, E

LEMMA SkipMoved ==
  ASSUME HaloInv, NEW r \in Rank, RequestInv(r), SkipPack(r)
  PROVE  Moved(r)
<1>1. pc[r] = "packs" /\ Skips(r) /\ data' = data
  BY DEF SkipPack
<1>2. NextExt(Prog(r), Exterior(r)) = Exterior(r)
  BY <1>1, AtPacks, StillExt
<1> QED
  BY <1>1, <1>2, SkipPackStep, ExteriorSame, MovedBy

(* Unpacking writes the halos alone, the second half the interior.         *)
LEMMA UnpackExterior ==
  ASSUME HaloInv, NEW r \in Rank, NEW v \in Var, NEW s \in Side, NEW b, Unpack(r, v, s, b)
  PROVE  /\ \A u \in Var, n \in Slot, z \in Zone \ {s} : data'[r][u][n][z] = data[r][u][n][z]
         /\ \A u \in Var, n \in Slot, z \in Zone : u # v => data'[r][u][n][z] = data[r][u][n][z]
         /\ Exterior(r)' = Exterior(r)
<1>t. data \in [Rank -> [Var -> [Slot -> [Zone -> Value]]]]
      /\ "ext" \in Zone \ {s} /\ s \in Zone
  BY DEF HaloInv, TypeOK, Zone, Side
<1> DEFINE X == Unpacked(data[r], v, swap[r][v], s, b)
<1>1. data' = [data EXCEPT ![r][v] = X]
  BY DEF Unpack
<1>2. \A n \in Slot, z \in Zone \ {s} : X[n][z] = data[r][v][n][z]
  BY <1>t DEF Unpacked
<1> HIDE DEF X
<1>3. data'[r][v] = X /\ \A u \in Var : u # v => data'[r][u] = data[r][u]
  BY <1>t, <1>1
<1>4. \A u \in Var, n \in Slot, z \in Zone \ {s} : data'[r][u][n][z] = data[r][u][n][z]
  BY <1>2, <1>3
<1>5. \A u \in Var, n \in Slot, z \in Zone : u # v => data'[r][u][n][z] = data[r][u][n][z]
  BY <1>3
<1>6. \A u \in Var, n \in Slot : data'[r][u][n]["ext"] = data[r][u][n]["ext"]
  BY <1>t, <1>4
<1> QED
  BY <1>4, <1>5, <1>6 DEF Exterior

LEMMA InteriorExterior ==
  ASSUME HaloInv, NEW r \in Rank, EvalInterior(r)
  PROVE  /\ \A v \in Var, n \in Slot, z \in Zone \ {"int"} :
              data'[r][v][n][z] = data[r][v][n][z]
         /\ Exterior(r)' = Exterior(r)
<1>t. DOMAIN data = Rank /\ "ext" \in Zone \ {"int"}
  BY DEF HaloInv, TypeOK, Zone
<1>1. data'[r] = DataAfter(r, {"int"})
  BY <1>t DEF EvalInterior
<1>2. \A v \in Var, n \in Slot, z \in Zone \ {"int"} : data'[r][v][n][z] = data[r][v][n][z]
  BY <1>1 DEF DataAfter
<1>3. \A u \in Var, n \in Slot : data'[r][u][n]["ext"] = data[r][u][n]["ext"]
  BY <1>t, <1>2
<1> QED
  BY <1>2, <1>3 DEF Exterior

LEMMA ExchangeMoved ==
  ASSUME HaloInv, NEW r \in Rank, RequestInv(r), ExchangeInv(r),
         \/ EvalInterior(r) \/ ExchangeDone(r)
         \/ \E v \in Var, s \in Side :
              \/ Irecv(r, v, s) \/ PackIsend(r, v, s) \/ PackShm(r, v, s)
              \/ UnpackMpi(r, v, s) \/ UnpackShm(r, v, s) \/ Final(r, v, s)
  PROVE  Moved(r) /\ Exterior(r)' = Exterior(r) /\ pc[r] \in InExchange
<1>1. pc[r] \in InExchange
  <2>1. CASE EvalInterior(r) \/ ExchangeDone(r)
    BY <2>1 DEF EvalInterior, ExchangeDone, InExchange, Whole, Halfway
  <2>2. ASSUME NEW v \in Var, NEW s \in Side,
               \/ Irecv(r, v, s) \/ PackIsend(r, v, s) \/ PackShm(r, v, s)
               \/ UnpackMpi(r, v, s) \/ UnpackShm(r, v, s) \/ Final(r, v, s)
        PROVE  pc[r] \in InExchange
    <3>1. todo[r] # {}
      BY <2>2 DEF Irecv, PackIsend, PackShm, UnpackMpi, UnpackShm, Final, IsHead
    <3> QED
      BY <3>1 DEF RequestInv, ThingsDue, InExchange, Halfway
  <2> QED
    BY <2>1, <2>2
<1>2. Advances(r)
  BY EvalInteriorStep, ExchangeDoneStep, SendStep, UnpackStep, FinalStep
<1>3. Exterior(r)' = Exterior(r)
  <2>1. CASE EvalInterior(r)
    BY <2>1, InteriorExterior
  <2>2. CASE ExchangeDone(r)
    BY <2>2, ExteriorSame DEF ExchangeDone
  <2>3. ASSUME NEW v \in Var, NEW s \in Side,
               Irecv(r, v, s) \/ PackIsend(r, v, s) \/ PackShm(r, v, s) \/ Final(r, v, s)
        PROVE  Exterior(r)' = Exterior(r)
    BY <2>3, ExteriorSame DEF Irecv, PackIsend, PackShm, Final
  <2>4. ASSUME NEW v \in Var, NEW s \in Side, UnpackMpi(r, v, s) \/ UnpackShm(r, v, s)
        PROVE  Exterior(r)' = Exterior(r)
    BY <2>4, UnpackExterior DEF UnpackMpi, UnpackShm
  <2> QED
    BY <2>1, <2>2, <2>3, <2>4
<1>4. NextExt(Prog(r), Exterior(r)) = Exterior(r)
  BY <1>1, AtExchange, StillExt
<1> QED
  BY <1>1, <1>2, <1>3, <1>4, MovedBy

(* One var, or one step of a var, gets the same value everywhere.          *)
Table(E) == E = [v \in Var |-> [n \in Slot |-> E[v][n]]]
VarSet(D, E, w, x) ==
  \A v \in Var, n \in Slot : D[v][n] = IF v = w THEN x ELSE E[v][n]
SlotSet(D, E, w, m, x) ==
  \A v \in Var, n \in Slot : D[v][n] = IF v = w /\ n = m THEN x ELSE E[v][n]
VarWith(E, w, x) == [E EXCEPT ![w] = [n \in Slot |-> x]]
SlotWith(E, w, m, x) == [E EXCEPT ![w][m] = x]

LEMMA ExtSetVar ==
  ASSUME NEW E, NEW D, NEW w \in Var, NEW x, Table(E), Table(D), VarSet(D, E, w, x)
  PROVE  D = VarWith(E, w, x)
<1> USE DEF Table, VarSet, VarWith
<1> DEFINE F == [E EXCEPT ![w] = [n \in Slot |-> x]]
<1>1. F = [v \in Var |-> IF v = w THEN [n \in Slot |-> x] ELSE E[v]]
  OBVIOUS
<1>2. \A v \in Var : D[v] = IF v = w THEN [n \in Slot |-> x] ELSE E[v]
  <2> SUFFICES ASSUME NEW v \in Var
               PROVE  D[v] = IF v = w THEN [n \in Slot |-> x] ELSE E[v]
    OBVIOUS
  <2>1. D[v] = [n \in Slot |-> D[v][n]] /\ E[v] = [n \in Slot |-> E[v][n]]
    OBVIOUS
  <2> QED
    BY <2>1
<1>3. D = [v \in Var |-> D[v]]
  OBVIOUS
<1> QED
  BY <1>1, <1>2, <1>3

LEMMA ExtSetSlot ==
  ASSUME NEW E, NEW D, NEW w \in Var, NEW m \in Slot, NEW x, Table(E), Table(D),
         SlotSet(D, E, w, m, x)
  PROVE  D = SlotWith(E, w, m, x)
<1> USE DEF Table, SlotSet, SlotWith
<1> DEFINE G == [E[w] EXCEPT ![m] = x]
<1>0. E[w] = [n \in Slot |-> E[w][n]]
  OBVIOUS
<1>1. [E EXCEPT ![w][m] = x] = [v \in Var |-> IF v = w THEN G ELSE E[v]]
  OBVIOUS
<1>2. G = [n \in Slot |-> IF n = m THEN x ELSE E[w][n]]
  BY <1>0
<1>3. \A v \in Var : D[v] = IF v = w THEN G ELSE E[v]
  <2> SUFFICES ASSUME NEW v \in Var
               PROVE  D[v] = IF v = w THEN G ELSE E[v]
    OBVIOUS
  <2>1. D[v] = [n \in Slot |-> D[v][n]] /\ E[v] = [n \in Slot |-> E[v][n]]
    OBVIOUS
  <2> HIDE DEF G
  <2> QED
    BY <1>2, <2>1
<1>4. D = [v \in Var |-> D[v]]
  OBVIOUS
<1> HIDE DEF G
<1> QED
  BY <1>1, <1>3, <1>4

(* The values that a call sets.                                            *)
LEMMA CallMoved ==
  ASSUME HaloInv, NEW r \in Rank, RequestInv(r), UniformCalls,
         \/ Fill(r) \/ SetSlice(r) \/ SetElems(r) \/ SetPoint(r)
         \/ BeginPrepare(r) \/ \E k \in TuneSteps : Tune(r, k)
  PROVE  Moved(r)
<1> DEFINE x == Prog(r)
           E == Exterior(r)
           c == CurCall(r)
<1>t. /\ data \in [Rank -> [Var -> [Slot -> [Zone -> Value]]]] /\ "ext" \in Zone
      /\ pc \in [Rank -> PcType] /\ op \in [Rank -> Nat \ {0}] /\ script \in Seq(Call)
  BY HaloAssumption DEF HaloInv, TypeOK, Zone, PcType
<1>1. pc[r] = "call" /\ op[r] <= Len(script) /\ script' = script
  BY DEF Fill, SetSlice, SetElems, SetPoint, Tune, BeginPrepare, Calling
<1>2. Advances(r)
  BY CallStep
<1>3. x.at = "call" /\ XCall(x) = c /\ x.op = op[r]
  BY <1>1, AtCall
<1>4. op[r] \in DOMAIN script
  BY <1>t, <1>1
<1>5. c \in Call /\ c.kind # "point"
  BY <1>4, CallType DEF UniformCalls, CurCall
<1>6. c.var \in Var /\ c.first \in Int
  BY <1>5 DEF Call
<1>7. Wrap(c.var, c.first) \in Slot
  BY <1>6, WrapSlot
<1>8. E' = [v \in Var |-> [n \in Slot |-> data'[r][v][n]["ext"]]]
      /\ E = [v \in Var |-> [n \in Slot |-> data[r][v][n]["ext"]]]
  BY DEF Exterior
<1>f. /\ E = [v \in Var |-> [n \in Slot |-> E[v][n]]]
      /\ E' = [v \in Var |-> [n \in Slot |-> E'[v][n]]]
      /\ \A v \in Var, n \in Slot :
           E[v][n] = data[r][v][n]["ext"] /\ E'[v][n] = data'[r][v][n]["ext"]
  BY <1>8
<1>9. x' # x => Nxt(x) # x
  BY <1>2 DEF Advances
<1>10. ASSUME x' # x
       PROVE  NextExt(x, E) = CallExt(x, E)
  BY <1>3, <1>9, <1>10 DEF NextExt
<1>11. x'.op = IF Tuned(r)' THEN op'[r] + 1 ELSE op'[r]
  BY DEF Prog, State
<1>12. ASSUME op'[r] = op[r] + 1, pc'[r] = "call"
       PROVE  x' # x
  <2>1. ~Tuned(r)'
    BY <1>12 DEF Tuned
  <2>2. x'.op = op[r] + 1
    BY <1>11, <1>12, <2>1
  <2> HIDE DEF x
  <2> QED
    BY <1>t, <1>3, <2>2
<1>13. CASE Fill(r)
  <2> DEFINE val == [gen |-> op[r], step |-> 0]
  <2>1. /\ c.kind = "fill" /\ pc'[r] = "call" /\ op'[r] = op[r] + 1
        /\ data' = [data EXCEPT ![r][c.var] = [n \in Slot |-> [z \in Zone |-> val]]]
    BY <1>t, <1>13 DEF Fill, Calling, Returns
  <2>2. CallExt(x, E) = [E EXCEPT ![c.var] = [n \in Slot |-> val]]
    BY <1>3, <2>1 DEF CallExt
  <2> HIDE DEF x, c, val
  <2>3. \A v \in Var, n \in Slot :
          data'[r][v][n]["ext"] = IF v = c.var THEN val ELSE data[r][v][n]["ext"]
    BY <1>t, <1>6, <2>1
  <2> HIDE DEF E
  <2>4. E' = [E EXCEPT ![c.var] = [n \in Slot |-> val]]
    <3> DEFINE D == E'
    <3>1. VarSet(D, E, c.var, val) /\ Table(D) /\ Table(E)
      BY <1>f, <2>3 DEF VarSet, Table
    <3> HIDE DEF D
    <3>2. D = VarWith(E, c.var, val)
      BY <1>6, <3>1, ExtSetVar
    <3> QED
      BY <3>2 DEF D, VarWith
  <2>5. x' # x
    BY <1>12, <2>1
  <2>6. E' = NextExt(x, E)
    BY <1>10, <2>2, <2>4, <2>5
  <2> QED
    BY <1>2, <2>5, <2>6, MovedBy DEF x, E
<1>14. CASE SetSlice(r) \/ SetElems(r)
  <2> DEFINE val == [gen |-> op[r], step |-> StepOf(c.var, c.first)]
             m == Wrap(c.var, c.first)
  <2>1. /\ c.kind \in {"slice", "elems"} /\ pc'[r] = "call" /\ op'[r] = op[r] + 1
        /\ data' = OwnZonesSet(r, c, {"ext", "int"})
    BY <1>t, <1>14 DEF SetSlice, SetElems, Calling, Returns
  <2>2. CallExt(x, E) = [E EXCEPT ![c.var][m] = val]
    BY <1>3, <2>1 DEF CallExt
  <2>3. data' = [data EXCEPT ![r][c.var][m] =
                   [z \in Zone |-> IF z \in {"ext", "int"} THEN val ELSE @[z]]]
    BY <2>1 DEF OwnZonesSet
  <2> HIDE DEF x, c, val, m
  <2>4. \A v \in Var, n \in Slot :
          data'[r][v][n]["ext"] = IF v = c.var /\ n = m THEN val ELSE data[r][v][n]["ext"]
    BY <1>t, <1>6, <1>7, <2>3 DEF m
  <2> HIDE DEF E
  <2>5. E' = [E EXCEPT ![c.var][m] = val]
    <3> DEFINE D == E'
    <3>1. SlotSet(D, E, c.var, m, val) /\ Table(D) /\ Table(E)
      BY <1>f, <2>4 DEF SlotSet, Table
    <3>2. m \in Slot
      BY <1>7 DEF m
    <3> HIDE DEF D
    <3>3. D = SlotWith(E, c.var, m, val)
      BY <1>6, <3>1, <3>2, ExtSetSlot
    <3> QED
      BY <3>3 DEF D, SlotWith
  <2>6. x' # x
    BY <1>12, <2>1
  <2>7. E' = NextExt(x, E)
    BY <1>10, <2>2, <2>5, <2>6
  <2> QED
    BY <1>2, <2>6, <2>7, MovedBy DEF x, E
<1>15. CASE SetPoint(r)
  BY <1>5, <1>15 DEF SetPoint, Calling
<1>16. CASE BeginPrepare(r)
  <2>1. c.kind = "prepare" /\ data' = data
    BY <1>16 DEF BeginPrepare, Calling
  <2>2. NextExt(x, E) = E
    BY <1>3, <2>1, StillExt
  <2> QED
    BY <1>2, <2>1, <2>2, ExteriorSame, MovedBy
<1>17. ASSUME NEW k \in TuneSteps, Tune(r, k)
       PROVE  Moved(r)
  <2> DEFINE written == UNION {Packs[p].writes : p \in Pack}
             outs == {StepDir * i : i \in 1 .. k * Stride}
  <2>1. c.kind = "tune" /\ pc'[r] = "barrier" /\ op' = op
    BY <1>t, <1>17 DEF Tune, Calling
  <2>2. data'[r] = [v \in Var |-> [n \in Slot |-> [z \in Zone |->
                      IF /\ v \in written /\ z \in {"ext", "int"}
                         /\ \E t \in outs : Wrap(v, t) = n
                      THEN Garbage ELSE data[r][v][n][z]]]]
    BY <1>t, <1>17 DEF Tune
  <2>3. k = CHOOSE m \in TuneSteps : TRUE
    <3>1. \A m, n \in TuneSteps : m = n
      BY <1>4, <2>1 DEF UniformCalls, CurCall
    <3> QED
      BY <1>17, <3>1
  <2>4. TuneSteps # {}
    BY <1>17
  <2>5. CallExt(x, E) = TuneExt(k, E)
    BY <1>3, <2>1, <2>3, <2>4 DEF CallExt
  <2>6. x' # x
    <3>1. Tuned(r)'
      BY <1>1, <2>1 DEF Tuned, CurCall
    <3>2. x'.op = op[r] + 1
      BY <1>11, <2>1, <3>1
    <3> HIDE DEF x
    <3> QED
      BY <1>t, <1>3, <3>2
  <2> HIDE DEF written, outs
  <2>7. ASSUME NEW v \in Var, NEW n \in Slot
        PROVE  data'[r][v][n]["ext"] =
                 IF v \in written /\ \E t \in outs : Wrap(v, t) = n
                 THEN Garbage ELSE E[v][n]
    BY <1>t, <1>8, <2>2
  <2> HIDE DEF x, E
  <2>8. E' = TuneExt(k, E)
    <3> DEFINE D == E'
    <3>1. TuneExt(k, E) = [v \in Var |-> [n \in Slot |->
             IF v \in written /\ \E t \in outs : Wrap(v, t) = n
             THEN Garbage ELSE E[v][n]]]
      BY DEF TuneExt, written, outs
    <3>2. /\ \A v \in Var, n \in Slot : D[v][n] =
                IF v \in written /\ \E t \in outs : Wrap(v, t) = n
                THEN Garbage ELSE E[v][n]
          /\ D = [v \in Var |-> [n \in Slot |-> D[v][n]]]
      BY <1>f, <2>7
    <3> HIDE DEF D
    <3>3. D = TuneExt(k, E)
      BY <3>1, <3>2
    <3> QED
      BY <3>3 DEF D
  <2>9. E' = NextExt(x, E)
    BY <1>10, <2>5, <2>6, <2>8
  <2> QED
    BY <1>2, <2>6, <2>9, MovedBy DEF x, E
<1> QED
  BY <1>13, <1>14, <1>15, <1>16, <1>17

LEMMA BarrierMoved ==
  ASSUME HaloInv, NEW r \in Rank, RequestInv(r),
         LeaveBarrier(r) \/ LeaveAllocBarrier(r) \/ LeaveShmBarrier(r)
  PROVE  Moved(r) /\ data' = data
<1> DEFINE x == Prog(r)
<1>t. pc \in [Rank -> PcType] /\ op \in [Rank -> Nat \ {0}]
  BY DEF HaloInv, TypeOK, PcType
<1>1. /\ pc[r] \in Barriers /\ script' = script /\ data' = data
      /\ \/ pc'[r] = "call" /\ op'[r] = op[r] + 1
         \/ pc'[r] \in {"alloc_barrier", "shm_barrier"} /\ op'[r] = op[r]
  BY <1>t DEF LeaveBarrier, LeaveAllocBarrier, LeaveShmBarrier, Returns, Barriers
<1>2. Advances(r)
  BY BarrierStep
<1>3. CASE Tuned(r)
  <2>1. pc'[r] = "call" /\ op'[r] = op[r] + 1
    <3>1. CurCall(r).kind = "tune" /\ pc[r] = "barrier"
      BY <1>3 DEF Tuned
    <3> QED
      BY <1>t, <3>1 DEF LeaveBarrier, LeaveAllocBarrier, LeaveShmBarrier, Returns
  <2>2. At(r) = "call" /\ At(r)' = "call" /\ ~Tuned(r)'
    BY <1>3, <2>1 DEF Tuned, At, Ending, Halfway
  <2>3. x.op = op[r] + 1 /\ x.at = "call"
    BY <1>3, <2>2, ProgFields
  <2>4. x'.op = op[r] + 1 /\ x'.at = "call"
    BY <2>1, <2>2 DEF Prog, State
  <2>5. Nxt(x) = x \/ Later(x, Nxt(x))
    BY ProgType, NxtFollows DEF Follows
  <2> HIDE DEF x
  <2>6. x' = x
    <3>1. ~Later(x, x')
      BY <1>t, <2>3, <2>4 DEF Later, Stage
    <3> QED
      BY <1>2, <2>5, <3>1 DEF Advances, x
  <2> QED
    BY <1>1, <1>2, <2>6, ExteriorSame, MovedBy DEF x
<1>4. CASE ~Tuned(r)
  <2>1. NextExt(x, Exterior(r)) = Exterior(r)
    <3>1. CASE CurCall(r).kind = "prepare"
      <4>1. At(r) = "call" /\ XCall(x) = CurCall(r)
        BY <1>1, <1>4, <3>1, ProgOps DEF At, Ending, Halfway, Barriers
      <4> QED
        BY <3>1, <4>1, ProgFields, StillExt
    <3>2. CASE CurCall(r).kind = "end" /\ pc[r] = "barrier"
      <4>1. At(r) = "ending"
        BY <3>2 DEF At, Ending, Halfway
      <4> QED
        BY <4>1, ProgFields, StillExt
    <3> QED
      BY <1>1, <1>4, <3>1, <3>2 DEF RequestInv, PlaceInCall, Tuned, Barriers
  <2> QED
    BY <1>1, <1>2, <2>1, ExteriorSame, MovedBy
<1> QED
  BY <1>1, <1>3, <1>4

LEMMA StepMoved ==
  ASSUME HaloInv, NEW r \in Rank, RequestInv(r), ExchangeInv(r), UniformCalls, RankStep(r)
  PROVE  Moved(r)
<1>1. CASE BeginRun(r) \/ BeginEnd(r)
  BY <1>1, BeginMoved
<1>2. CASE EvalExterior(r) \/ EvalAll(r)
  BY <1>2, EvalMoved
<1>3. CASE SkipPack(r)
  BY <1>3, SkipMoved
<1>4. CASE EvalInterior(r) \/ ExchangeDone(r)
  BY <1>4, ExchangeMoved
<1>5. ASSUME NEW v \in Var, NEW s \in Side,
             \/ Irecv(r, v, s) \/ PackIsend(r, v, s) \/ PackShm(r, v, s)
             \/ UnpackMpi(r, v, s) \/ UnpackShm(r, v, s) \/ Final(r, v, s)
      PROVE  Moved(r)
  BY <1>5, ExchangeMoved
<1>6. CASE \/ Fill(r) \/ SetSlice(r) \/ SetElems(r) \/ SetPoint(r)
           \/ BeginPrepare(r) \/ \E k \in TuneSteps : Tune(r, k)
  BY <1>6, CallMoved
<1>7. CASE LeaveBarrier(r) \/ LeaveAllocBarrier(r) \/ LeaveShmBarrier(r)
  BY <1>7, BarrierMoved
<1> QED
  BY <1>1, <1>2, <1>3, <1>4, <1>5, <1>6, <1>7 DEF RankStep

(* Everything but the sender's locks and MPI's messages is a rank's own.   *)
LEMMA StepOthersData ==
  ASSUME HaloInv, NEW r \in Rank, RankStep(r), NEW x \in Rank, x # r
  PROVE  data'[x] = data[x] /\ sendBuf'[x] = sendBuf[x] /\ recvBuf'[x] = recvBuf[x]
<1> USE DEF bufs
<1>t. DOMAIN data = Rank /\ DOMAIN sendBuf = Rank /\ DOMAIN recvBuf = Rank
  BY DEF HaloInv, TypeOK
<1>1. CASE BeginRun(r) \/ BeginEnd(r) \/ SkipPack(r) \/ ExchangeDone(r) \/ BeginPrepare(r)
  BY <1>1 DEF BeginRun, BeginEnd, SkipPack, ExchangeDone, BeginPrepare
<1>2. CASE EvalExterior(r) \/ EvalInterior(r) \/ EvalAll(r)
  BY <1>t, <1>2 DEF EvalExterior, EvalInterior, EvalAll
<1>3. ASSUME NEW v \in Var, NEW s \in Side,
             Irecv(r, v, s) \/ PackIsend(r, v, s) \/ PackShm(r, v, s) \/ Final(r, v, s)
      PROVE  data'[x] = data[x] /\ sendBuf'[x] = sendBuf[x] /\ recvBuf'[x] = recvBuf[x]
  BY <1>t, <1>3 DEF Irecv, PackIsend, PackShm, Final
<1>4. ASSUME NEW v \in Var, NEW s \in Side, UnpackMpi(r, v, s) \/ UnpackShm(r, v, s)
      PROVE  data'[x] = data[x] /\ sendBuf'[x] = sendBuf[x] /\ recvBuf'[x] = recvBuf[x]
  BY <1>t, <1>4 DEF UnpackMpi, UnpackShm, Unpack
<1>5. CASE Fill(r)
  BY <1>t, <1>5 DEF Fill
<1>6. CASE SetSlice(r) \/ SetElems(r) \/ SetPoint(r)
  BY <1>t, <1>6 DEF SetSlice, SetElems, SetPoint, OwnZonesSet
<1>7. ASSUME NEW k \in TuneSteps, Tune(r, k)
      PROVE  data'[x] = data[x] /\ sendBuf'[x] = sendBuf[x] /\ recvBuf'[x] = recvBuf[x]
  BY <1>t, <1>7 DEF Tune
<1>8. CASE LeaveBarrier(r) \/ LeaveAllocBarrier(r) \/ LeaveShmBarrier(r)
  BY <1>t, <1>8 DEF LeaveBarrier, LeaveAllocBarrier, LeaveShmBarrier, ReleaseMpiData
<1> QED
  BY <1>1, <1>2, <1>3, <1>4, <1>5, <1>6, <1>7, <1>8 DEF RankStep

(* What a rank that is in exchange e sends is what everyone sends in it.   *)
LEMMA OwnShare ==
  ASSUME HaloInv, NEW r \in Rank, FullReach(Start(script), Full(r)), pc[r] \in InExchange,
         NEW v \in Var, NEW b, Start(script) \in FullState
  PROVE  Carries(script, b, v, Len(trail[r])) <=> b = Shares(Full(r), v)
<1>1. /\ Full(r) \in FullState /\ Full(r).prog.at \in Exchanges
      /\ Full(r).prog.trail = trail[r]
  BY FullParts, AtExchange, ProgFields
<1>2. ASSUME NEW y \in FullState, FullReach(Start(script), y), y.prog.at \in Exchanges,
             Len(y.prog.trail) = Len(trail[r])
      PROVE  y = Full(r)
  BY <1>1, <1>2, OneExchange
<1> QED
  BY <1>1, <1>2 DEF Carries

LEMMA StartFull ==
  ASSUME HaloInv
  PROVE  Start(script) \in FullState
<1>1. /\ script \in Scripts /\ 1 \in Nat \ {0} /\ "call" \in Places /\ 0 \in Int /\ 1 \in Pack
      /\ [v \in Var |-> 0] \in [Var -> Int]
      /\ [v \in Var |-> [n \in Slot |-> TRUE]] \in [Var -> [Slot -> BOOLEAN]]
      /\ <<>> \in Seq(ExchangeRecord)
  BY HaloAssumption DEF HaloInv, TypeOK, Places, Pack
<1>2. [v \in Var |-> [n \in Slot |-> [gen |-> 0, step |-> n]]] \in ExtType
  BY HaloAssumption DEF ExtType, Value, Slot
<1> QED
  BY <1>1, <1>2 DEF Start, State, ProgState, FullState

-----------------------------------------------------------------------------
(* The dirty flags.                                                        *)

(* The window of valid steps has a step for every slot.                    *)
LEMMA Remainder ==
  ASSUME NEW a \in Nat \ {0}, NEW k \in Int, NEW n \in 0 .. a - 1
  PROVE  (a * k + n) % a = n
<1> DEFINE t == a * k + n
           q == t \div a
           m == t % a
           d == k - q
<1>1. t \in Int /\ q \in Int /\ m \in 0 .. a - 1 /\ t = a * q + m
  <2>1. t \in Int
    OBVIOUS
  <2> HIDE DEF t
  <2> QED
    BY <2>1
<1> HIDE DEF m, q
<1>2. a * k + n = a * q + m
  BY <1>1
<1>3. d \in Int /\ a * d = a * k - a * q
  BY <1>1
<1>4. a * d = m - n
  BY <1>1, <1>2, <1>3
<1> HIDE DEF d
<1>5. CASE d >= 1
  <2>1. a * d >= a
    BY <1>3, <1>5
  <2> QED
    BY <1>1, <1>3, <1>4, <2>1
<1>6. CASE d <= -1
  <2>1. a * d <= -a
    BY <1>3, <1>6
  <2> QED
    BY <1>1, <1>3, <1>4, <2>1
<1>7. CASE d = 0
  BY <1>1, <1>3, <1>4, <1>7 DEF m
<1> QED
  BY <1>3, <1>5, <1>6, <1>7

LEMMA WindowCovers ==
  ASSUME NEW v \in Var, NEW f \in Int, NEW n \in Slot, n < Alloc[v]
  PROVE  \E t \in Window(v, f) : Wrap(v, t) = n
<1> DEFINE a == Alloc[v]
           q == f \div a
           m == f % a
<1>1. a \in Nat \ {0} /\ n \in 0 .. a - 1
  BY HaloAssumption DEF Slot
<1>2. CASE ~HasStep[v]
  <2>1. a = 1 /\ n = 0
    BY <1>1, <1>2, AllocAssumption
  <2> QED
    BY <1>2, <2>1 DEF Window, Wrap
<1>3. CASE HasStep[v]
  <2>1. Window(v, f) = f .. f + a - 1 /\ \A t : Wrap(v, t) = t % a
    BY <1>3 DEF Window, Wrap
  <2> HIDE DEF a
  <2>2. q \in Int /\ m \in 0 .. a - 1 /\ f = a * q + m
    BY <1>1
  <2> HIDE DEF q, m
  <2>3. CASE n >= m
    <3> DEFINE t == a * q + n
    <3>1. t % a = n
      BY <1>1, <2>2, Remainder
    <3>2. t \in f .. f + a - 1
      BY <1>1, <2>2, <2>3
    <3> QED
      BY <2>1, <3>1, <3>2
  <2>4. CASE n < m
    <3> DEFINE t == a * (q + 1) + n
    <3>1. t % a = n
      BY <1>1, <2>2, Remainder
    <3>2. a * (q + 1) = a * q + a
      BY <1>1, <2>2
    <3>3. t \in f .. f + a - 1
      BY <1>1, <2>2, <2>4, <3>2
    <3> QED
      BY <2>1, <3>1, <3>3
  <2> QED
    BY <1>1, <2>2, <2>3, <2>4
<1> QED
  BY <1>2, <1>3

(* What is dirty is swapped.                                               *)
LEMMA DirtySwapped ==
  ASSUME NEW r \in Rank, NEW f \in [Var -> Int], NEW drt, NEW v \in Var, HasMpiData(r, v),
         NEW n \in Slot, n < Alloc[v], drt[v][n]
  PROVE  LET w == SwapOf(r, f, drt)[v]
         IN  Swapped(w) /\ \E t \in w.first .. w.last : Wrap(v, t) = n
<1> DEFINE w == SwapOf(r, f, drt)[v]
           D == {t \in Window(v, f[v]) : drt[v][Wrap(v, t)]}
<1>1. PICK t \in Window(v, f[v]) : Wrap(v, t) = n
  BY WindowCovers
<1>2. t \in D
  BY <1>1
<1>3. w = [first |-> Low(D), last |-> High(D)]
  BY <1>2 DEF SwapOf
<1>4. \E a \in Int, b \in Int : D \in SUBSET (a .. b)
  <2>1. f[v] \in Int /\ f[v] + Alloc[v] - 1 \in Int /\ 0 \in Int
    BY HaloAssumption
  <2>2. CASE HasStep[v]
    <3>1. D \in SUBSET (f[v] .. f[v] + Alloc[v] - 1)
      BY <2>2 DEF Window
    <3> HIDE DEF D
    <3> QED
      BY <2>1, <3>1, Zenon
  <2>3. CASE ~HasStep[v]
    <3>1. D \in SUBSET {0} /\ 0 .. 0 = {0}
      BY <2>3 DEF Window
    <3> HIDE DEF D
    <3>2. D \in SUBSET (0 .. 0)
      BY <3>1
    <3> QED
      BY <2>1, <3>2, Zenon
  <2> QED
    BY <2>2, <2>3
<1> HIDE DEF D
<1>5. PICK a \in Int, b \in Int : D \in SUBSET (a .. b)
  BY <1>4
<1>6. Low(D) \in Int /\ High(D) \in Int /\ t \in Int /\ Low(D) <= t /\ t <= High(D)
  <2>1. D # {}
    BY <1>2
  <2>2. /\ High(D) \in D /\ High(D) >= t
        /\ Low(D) \in D /\ Low(D) <= t
    BY <1>2, <1>5, <2>1, HighLowOf
  <2>3. \A y \in D : y \in Int
    BY <1>5
  <2> QED
    BY <1>2, <2>2, <2>3
<1> HIDE DEF w
<1>7. Swapped(w) /\ t \in w.first .. w.last
  BY <1>3, <1>6 DEF Swapped
<1> QED
  BY <1>1, <1>7 DEF w

(* The swap list of an exchange that begins.                               *)
LEMMA NewSwap ==
  ASSUME HaloInv, NEW r \in Rank, NEW f, NEW g, NEW i, NEW n,
         StartExchange(r, f, g, TRUE, i, n)
  PROVE  /\ CurSwap(r)' = SwapOf(r, f, g)
         /\ todo'[r] = TodoOf(r, SwapOf(r, f, g), TRUE, i)
<1> DEFINE e == [swap |-> SwapOf(r, f, g), evals |-> Evals(r) + n]
<1>1. trail \in [Rank -> Seq(ExchangeRecord)] /\ DOMAIN todo = Rank
  BY DEF HaloInv, TypeOK, TodoType
<1>2. trail'[r] = Append(trail[r], e) /\ todo'[r] = TodoOf(r, SwapOf(r, f, g), TRUE, i)
  BY <1>1 DEF StartExchange
<1>3. Last(Append(trail[r], e)) = e
  <2>1. trail[r] \in Seq(ExchangeRecord)
    BY <1>1
  <2> HIDE DEF e
  <2>2. Len(Append(trail[r], e)) = Len(trail[r]) + 1
        /\ Append(trail[r], e)[Len(trail[r]) + 1] = e
    BY <2>1
  <2> QED
    BY <2>2 DEF Last
<1> QED
  BY <1>2, <1>3 DEF CurSwap

LEMMA FlagsStart ==
  ASSUME HaloInv, NEW r \in Rank, NEW f \in [Var -> Int], NEW g, NEW i, NEW n,
         StartExchange(r, f, g, TRUE, i, n), dirty'[r] = g, pc'[r] \in InExchange
  PROVE  FlagsKnown(r)'
<1>1. CurSwap(r)' = SwapOf(r, f, g)
  BY NewSwap
<1>2. ASSUME NEW v \in Var, NEW m \in Slot, HasMpiData(r, v), m < Alloc[v], dirty'[r][v][m]
      PROVE  InSwap(r, v, m)'
  BY <1>1, <1>2, DirtySwapped DEF InSwap
<1>3. pc'[r] # "packs" /\ ~AfterRun(r)'
  BY DEF InExchange, Whole, Halfway, AfterRun
<1> QED
  BY <1>2, <1>3 DEF FlagsKnown

(* In an exchange only what is swapped is marked.                          *)
LEMMA FlagsInside ==
  ASSUME NEW r \in Rank, FlagsKnown(r), pc[r] \in InExchange, pc'[r] \in InExchange,
         trail'[r] = trail[r],
         \A v \in Var, n \in Slot : dirty'[r][v][n] => dirty[r][v][n] \/ InSwap(r, v, n)
  PROVE  FlagsKnown(r)'
<1>1. \A v \in Var, n \in Slot : InSwap(r, v, n)' <=> InSwap(r, v, n)
  BY DEF InSwap, CurSwap
<1>2. pc'[r] # "packs" /\ ~AfterRun(r)'
  BY DEF InExchange, Whole, Halfway, AfterRun
<1> QED
  BY <1>1, <1>2 DEF FlagsKnown

(* After one nothing is dirty that is exchanged.                           *)
LEMMA FlagsDone ==
  ASSUME HaloInv, NEW r \in Rank, FlagsKnown(r), ExchangeInv(r),
         pc[r] \in Whole, todo[r] = {}, dirty'[r] = dirty[r], pc'[r] \notin InExchange
  PROVE  FlagsKnown(r)'
<1>1. FlagsAfter(r) = Clean(dirty[r], CurSwap(r)) /\ pc[r] \in InExchange
  BY DEF FlagsAfter, InExchange, CurSwap
<1>2. dirty[r] = Clean(dirty[r], CurSwap(r))
  BY <1>1, CleanAtEnd
<1>3. ASSUME NEW v \in Var, NEW n \in Slot, InSwap(r, v, n)
      PROVE  ~dirty[r][v][n]
  <2>1. ~Clean(dirty[r], CurSwap(r))[v][n]
    BY <1>3 DEF Clean, InSwap
  <2> QED
    BY <1>2, <2>1
<1> QED
  BY <1>1, <1>3 DEF FlagsKnown

LEMMA FlagsSkip ==
  ASSUME NEW r \in Rank, FlagsKnown(r), pc[r] = "packs", dirty'[r] = dirty[r],
         pc'[r] \notin InExchange
  PROVE  FlagsKnown(r)'
BY DEF FlagsKnown

(* A call that is no run.                                                  *)
LEMMA FlagsCall ==
  ASSUME HaloInv, NEW r \in Rank, script' = script, CurCall(r).kind # "run",
         \/ pc'[r] = "call" /\ op'[r] = op[r] + 1
         \/ pc'[r] \in Barriers
  PROVE  FlagsKnown(r)'
<1>1. op[r] \in Nat
  BY DEF HaloInv, TypeOK
<1>2. pc'[r] \notin InExchange /\ pc'[r] # "packs"
  BY DEF InExchange, Whole, Halfway, Barriers
<1>3. ~AfterRun(r)'
  <2>1. CASE pc'[r] = "call" /\ op'[r] = op[r] + 1
    BY <1>1, <2>1 DEF AfterRun, CurCall
  <2>2. CASE pc'[r] \in Barriers
    BY <2>2 DEF AfterRun, Barriers
  <2> QED
    BY <2>1, <2>2
<1> QED
  BY <1>2, <1>3 DEF FlagsKnown

(* The things to do in an exchange, one at a time.                         *)
LEMMA ItemPlace ==
  ASSUME HaloInv, NEW r \in Rank, RequestInv(r), ExchangeInv(r), NEW v \in Var, NEW s \in Side,
         \/ Irecv(r, v, s) \/ PackIsend(r, v, s) \/ PackShm(r, v, s)
         \/ UnpackMpi(r, v, s) \/ UnpackShm(r, v, s) \/ Final(r, v, s)
  PROVE  /\ pc[r] \in Whole \cup {"exch_ext"} /\ pc' = pc /\ op' = op /\ trail' = trail
         /\ script' = script /\ swap[r] = CurSwap(r) /\ HasNbr(r, s)
<1>1. \E a \in {HaloIrecv, HaloPackIsend, HaloUnpack, HaloFinal} :
        IsHead(r, a, v, s) /\ Done(r, a, v, s) /\ UNCHANGED calc
  BY DEF Irecv, PackIsend, PackShm, UnpackMpi, UnpackShm, Final
<1>2. UNCHANGED calc
  BY <1>1
<1>3. pc[r] \in Whole \cup {"exch_ext"} /\ HasNbr(r, s)
  BY <1>1, ItemDone
<1> QED
  BY <1>2, <1>3 DEF calc, ExchangeInv, HalvesSwap

LEMMA UnpackDirty ==
  ASSUME HaloInv, NEW r \in Rank, NEW v \in Var, NEW s \in Side, NEW b, Unpack(r, v, s, b),
         swap[r] = CurSwap(r), NEW u \in Var, NEW n \in Slot
  PROVE  dirty'[r][u][n] <=> dirty[r][u][n] \/ (u = v /\ InSwap(r, v, n))
<1> DEFINE X == [m \in Slot |-> dirty[r][v][m]
                   \/ \E t \in swap[r][v].first .. swap[r][v].last : Wrap(v, t) = m]
<1>1. dirty' = [dirty EXCEPT ![r][v] = X]
  BY DEF Unpack
<1>2. X[n] <=> dirty[r][v][n] \/ InSwap(r, v, n)
  BY DEF InSwap
<1>t. dirty \in [Rank -> [Var -> [Slot -> BOOLEAN]]]
  BY DEF HaloInv, TypeOK
<1> HIDE DEF X
<1>3. dirty'[r][u] = IF u = v THEN X ELSE dirty[r][u]
  BY <1>t, <1>1
<1>4. CASE u = v
  BY <1>2, <1>3, <1>4
<1>5. CASE u # v
  BY <1>3, <1>5
<1> QED
  BY <1>4, <1>5

LEMMA FinalDirty ==
  ASSUME HaloInv, NEW r \in Rank, NEW v \in Var, NEW s \in Side, Final(r, v, s),
         swap[r] = CurSwap(r), NEW u \in Var, NEW n \in Slot
  PROVE  dirty'[r][u][n] <=> dirty[r][u][n] /\ ~(u = v /\ InSwap(r, v, n))
<1> DEFINE X == [m \in Slot |-> dirty[r][v][m] /\ \A t \in Cleaned(swap[r][v]) : Wrap(v, t) # m]
<1>t. dirty \in [Rank -> [Var -> [Slot -> BOOLEAN]]]
  BY DEF HaloInv, TypeOK
<1>1. dirty' = [dirty EXCEPT ![r][v] = X]
  BY <1>t DEF Final
<1>2. X[n] <=> dirty[r][v][n] /\ ~InSwap(r, v, n)
  BY DEF InSwap, Cleaned
<1> HIDE DEF X
<1>3. dirty'[r][u] = IF u = v THEN X ELSE dirty[r][u]
  BY <1>t, <1>1
<1>4. CASE u = v
  BY <1>2, <1>3, <1>4
<1>5. CASE u # v
  BY <1>3, <1>5
<1> QED
  BY <1>4, <1>5

LEMMA ItemFlags ==
  ASSUME HaloInv, NEW r \in Rank, RequestInv(r), ExchangeInv(r), FlagsKnown(r),
         NEW v \in Var, NEW s \in Side,
         \/ Irecv(r, v, s) \/ PackIsend(r, v, s) \/ PackShm(r, v, s)
         \/ UnpackMpi(r, v, s) \/ UnpackShm(r, v, s) \/ Final(r, v, s)
  PROVE  FlagsKnown(r)'
<1>1. /\ pc[r] \in InExchange /\ pc'[r] \in InExchange /\ trail'[r] = trail[r]
      /\ swap[r] = CurSwap(r)
  BY ItemPlace DEF InExchange, Halfway
<1>2. ASSUME NEW u \in Var, NEW n \in Slot, dirty'[r][u][n]
      PROVE  dirty[r][u][n] \/ InSwap(r, u, n)
  <2>1. CASE Irecv(r, v, s) \/ PackIsend(r, v, s) \/ PackShm(r, v, s)
    BY <1>2, <2>1 DEF Irecv, PackIsend, PackShm, meta
  <2>2. ASSUME NEW b, Unpack(r, v, s, b)
        PROVE  dirty[r][u][n] \/ InSwap(r, u, n)
    BY <1>1, <1>2, <2>2, UnpackDirty
  <2>3. CASE UnpackMpi(r, v, s) \/ UnpackShm(r, v, s)
    BY <2>2, <2>3 DEF UnpackMpi, UnpackShm
  <2>4. CASE Final(r, v, s)
    BY <1>1, <1>2, <2>4, FinalDirty
  <2> QED
    BY <2>1, <2>3, <2>4
<1> QED
  BY <1>1, <1>2, FlagsInside

LEMMA StepFlags ==
  ASSUME HaloInv, NEW r \in Rank, RequestInv(r), ExchangeInv(r), FlagsKnown(r), RankStep(r)
  PROVE  FlagsKnown(r)'
<1>t. /\ first[r] \in [Var -> Int] /\ op \in [Rank -> Nat \ {0}] /\ pc \in [Rank -> PcType]
      /\ dirty \in [Rank -> [Var -> [Slot -> BOOLEAN]]]
  BY DEF HaloInv, TypeOK, PcType
<1>1. CASE BeginRun(r) \/ BeginEnd(r)
  <2>1. /\ StartExchange(r, first[r], dirty[r], TRUE, TRUE, 0) /\ dirty'[r] = dirty[r]
        /\ pc'[r] \in InExchange
    BY <1>t, <1>1 DEF BeginRun, BeginEnd, meta, InExchange, Whole
  <2> QED
    BY <1>t, <2>1, FlagsStart
<1>2. CASE EvalExterior(r) \/ EvalAll(r)
  <2>1. op[r] \in DOMAIN script
    <3>1. pc[r] # "call"
      BY <1>2 DEF EvalExterior, EvalAll
    <3> QED
      BY <3>1 DEF HaloInv, InCall
  <2>2. FirstAfter(r) \in [Var -> Int]
    BY <2>1, AfterType
  <2>3. PICK i \in BOOLEAN : StartExchange(r, FirstAfter(r), DirtyAfter(r), TRUE, i, 1)
    BY <1>2 DEF EvalExterior, EvalAll
  <2>4. dirty'[r] = DirtyAfter(r) /\ pc'[r] \in InExchange
    BY <1>t, <1>2 DEF EvalExterior, EvalAll, InExchange, Whole, Halfway
  <2> QED
    BY <2>2, <2>3, <2>4, FlagsStart
<1>3. CASE SkipPack(r)
  <2>1. /\ pc[r] = "packs" /\ dirty'[r] = dirty[r] /\ NextPack(r) /\ script' = script
        /\ PlaceInCall(r)
    BY <1>3 DEF SkipPack, meta, RequestInv
  <2>2. pc'[r] \in {"packs", "call"}
    BY <2>1, NextPackPlace
  <2> QED
    BY <2>1, <2>2, FlagsSkip DEF InExchange, Whole, Halfway
<1>4. CASE EvalInterior(r)
  <2>1. /\ pc[r] = "inner" /\ pc'[r] = "exch_int" /\ trail' = trail /\ dirty' = dirty
    BY <1>t, <1>4 DEF EvalInterior, StartExchange
  <2> QED
    BY <2>1, FlagsInside DEF InExchange, Whole, Halfway
<1>5. CASE ExchangeDone(r)
  <2>1. /\ todo[r] = {} /\ trail' = trail /\ dirty' = dirty /\ script' = script
        /\ PlaceInCall(r)
    BY <1>5 DEF ExchangeDone, meta, RequestInv
  <2>2. CASE pc[r] = "exch_ext"
    <3>1. pc'[r] = "inner"
      BY <1>t, <1>5, <2>2 DEF ExchangeDone
    <3> QED
      BY <2>1, <2>2, <3>1, FlagsInside DEF InExchange, Halfway
  <2>3. CASE pc[r] # "exch_ext"
    <3>1. pc[r] \in Whole
      BY <1>5, <2>3 DEF ExchangeDone, Whole
    <3>2. CASE pc[r] \in {"exch_init", "exch_end"}
      <4>1. pc'[r] \notin InExchange
        BY <1>t, <1>5, <3>2 DEF ExchangeDone, InExchange, Whole, Halfway
      <4> QED
        BY <2>1, <3>1, <4>1, FlagsDone
    <3>3. CASE pc[r] \in {"exch_int", "exch_all"}
      <4>1. pc'[r] \in {"packs", "call"}
        BY <1>5, <2>1, <3>3, NextPackPlace DEF ExchangeDone
      <4> QED
        BY <2>1, <3>1, <4>1, FlagsDone DEF InExchange, Whole, Halfway
    <3> QED
      BY <3>1, <3>2, <3>3 DEF Whole
  <2> QED
    BY <2>2, <2>3
<1>6. ASSUME NEW v \in Var, NEW s \in Side,
             \/ Irecv(r, v, s) \/ PackIsend(r, v, s) \/ PackShm(r, v, s)
             \/ UnpackMpi(r, v, s) \/ UnpackShm(r, v, s) \/ Final(r, v, s)
      PROVE  FlagsKnown(r)'
  BY <1>6, ItemFlags
<1>7. CASE Fill(r) \/ SetSlice(r) \/ SetElems(r) \/ SetPoint(r)
  <2>1. CurCall(r).kind # "run" /\ pc'[r] = "call" /\ op'[r] = op[r] + 1 /\ script' = script
    BY <1>t, <1>7 DEF Fill, SetSlice, SetElems, SetPoint, Calling, Returns
  <2> QED
    BY <2>1, FlagsCall
<1>8. CASE BeginPrepare(r) \/ \E k \in TuneSteps : Tune(r, k)
  <2>1. CurCall(r).kind # "run" /\ pc'[r] = "barrier" /\ script' = script
    BY <1>t, <1>8 DEF BeginPrepare, Tune, Calling
  <2> QED
    BY <2>1, FlagsCall DEF Barriers
<1>9. CASE LeaveBarrier(r) \/ LeaveAllocBarrier(r) \/ LeaveShmBarrier(r)
  <2>1. CurCall(r).kind # "run"
    BY <1>9 DEF LeaveBarrier, LeaveAllocBarrier, LeaveShmBarrier, RequestInv, PlaceInCall
  <2>2. /\ script' = script
        /\ \/ pc'[r] = "call" /\ op'[r] = op[r] + 1
           \/ pc'[r] \in Barriers
    BY <1>t, <1>9 DEF LeaveBarrier, LeaveAllocBarrier, LeaveShmBarrier, Returns, Barriers
  <2> QED
    BY <2>1, <2>2, FlagsCall
<1> QED
  BY <1>1, <1>2, <1>3, <1>4, <1>5, <1>6, <1>7, <1>8, <1>9 DEF RankStep

-----------------------------------------------------------------------------
(* The halos.                                                              *)

(* A step that leaves in place each halo that it does not put right or     *)
(* leave to be put right.                                                  *)
LEMMA HalosBy ==
  ASSUME NEW r \in Rank, HalosKept(r),
         \A v \in Var, n \in Slot, s \in Side : HasNbr(r, s) /\ RecvBuf(v, s) =>
           \/ HaloDue(r, v, n, s)'
           \/ data'[r][v][n][s] = data'[r][v][n]["ext"]
           \/ /\ ~HaloDue(r, v, n, s)
              /\ data'[r][v][n][s] = data[r][v][n][s]
              /\ data'[r][v][n]["ext"] = data[r][v][n]["ext"]
  PROVE  HalosKept(r)'
BY DEF HalosKept

(* An exchange begins: what it swaps is to be unpacked.                    *)
LEMMA HalosStart ==
  ASSUME HaloInv, NEW r \in Rank, HalosKept(r), NEW f \in [Var -> Int], NEW g, NEW i \in BOOLEAN, NEW m,
         StartExchange(r, f, g, TRUE, i, m), dirty'[r] = g, pc[r] \notin InExchange,
         i => pc'[r] \in Whole, ~i => pc'[r] \in Halfway,
         \A v \in Var, n \in Slot : ~dirty'[r][v][n] =>
           /\ ~dirty[r][v][n]
           /\ \A z \in Side \cup {"ext"} : data'[r][v][n][z] = data[r][v][n][z]
  PROVE  HalosKept(r)'
<1> DEFINE sw == SwapOf(r, f, g)
<1>1. CurSwap(r)' = sw /\ todo'[r] = TodoOf(r, sw, TRUE, i)
  BY ONLY HaloInv, StartExchange(r, f, g, TRUE, i, m), NewSwap, Zenon
<1>2. pc'[r] \in InExchange
  BY DEF InExchange
<1> HIDE DEF sw
<1>3. ASSUME NEW v \in Var, NEW n \in Slot, NEW s \in Side, HasNbr(r, s), RecvBuf(v, s),
             InSwap(r, v, n)'
      PROVE  pc'[r] \in Halfway \/ It(HaloUnpack, v, s) \in todo'[r]
  <2>1. PICK t \in sw[v].first .. sw[v].last : TRUE
    BY <1>1, <1>3 DEF InSwap
  <2>2. sw[v].first <= sw[v].last => It(HaloUnpack, v, s) \in TodoOf(r, sw, TRUE, TRUE)
    BY <1>3, TodoOfItems DEF Swapped
  <2>3. sw \in [Var -> SwapRange]
    BY SwapOfType DEF sw
  <2>4. sw[v].first <= sw[v].last
    BY <2>1, <2>3 DEF SwapRange
  <2> QED
    BY <1>1, <2>2, <2>4
<1> QED
  BY <1>2, <1>3, HalosBy DEF HaloDue

LEMMA EvalHalos ==
  ASSUME HaloInv, NEW r \in Rank, HalosKept(r), EvalExterior(r) \/ EvalAll(r)
  PROVE  HalosKept(r)'
<1>t. /\ pc \in [Rank -> PcType] /\ dirty \in [Rank -> [Var -> [Slot -> BOOLEAN]]]
      /\ data \in [Rank -> [Var -> [Slot -> [Zone -> Value]]]]
  BY DEF HaloInv, TypeOK, PcType
<1>1. pc[r] = "packs"
  BY DEF EvalExterior, EvalAll
<1>2. op[r] \in DOMAIN script
  BY <1>1 DEF HaloInv, InCall
<1>3. FirstAfter(r) \in [Var -> Int]
  BY <1>2, AfterType
<1>4. dirty'[r] = DirtyAfter(r) /\ \E Z : data'[r] = DataAfter(r, Z) /\ Z \cap Side = {}
  <2>0. {"ext"} \cap Side = {} /\ {"ext", "int"} \cap Side = {}
    BY DEF Side
  <2>1. CASE EvalExterior(r)
    <3>1. data'[r] = DataAfter(r, {"ext"}) /\ dirty'[r] = DirtyAfter(r)
      BY <1>t, <2>1 DEF EvalExterior
    <3> QED
      BY <2>0, <3>1, Zenon
  <2>2. CASE EvalAll(r)
    <3>1. data'[r] = DataAfter(r, {"ext", "int"}) /\ dirty'[r] = DirtyAfter(r)
      BY <1>t, <2>2 DEF EvalAll
    <3> QED
      BY <2>0, <3>1, Zenon
  <2> QED
    BY <2>1, <2>2
<1>5. PICK Z : data'[r] = DataAfter(r, Z) /\ Z \cap Side = {}
  BY <1>4
<1>6. ASSUME NEW v \in Var, NEW n \in Slot, ~dirty'[r][v][n]
      PROVE  /\ ~dirty[r][v][n]
             /\ \A z \in Side \cup {"ext"} : data'[r][v][n][z] = data[r][v][n][z]
  <2> DEFINE U == {u \in Computed(r, v) : Wrap(v, u) = n}
  <2>1. /\ ~dirty[r][v][n]
        /\ ~(v \in OutVars(r) /\ \E t \in OutSteps(r) : Wrap(v, t) = n)
    BY <1>4, <1>6 DEF DirtyAfter, DirtyWith
  <2>2. \A u \in Computed(r, v) : v \in OutVars(r) /\ u \in OutSteps(r)
    BY DEF Computed, OutVars, OutSteps
  <2>3. U = {}
    BY <2>1, <2>2
  <2>4. \A z \in Zone : data'[r][v][n][z] = data[r][v][n][z]
    BY <1>5, <2>3 DEF DataAfter
  <2> QED
    BY <2>1, <2>4 DEF Zone, Side
<1>7. pc[r] \notin InExchange
  BY <1>1 DEF InExchange, Whole, Halfway
<1>8. CASE EvalExterior(r)
  <2>1. StartExchange(r, FirstAfter(r), DirtyAfter(r), TRUE, FALSE, 1) /\ pc'[r] \in Halfway
    BY <1>t, <1>8 DEF EvalExterior, Halfway
  <2> QED
    BY <1>3, <1>4, <1>6, <1>7, <2>1, HalosStart
<1>9. CASE EvalAll(r)
  <2>1. StartExchange(r, FirstAfter(r), DirtyAfter(r), TRUE, TRUE, 1) /\ pc'[r] \in Whole
    BY <1>t, <1>9 DEF EvalAll, Whole
  <2> QED
    BY <1>3, <1>4, <1>6, <1>7, <2>1, HalosStart
<1> QED
  BY <1>8, <1>9

LEMMA BeginHalos ==
  ASSUME HaloInv, NEW r \in Rank, HalosKept(r), BeginRun(r) \/ BeginEnd(r)
  PROVE  HalosKept(r)'
<1>t. pc \in [Rank -> PcType] /\ first[r] \in [Var -> Int]
  BY DEF HaloInv, TypeOK, PcType
<1>1. /\ StartExchange(r, first[r], dirty[r], TRUE, TRUE, 0) /\ dirty' = dirty /\ data' = data
      /\ pc[r] = "call" /\ pc'[r] \in Whole
  BY <1>t DEF BeginRun, BeginEnd, Calling, meta, Whole
<1>2. pc[r] \notin InExchange
  BY <1>1 DEF InExchange, Whole, Halfway
<1> QED
  BY <1>t, <1>1, <1>2, HalosStart

(* The second half swaps what the first one has announced.                 *)
LEMMA InteriorHalos ==
  ASSUME HaloInv, NEW r \in Rank, RequestInv(r), ExchangeInv(r), HalosKept(r), EvalInterior(r)
  PROVE  HalosKept(r)'
<1> DEFINE sw == SwapOf(r, FirstAfter(r), dirty[r])
<1>t. pc \in [Rank -> PcType] /\ todo \in TodoType
  BY DEF HaloInv, TypeOK, PcType
<1>1. /\ pc[r] = "inner" /\ pc'[r] = "exch_int" /\ trail' = trail /\ dirty' = dirty
      /\ todo'[r] = TodoOf(r, sw, FALSE, TRUE)
  BY <1>t DEF EvalInterior, StartExchange, TodoType
<1>2. sw = CurSwap(r)
  BY <1>1 DEF ExchangeInv, HalvesSwap, RequestInv, HalvesAgree, Halfway
<1> HIDE DEF sw
<1>3. sw \in [Var -> SwapRange]
  <2>1. first[r] \in [Var -> Int] /\ FirstAfter(r) = first[r]
    BY <1>1 DEF HaloInv, TypeOK, RequestInv, HalvesAgree, Halfway
  <2> QED
    BY <2>1, SwapOfType DEF sw
<1>4. ASSUME NEW v \in Var, NEW n \in Slot, NEW s \in Side, HasNbr(r, s), RecvBuf(v, s),
             InSwap(r, v, n)
      PROVE  It(HaloUnpack, v, s) \in todo'[r]
  <2>1. PICK t \in sw[v].first .. sw[v].last : TRUE
    BY <1>2, <1>4 DEF InSwap
  <2>2. sw[v].first <= sw[v].last
    BY <1>3, <2>1 DEF SwapRange
  <2>3. It(HaloUnpack, v, s) \in TodoOf(r, sw, FALSE, TRUE)
    BY <1>4, <2>2, TodoOfItems DEF Swapped
  <2> QED
    BY <1>1, <2>3
<1>5. /\ pc[r] \in InExchange /\ pc'[r] \in InExchange
      /\ \A v, n : InSwap(r, v, n)' <=> InSwap(r, v, n)
  BY <1>1 DEF InExchange, Whole, Halfway, InSwap, CurSwap
<1>6. \A v \in Var, n \in Slot, s \in Side :
        /\ data'[r][v][n][s] = data[r][v][n][s]
        /\ data'[r][v][n]["ext"] = data[r][v][n]["ext"]
  BY InteriorExterior DEF Zone, Side
<1> QED
  BY <1>1, <1>4, <1>5, <1>6, HalosBy DEF HaloDue

(* At the end of an exchange, or of a half of it, the rank goes on.        *)
LEMMA DoneHalos ==
  ASSUME HaloInv, NEW r \in Rank, RequestInv(r), HalosKept(r), ExchangeDone(r)
  PROVE  HalosKept(r)'
<1>t. pc \in [Rank -> PcType]
  BY DEF HaloInv, TypeOK, PcType
<1>1. /\ data' = data /\ dirty' = dirty /\ trail' = trail /\ todo[r] = {}
      /\ script' = script /\ PlaceInCall(r)
  BY DEF ExchangeDone, meta, RequestInv
<1>2. CASE pc[r] = "exch_ext"
  <2>1. pc'[r] = "inner"
    BY <1>t, <1>2 DEF ExchangeDone
  <2>2. \A v, n : InSwap(r, v, n)' <=> InSwap(r, v, n)
    BY <1>1 DEF InSwap, CurSwap
  <2> QED
    BY <1>1, <1>2, <2>1, <2>2, HalosBy DEF HaloDue, InExchange, Halfway
<1>3. CASE pc[r] # "exch_ext"
  <2>1. pc[r] \in Whole /\ pc[r] \notin Halfway
    BY <1>3 DEF ExchangeDone, Whole, Halfway
  <2>2. pc'[r] \notin InExchange
    <3>1. CASE pc[r] \in {"exch_init", "exch_end"}
      BY <1>t, <3>1 DEF ExchangeDone, InExchange, Whole, Halfway
    <3>2. CASE pc[r] \in {"exch_int", "exch_all"}
      <4>1. pc'[r] \in {"packs", "call"}
        BY <1>1, <3>2, NextPackPlace DEF ExchangeDone
      <4> QED
        BY <4>1 DEF InExchange, Whole, Halfway
    <3> QED
      BY <2>1, <3>1, <3>2 DEF Whole
  <2> QED
    BY <1>1, <2>1, <2>2, HalosBy DEF HaloDue
<1> QED
  BY <1>2, <1>3

(* Outside exchanges: what changes is dirty.                               *)
LEMMA OutsideHalos ==
  ASSUME NEW r \in Rank, HalosKept(r), pc[r] \notin InExchange, pc'[r] \notin InExchange,
         \A v \in Var, n \in Slot : ~dirty'[r][v][n] =>
           /\ ~dirty[r][v][n]
           /\ \A z \in Side \cup {"ext"} : data'[r][v][n][z] = data[r][v][n][z]
  PROVE  HalosKept(r)'
BY HalosBy DEF HaloDue

(* Unpacking what the others send makes the halo what the exterior is.     *)
LEMMA UnpackedSlot ==
  ASSUME HaloInv, NEW r \in Rank, NEW v \in Var, NEW s \in Side, NEW b, Unpack(r, v, s, b),
         b = Shares(Full(r), v), swap[r] = CurSwap(r), NEW n \in Slot
  PROVE  /\ InSwap(r, v, n) => data'[r][v][n][s] = data[r][v][n]["ext"]
         /\ ~InSwap(r, v, n) => data'[r][v][n] = data[r][v][n]
<1> DEFINE w == swap[r][v]
           K == {k \in 1 .. NumSteps(w) : Wrap(v, w.first + k - 1) = n}
           X == Unpacked(data[r], v, w, s, b)
<1>t. /\ data \in [Rank -> [Var -> [Slot -> [Zone -> Value]]]] /\ s \in Zone
      /\ w \in SwapRange /\ w.first \in Int /\ w.last \in Int
  BY DEF HaloInv, TypeOK, Zone, Side, SwapRange
<1>1. data' = [data EXCEPT ![r][v] = X]
  BY DEF Unpack
<1>2. X[n] = IF K = {} THEN data[r][v][n]
             ELSE [data[r][v][n] EXCEPT ![s] = IF High(K) \in DOMAIN b
                                                THEN b[High(K)] ELSE Garbage]
  BY DEF Unpacked
<1>3. b = [k \in 1 .. NumSteps(w) |-> data[r][v][Wrap(v, w.first + k - 1)]["ext"]]
  <2>1. /\ Full(r).ext = Exterior(r) /\ Last(Full(r).prog.trail).swap[v] = w
        /\ \A m \in Slot : Full(r).ext[v][m] = data[r][v][m]["ext"]
    BY FullParts, ProgFields DEF CurSwap
  <2>2. NumSteps(w) \in Nat
    BY <1>t, NumStepsNat
  <2>3. \A k \in 1 .. NumSteps(w) : Wrap(v, w.first + k - 1) \in Slot
    BY <1>t, <2>2, WrapSlot
  <2> HIDE DEF w
  <2> QED
    BY <2>1, <2>3 DEF Shares
<1>4. InSwap(r, v, n) <=> \E t \in w.first .. w.last : Wrap(v, t) = n
  BY DEF InSwap
<1>5. NumSteps(w) = IF w.first <= w.last THEN w.last - w.first + 1 ELSE 0
  BY DEF NumSteps
<1>6. K # {} <=> \E t \in w.first .. w.last : Wrap(v, t) = n
  <2>1. ASSUME NEW t \in w.first .. w.last, Wrap(v, t) = n
        PROVE  K # {}
    <3> DEFINE k == t - w.first + 1
    <3> HIDE DEF w
    <3>1. k \in 1 .. NumSteps(w) /\ w.first + k - 1 = t
      BY <1>t, <1>5, <2>1
    <3> HIDE DEF k
    <3> QED
      BY <2>1, <3>1
  <2>2. ASSUME NEW k \in K
        PROVE  \E t \in w.first .. w.last : Wrap(v, t) = n
    <3> DEFINE t == w.first + k - 1
    <3>1. k \in 1 .. NumSteps(w) /\ Wrap(v, t) = n
      OBVIOUS
    <3> HIDE DEF w
    <3>2. t \in w.first .. w.last
      BY <1>t, <1>5, <3>1
    <3> QED
      BY <3>1, <3>2
  <2> HIDE DEF K, w
  <2> QED
    BY <2>1, <2>2
<1>7. ASSUME K # {}
      PROVE  /\ High(K) \in 1 .. NumSteps(w)
             /\ Wrap(v, w.first + High(K) - 1) = n
  <2>1. K \in SUBSET (1 .. NumSteps(w)) /\ 1 \in Int /\ NumSteps(w) \in Int
    BY <1>t, NumStepsNat
  <2>2. \A k \in K : k \in 1 .. NumSteps(w) /\ Wrap(v, w.first + k - 1) = n
    OBVIOUS
  <2> HIDE DEF K, w
  <2>3. High(K) \in K
    BY <1>7, <2>1, HighLowOf
  <2> QED
    BY <2>2, <2>3
<1> HIDE DEF K, X, w
<1>8. data'[r][v][n] = X[n]
  BY <1>t, <1>1
<1>9. ASSUME InSwap(r, v, n)
      PROVE  data'[r][v][n][s] = data[r][v][n]["ext"]
  <2>1. K # {}
    BY <1>4, <1>6, <1>9
  <2>2. High(K) \in DOMAIN b /\ b[High(K)] = data[r][v][n]["ext"]
    BY <1>3, <1>7, <2>1
  <2>3. X[n] = [data[r][v][n] EXCEPT ![s] = data[r][v][n]["ext"]]
    BY <1>2, <2>1, <2>2
  <2>4. data[r][v][n] \in [Zone -> Value]
    BY <1>t
  <2> QED
    BY <1>t, <1>8, <2>3, <2>4
<1>10. ASSUME ~InSwap(r, v, n)
       PROVE  data'[r][v][n] = data[r][v][n]
  BY <1>2, <1>4, <1>6, <1>8, <1>10
<1> QED
  BY <1>9, <1>10

LEMMA UnpackHalos ==
  ASSUME HaloInv, NEW r \in Rank, HalosKept(r), NEW v \in Var, NEW s \in Side, NEW b,
         Unpack(r, v, s, b), b = Shares(Full(r), v), swap[r] = CurSwap(r),
         pc[r] \in Whole, pc'[r] = pc[r], trail'[r] = trail[r],
         todo'[r] = todo[r] \ {It(HaloUnpack, v, s)}
  PROVE  HalosKept(r)'
<1>1. pc[r] \in InExchange /\ pc[r] \notin Halfway
  BY DEF InExchange, Whole, Halfway
<1>2. \A u, n : InSwap(r, u, n)' <=> InSwap(r, u, n)
  BY DEF InSwap, CurSwap
<1>3. \A u \in Var, n \in Slot : data'[r][u][n]["ext"] = data[r][u][n]["ext"]
  BY UnpackExterior DEF Zone, Side
<1>4. ASSUME NEW u \in Var, NEW n \in Slot, NEW d \in Side
      PROVE  \/ HaloDue(r, u, n, d)'
             \/ data'[r][u][n][d] = data'[r][u][n]["ext"]
             \/ ~HaloDue(r, u, n, d) /\ data'[r][u][n][d] = data[r][u][n][d]
  <2>1. CASE u = v /\ d = s
    <3>1. CASE InSwap(r, v, n)
      BY <1>3, <2>1, <3>1, UnpackedSlot
    <3>2. CASE ~InSwap(r, v, n)
      <4>1. data'[r][v][n] = data[r][v][n]
        BY <3>2, UnpackedSlot
      <4>2. dirty'[r][v][n] <=> dirty[r][v][n]
        BY <3>2, UnpackDirty
      <4> QED
        BY <1>1, <1>2, <2>1, <3>2, <4>1, <4>2 DEF HaloDue
    <3> QED
      BY <3>1, <3>2
  <2>2. CASE ~(u = v /\ d = s)
    <3>1. data'[r][u][n][d] = data[r][u][n][d]
      BY <2>2, UnpackExterior DEF Zone, Side
    <3>2. dirty[r][u][n] => dirty'[r][u][n]
      BY UnpackDirty
    <3>3. It(HaloUnpack, u, d) \in todo[r] => It(HaloUnpack, u, d) \in todo'[r]
      BY <2>2 DEF It
    <3> QED
      BY <1>1, <1>2, <3>1, <3>2, <3>3 DEF HaloDue
  <2> QED
    BY <2>1, <2>2
<1> QED
  BY <1>3, <1>4, HalosBy

(* The other things to do in an exchange.                                  *)
LEMMA SendHalos ==
  ASSUME HaloInv, NEW r \in Rank, RequestInv(r), ExchangeInv(r), HalosKept(r),
         NEW v \in Var, NEW s \in Side,
         Irecv(r, v, s) \/ PackIsend(r, v, s) \/ PackShm(r, v, s) \/ Final(r, v, s)
  PROVE  HalosKept(r)'
<1>1. /\ pc[r] \in Whole \cup {"exch_ext"} /\ pc' = pc /\ trail' = trail
      /\ swap[r] = CurSwap(r)
  BY ItemPlace
<1>2. data' = data
  BY DEF Irecv, PackIsend, PackShm, Final
<1>3. \A u, n : InSwap(r, u, n)' <=> InSwap(r, u, n)
  BY <1>1 DEF InSwap, CurSwap
<1>4. \A u \in Var, d \in Side :
        It(HaloUnpack, u, d) \in todo[r] => It(HaloUnpack, u, d) \in todo'[r]
  <2>1. PICK a \in {HaloIrecv, HaloPackIsend, HaloFinal} :
          IsHead(r, a, v, s) /\ Done(r, a, v, s) /\ UNCHANGED calc
    BY DEF Irecv, PackIsend, PackShm, Final
  <2>2. a # HaloUnpack
    BY DEF HaloIrecv, HaloPackIsend, HaloUnpack, HaloFinal
  <2>3. todo'[r] = todo[r] \ {It(a, v, s)}
    BY <2>1, ItemDone
  <2> QED
    BY <2>2, <2>3 DEF It
<1>5. \A u \in Var, n \in Slot : ~InSwap(r, u, n) => (dirty'[r][u][n] <=> dirty[r][u][n])
  <2>1. CASE Irecv(r, v, s) \/ PackIsend(r, v, s) \/ PackShm(r, v, s)
    BY <2>1 DEF Irecv, PackIsend, PackShm, meta
  <2>2. CASE Final(r, v, s)
    BY <1>1, <2>2, FinalDirty
  <2> QED
    BY <2>1, <2>2
<1>6. pc[r] \in InExchange
  BY <1>1 DEF InExchange, Halfway
<1>7. ASSUME NEW u \in Var, NEW n \in Slot, NEW d \in Side
      PROVE  HaloDue(r, u, n, d) => HaloDue(r, u, n, d)'
  <2>1. CASE InSwap(r, u, n)
    BY <1>1, <1>3, <1>4, <1>6, <2>1 DEF HaloDue
  <2>2. CASE ~InSwap(r, u, n)
    BY <1>1, <1>3, <1>5, <1>6, <2>2 DEF HaloDue
  <2> QED
    BY <2>1, <2>2
<1> QED
  BY <1>2, <1>7, HalosBy

(* The other calls.                                                        *)
LEMMA CallHalos ==
  ASSUME HaloInv, NEW r \in Rank, RequestInv(r), HalosKept(r),
         \/ Fill(r) \/ SetSlice(r) \/ SetElems(r) \/ SetPoint(r) \/ SkipPack(r)
         \/ BeginPrepare(r) \/ (\E k \in TuneSteps : Tune(r, k))
         \/ LeaveBarrier(r) \/ LeaveAllocBarrier(r) \/ LeaveShmBarrier(r)
  PROVE  HalosKept(r)'
<1> DEFINE c == CurCall(r)
<1>t. /\ pc \in [Rank -> PcType] /\ dirty \in [Rank -> [Var -> [Slot -> BOOLEAN]]]
      /\ data \in [Rank -> [Var -> [Slot -> [Zone -> Value]]]]
      /\ Side \cup {"ext"} \subseteq Zone
  BY DEF HaloInv, TypeOK, PcType, Side, Zone
<1>1. pc[r] \notin InExchange /\ pc'[r] \notin InExchange
  <2>1. CASE SkipPack(r)
    <3>1. pc[r] = "packs" /\ NextPack(r) /\ script' = script
      BY <2>1 DEF SkipPack
    <3>2. PlaceInCall(r)
      BY DEF RequestInv
    <3>3. pc'[r] \in {"packs", "call"}
      BY <3>1, <3>2, NextPackPlace
    <3> QED
      BY <3>1, <3>3 DEF InExchange, Whole, Halfway
  <2>2. CASE ~SkipPack(r)
    <3>1. /\ pc[r] \in {"call"} \cup Barriers /\ pc'[r] \in {"call"} \cup Barriers
      BY <1>t, <2>2 DEF Fill, SetSlice, SetElems, SetPoint, BeginPrepare, Tune, Calling,
         LeaveBarrier, LeaveAllocBarrier, LeaveShmBarrier, Returns, Barriers
    <3> QED
      BY <3>1 DEF InExchange, Whole, Halfway, Barriers
  <2> QED
    BY <2>1, <2>2
<1>2. CASE \/ SkipPack(r) \/ BeginPrepare(r)
           \/ LeaveBarrier(r) \/ LeaveAllocBarrier(r) \/ LeaveShmBarrier(r)
  <2>1. data' = data /\ dirty' = dirty
    BY <1>2 DEF SkipPack, BeginPrepare, LeaveBarrier, LeaveAllocBarrier, LeaveShmBarrier, meta
  <2> QED
    BY <1>1, <2>1, OutsideHalos
<1>3. CASE \/ Fill(r) \/ SetSlice(r) \/ SetElems(r) \/ SetPoint(r)
  <2>1. op[r] \in DOMAIN script
    BY <1>3, CallingType DEF Fill, SetSlice, SetElems, SetPoint
  <2>2. c.var \in Var /\ c.first \in Int
    BY <2>1, CallType DEF Call
  <2> HIDE DEF c
  <2>3. CASE Fill(r)
    <3>1. \A v \in Var, n \in Slot : v # c.var =>
            data'[r][v][n] = data[r][v][n] /\ (dirty'[r][v][n] <=> dirty[r][v][n])
      BY <1>t, <2>2, <2>3 DEF Fill, c
    <3>2. \A n \in Slot : dirty'[r][c.var][n]
      BY <1>t, <2>2, <2>3 DEF Fill, c
    <3> QED
      BY <1>1, <3>1, <3>2, OutsideHalos
  <2>4. CASE SetSlice(r) \/ SetElems(r) \/ SetPoint(r)
    <3> DEFINE m == Wrap(c.var, c.first)
    <3>1. m \in Slot
      BY <2>2, WrapSlot
    <3>2. \/ data' = data /\ dirty' = dirty
          \/ (\E Z : data' = OwnZonesSet(r, c, Z)) /\ dirty' = DirtyMarked(r, c)
      BY <2>4 DEF SetSlice, SetElems, SetPoint, c
    <3>3. CASE data' = data /\ dirty' = dirty
      BY <1>1, <3>3, OutsideHalos
    <3>4. ASSUME NEW Z, data' = OwnZonesSet(r, c, Z), dirty' = DirtyMarked(r, c)
          PROVE  HalosKept(r)'
      <4>1. \A v \in Var, n \in Slot : ~(v = c.var /\ n = m) =>
              data'[r][v][n] = data[r][v][n] /\ (dirty'[r][v][n] <=> dirty[r][v][n])
        <5>1. dirty' = [dirty EXCEPT ![r][c.var][m] = TRUE]
          BY <3>4 DEF DirtyMarked
        <5>2. \E X : data' = [data EXCEPT ![r][c.var][m] = X]
          BY <3>4 DEF OwnZonesSet
        <5> HIDE DEF m
        <5> QED
          BY <1>t, <2>2, <3>1, <5>1, <5>2
      <4>2. dirty'[r][c.var][m]
        BY <1>t, <2>2, <3>1, <3>4 DEF DirtyMarked
      <4> HIDE DEF m
      <4> QED
        BY <1>1, <4>1, <4>2, OutsideHalos
    <3> QED
      BY <3>2, <3>3, <3>4
  <2> QED
    BY <1>3, <2>3, <2>4
<1>4. ASSUME NEW k \in TuneSteps, Tune(r, k)
      PROVE  HalosKept(r)'
  <2> DEFINE written == UNION {Packs[p].writes : p \in Pack}
             outs == {StepDir * i : i \in 1 .. k * Stride}
  <2>1. \A v \in Var, n \in Slot :
          dirty'[r][v][n] <=>
             dirty[r][v][n] \/ (v \in written /\ \E t \in outs : Wrap(v, t) = n)
    BY <1>t, <1>4 DEF Tune
  <2>2. \A v \in Var, n \in Slot, z \in Zone :
          ~(v \in written /\ \E t \in outs : Wrap(v, t) = n) =>
             data'[r][v][n][z] = data[r][v][n][z]
    BY <1>t, <1>4 DEF Tune
  <2> HIDE DEF written, outs
  <2>3. ASSUME NEW v \in Var, NEW n \in Slot, ~dirty'[r][v][n]
        PROVE  /\ ~dirty[r][v][n]
               /\ \A z \in Side \cup {"ext"} : data'[r][v][n][z] = data[r][v][n][z]
    <3>1. ~dirty[r][v][n] /\ ~(v \in written /\ \E t \in outs : Wrap(v, t) = n)
      BY <2>1, <2>3
    <3>2. \A z \in Zone : data'[r][v][n][z] = data[r][v][n][z]
      BY <2>2, <3>1
    <3> QED
      BY <1>t, <3>1, <3>2
  <2> QED
    BY <1>1, <2>3, OutsideHalos
<1> QED
  BY <1>2, <1>3, <1>4

-----------------------------------------------------------------------------
(* What is on its way by MPI.                                              *)

(* Messages that were there, with what they held.                          *)
LEMMA MpiKept ==
  ASSUME NEW q \in Rank, NEW d \in Side, MpiContent(q, d), script' = script,
         \A k \in DOMAIN chan'[q][d] : \E j \in DOMAIN chan[q][d] :
           /\ chan'[q][d][k].var = chan[q][d][j].var
           /\ chan'[q][d][k].exch = chan[q][d][j].exch
           /\ Held(q, d, k)' = Held(q, d, j)
  PROVE  MpiContent(q, d)'
<1> SUFFICES ASSUME NEW k \in DOMAIN chan'[q][d]
             PROVE  Carries(script', Held(q, d, k)', chan'[q][d][k].var, chan'[q][d][k].exch)
  BY DEF MpiContent
<1>1. PICK j \in DOMAIN chan[q][d] :
        /\ chan'[q][d][k].var = chan[q][d][j].var
        /\ chan'[q][d][k].exch = chan[q][d][j].exch
        /\ Held(q, d, k)' = Held(q, d, j)
  OBVIOUS
<1>2. Carries(script, Held(q, d, j), chan[q][d][j].var, chan[q][d][j].exch)
  BY DEF MpiContent
<1> QED
  BY <1>1, <1>2

(* The messages are there, and the buffers of those that MPI has not copied. *)
LEMMA MpiSame ==
  ASSUME NEW q \in Rank, NEW d \in Side, MpiContent(q, d), script' = script,
         chan'[q][d] = chan[q][d],
         \A k \in DOMAIN chan[q][d] : ~chan[q][d][k].eager =>
           sendBuf'[q][chan[q][d][k].var][d] = sendBuf[q][chan[q][d][k].var][d]
  PROVE  MpiContent(q, d)'
<1>1. \A k \in DOMAIN chan[q][d] : Held(q, d, k)' = Held(q, d, k)
  BY DEF Held
<1> QED
  BY <1>1, MpiKept

(* A rank in an exchange packs what everyone sends in it.                  *)
LEMMA PackedShare ==
  ASSUME HaloInv, NEW r \in Rank, RequestInv(r), ExchangeInv(r),
         FullReach(Start(script), Full(r)), NEW v \in Var, NEW s \in Side,
         PackIsend(r, v, s) \/ PackShm(r, v, s)
  PROVE  /\ Carries(script, sendBuf'[r][v][s], v, Len(trail[r]))
         /\ \A u \in Var, d \in Side : ~(u = v /\ d = s) => sendBuf'[r][u][d] = sendBuf[r][u][d]
<1> DEFINE w == swap[r][v]
           b == PackSteps(data[r], v, w, "ext")
<1>1. pc[r] \in InExchange /\ swap[r] = CurSwap(r)
  BY ItemPlace DEF InExchange, Halfway
<1>t. sendBuf \in [Rank -> [Var -> [Side -> Seq(Value)]]] /\ w \in SwapRange
  BY DEF HaloInv, TypeOK
<1>2. sendBuf' = [sendBuf EXCEPT ![r][v][s] = b]
  BY DEF PackIsend, PackShm
<1>3. b = Shares(Full(r), v)
  <2>1. /\ Last(Full(r).prog.trail).swap[v] = w
        /\ \A m \in Slot : Full(r).ext[v][m] = data[r][v][m]["ext"]
    BY <1>1, FullParts, ProgFields DEF CurSwap
  <2>2. NumSteps(w) \in Nat /\ w.first \in Int
    BY <1>t, NumStepsNat DEF SwapRange
  <2>3. \A k \in 1 .. NumSteps(w) : Wrap(v, w.first + k - 1) \in Slot
    BY <2>2, WrapSlot
  <2> HIDE DEF w
  <2> QED
    BY <2>1, <2>3 DEF Shares, PackSteps
<1> HIDE DEF b, w
<1>4. /\ sendBuf'[r][v][s] = b
      /\ \A u \in Var, d \in Side : ~(u = v /\ d = s) => sendBuf'[r][u][d] = sendBuf[r][u][d]
  BY <1>t, <1>2
<1>5. Carries(script, b, v, Len(trail[r]))
  BY <1>1, <1>3, OwnShare, StartFull
<1> QED
  BY <1>4, <1>5

LEMMA IsendMpi ==
  ASSUME HaloInv, NEW r \in Rank, RequestInv(r), ExchangeInv(r),
         FullReach(Start(script), Full(r)), NEW v \in Var, NEW s \in Side, PackIsend(r, v, s),
         NEW d \in Side, MpiContent(r, d)
  PROVE  MpiContent(r, d)'
<1>t. chan \in [Rank -> [Side -> Seq(Message)]]
  BY DEF HaloInv, TypeOK
<1>1. /\ Carries(script, sendBuf'[r][v][s], v, Len(trail[r]))
      /\ \A u \in Var, c \in Side : ~(u = v /\ c = s) => sendBuf'[r][u][c] = sendBuf[r][u][c]
  BY PackedShare
<1>2. script' = script
  BY ItemPlace
<1>3. It(HaloPackIsend, v, s) \in todo[r]
  BY ItemDone DEF PackIsend
<1>4. \A k \in DOMAIN chan[r][d] : chan[r][d][k].var \in Var
  BY HeldType
<1>5. CASE d # s
  <2>1. chan'[r][d] = chan[r][d]
    BY <1>t, <1>5 DEF PackIsend
  <2> QED
    BY <1>1, <1>2, <1>4, <1>5, <2>1, MpiSame
<1>6. CASE d = s
  <2> DEFINE M == chan[r][d]
             m == [tag |-> Tag(r, v), var |-> v, steps |-> swap[r][v],
                   exch |-> Len(trail[r]), eager |-> FALSE, data |-> <<>>]
  <2>1. chan'[r][d] = Append(M, m)
    BY <1>t, <1>6 DEF PackIsend
  <2>2. m \in Message /\ M \in Seq(Message)
    <3>1. chan'[r][d] \in Seq(Message)
      <4>1. HaloInv'
        BY PackIsendInv
      <4> QED
        BY <4>1 DEF HaloInv, TypeOK
    <3>2. M \in Seq(Message)
      BY <1>t
    <3> HIDE DEF M, m
    <3>3. Len(M) + 1 \in DOMAIN Append(M, m) /\ Append(M, m)[Len(M) + 1] = m
      BY <3>2
    <3> QED
      BY <2>1, <3>1, <3>2, <3>3
  <2>3. m.var = v /\ m.exch = Len(trail[r]) /\ m.eager = FALSE
    OBVIOUS
  <2> HIDE DEF m
  <2>4. ASSUME NEW k \in DOMAIN chan'[r][d]
        PROVE  Carries(script', Held(r, d, k)', chan'[r][d][k].var, chan'[r][d][k].exch)
    <3>1. CASE chan'[r][d][k] = m
      <4>1. Held(r, d, k)' = sendBuf'[r][v][s]
        BY <1>6, <2>3, <3>1 DEF Held
      <4> QED
        BY <1>1, <1>2, <2>3, <3>1, <4>1
    <3>2. CASE k \in DOMAIN M /\ chan'[r][d][k] = M[k]
      <4>1. Held(r, d, k)' = Held(r, d, k)
        <5>1. CASE M[k].eager
          BY <3>2, <5>1 DEF Held
        <5>2. CASE ~M[k].eager
          <6>1. M[k].var # v
            BY <1>3, <1>6, <3>2, <5>2 DEF RequestInv, SentActive, SendTracked
          <6> QED
            BY <1>1, <1>4, <3>2, <5>2, <6>1 DEF Held
        <5> QED
          BY <5>1, <5>2
      <4>2. Carries(script, Held(r, d, k), M[k].var, M[k].exch)
        BY <3>2 DEF MpiContent
      <4> QED
        BY <1>2, <3>2, <4>1, <4>2
    <3> HIDE DEF M
    <3> QED
      BY <2>1, <2>2, <2>4, <3>1, <3>2, Appended
  <2> QED
    BY <2>4 DEF MpiContent
<1> QED
  BY <1>5, <1>6

(* A rank makes a step: the messages it has sent.                          *)
LEMMA StepMpi ==
  ASSUME HaloInv, NEW r \in Rank, RequestInv(r), ExchangeInv(r), NoStray(r),
         FullReach(Start(script), Full(r)), RankStep(r), NEW d \in Side, MpiContent(r, d)
  PROVE  MpiContent(r, d)'
<1>t. /\ chan \in [Rank -> [Side -> Seq(Message)]]
      /\ sendBuf \in [Rank -> [Var -> [Side -> Seq(Value)]]]
      /\ \A k \in DOMAIN chan[r][d] : chan[r][d][k].var \in Var
  BY HeldType DEF HaloInv, TypeOK
<1>1. ASSUME NEW v \in Var, NEW s \in Side, PackIsend(r, v, s)
      PROVE  MpiContent(r, d)'
  BY <1>1, IsendMpi
<1>2. ASSUME NEW v \in Var, NEW s \in Side, PackShm(r, v, s)
      PROVE  MpiContent(r, d)'
  <2>1. script' = script /\ UsesShm(r, s) /\ chan' = chan
    BY <1>2, ItemPlace DEF PackShm, net
  <2>2. d # s \/ chan[r][d] = <<>>
    BY <2>1 DEF NoStray
  <2>3. \A u \in Var, c \in Side : ~(u = v /\ c = s) => sendBuf'[r][u][c] = sendBuf[r][u][c]
    BY <1>2, PackedShare
  <2>4. DOMAIN <<>> = {}
    OBVIOUS
  <2> QED
    BY <1>t, <2>1, <2>2, <2>3, <2>4, MpiSame
<1>3. CASE LeaveBarrier(r)
  <2>1. script' = script /\ chan' = chan
    BY <1>3 DEF LeaveBarrier, net
  <2>2. NoneOpen(r)
    <3>1. pc[r] = "barrier"
      BY <1>3 DEF LeaveBarrier
    <3> QED
      BY <3>1, ClosedOutside DEF Halfway, Whole
  <2>3. \A k \in DOMAIN chan[r][d] : chan[r][d][k].eager
    <3>1. \A k \in DOMAIN chan[r][d] : ~chan[r][d][k].eager =>
            sendReq[r][chan[r][d][k].var][d] = "active"
      BY DEF RequestInv, SentActive
    <3> QED
      BY <1>t, <2>2, <3>1 DEF NoneOpen
  <2> QED
    BY <2>1, <2>3, MpiSame
<1>4. CASE script' = script /\ chan'[r] = chan[r] /\ sendBuf'[r] = sendBuf[r]
  BY <1>4, MpiSame
<1> USE DEF net, bufs, reqs
<1>5. CASE BeginRun(r) \/ BeginEnd(r) \/ SkipPack(r) \/ ExchangeDone(r) \/ BeginPrepare(r)
  BY <1>4, <1>5 DEF BeginRun, BeginEnd, SkipPack, ExchangeDone, BeginPrepare
<1>6. CASE EvalExterior(r) \/ EvalInterior(r) \/ EvalAll(r)
  BY <1>4, <1>6 DEF EvalExterior, EvalInterior, EvalAll
<1>7. ASSUME NEW v \in Var, NEW s \in Side,
             Irecv(r, v, s) \/ UnpackMpi(r, v, s) \/ UnpackShm(r, v, s) \/ Final(r, v, s)
      PROVE  MpiContent(r, d)'
  BY <1>4, <1>7 DEF Irecv, UnpackMpi, UnpackShm, Final, calc
<1>8. CASE Fill(r) \/ SetSlice(r) \/ SetElems(r) \/ SetPoint(r) \/ \E k \in TuneSteps : Tune(r, k)
  BY <1>4, <1>8 DEF Fill, SetSlice, SetElems, SetPoint, Tune
<1>9. CASE LeaveAllocBarrier(r) \/ LeaveShmBarrier(r)
  BY <1>4, <1>9 DEF LeaveAllocBarrier, LeaveShmBarrier
<1> QED
  BY <1>1, <1>2, <1>3, <1>5, <1>6, <1>7, <1>8, <1>9 DEF RankStep

(* What meets a receive goes, and what MPI copies stays what it was.       *)
LEMMA DeliverMpi ==
  ASSUME HaloInv, NEW y \in Rank, NEW t \in Side, Deliver(y, t),
         NEW q \in Rank, NEW d \in Side, MpiContent(q, d)
  PROVE  MpiContent(q, d)'
<1> DEFINE p == Nbr(y, t)
           b == Opp(t)
<1>t. chan \in [Rank -> [Side -> Seq(Message)]]
  BY DEF HaloInv, TypeOK
<1>1. script' = script /\ sendBuf' = sendBuf
  BY DEF Deliver, calc
<1>2. p \in Rank /\ b \in Side
  BY NbrRank DEF Deliver
<1>3. PICK k \in DOMAIN chan[p][b] : chan' = [chan EXCEPT ![p][b] = RemoveAt(@, k)]
  BY DEF Deliver
<1> HIDE DEF p, b
<1>4. CASE q = p /\ d = b
  <2> DEFINE M == chan[q][d]
  <2>1. M \in Seq(Message) /\ k \in DOMAIN M /\ chan'[q][d] = RemoveAt(M, k)
    BY <1>t, <1>3, <1>4
  <2>2. ASSUME NEW n \in DOMAIN chan'[q][d]
        PROVE  \E j \in DOMAIN M : chan'[q][d][n] = M[j]
    <3> HIDE DEF M
    <3>1. n \in DOMAIN RemoveAt(M, k)
      BY <2>1
    <3>2. (IF n < k THEN n ELSE n + 1) \in DOMAIN M
          /\ RemoveAt(M, k)[n] = M[IF n < k THEN n ELSE n + 1]
      BY <2>1, <3>1, RemovedAt
    <3> QED
      BY <2>1, <3>2
  <2>3. \A n \in DOMAIN chan'[q][d], j \in DOMAIN M :
          chan'[q][d][n] = M[j] => Held(q, d, n)' = Held(q, d, j)
    BY <1>1 DEF Held
  <2> QED
    BY <1>1, <2>2, <2>3, MpiKept
<1>5. CASE ~(q = p /\ d = b)
  <2>1. chan'[q][d] = chan[q][d]
    BY <1>t, <1>3, <1>5
  <2> QED
    BY <1>1, <2>1, MpiSame
<1> QED
  BY <1>4, <1>5

LEMMA EagerMpi ==
  ASSUME HaloInv, NEW y \in Rank, NEW t \in Side, Eager(y, t),
         NEW q \in Rank, NEW d \in Side, MpiContent(q, d)
  PROVE  MpiContent(q, d)'
<1>1. script' = script /\ sendBuf' = sendBuf
  BY DEF Eager, calc, bufs
<1>2. PICK k \in DOMAIN chan[y][t] :
        chan' = [chan EXCEPT ![y][t][k] =
                  [chan[y][t][k] EXCEPT !.eager = TRUE,
                                        !.data = sendBuf[y][chan[y][t][k].var][t]]]
        /\ ~chan[y][t][k].eager
  BY DEF Eager
<1> DEFINE m == chan[y][t][k]
           n == [m EXCEPT !.eager = TRUE, !.data = sendBuf[y][m.var][t]]
<1>3. m \in Message /\ chan \in [Rank -> [Side -> Seq(Message)]]
  BY HeldType DEF HaloInv, TypeOK
<1>4. n.var = m.var /\ n.exch = m.exch /\ n.eager = TRUE /\ n.data = sendBuf[y][m.var][t]
  BY <1>3 DEF Message
<1>5. /\ \A z \in Rank, c \in Side : ~(z = y /\ c = t) => chan'[z][c] = chan[z][c]
      /\ DOMAIN chan'[y][t] = DOMAIN chan[y][t]
      /\ \A j \in DOMAIN chan[y][t] : chan'[y][t][j] = IF j = k THEN n ELSE chan[y][t][j]
  BY <1>2, <1>3
<1> HIDE DEF n
<1>6. CASE q = y /\ d = t
  <2>1. ASSUME NEW j \in DOMAIN chan[q][d]
        PROVE  /\ chan'[q][d][j].var = chan[q][d][j].var
               /\ chan'[q][d][j].exch = chan[q][d][j].exch
               /\ Held(q, d, j)' = Held(q, d, j)
    <3>1. CASE j = k
      BY <1>1, <1>2, <1>4, <1>5, <1>6, <3>1 DEF Held
    <3>2. CASE j # k
      BY <1>1, <1>5, <1>6, <3>2 DEF Held
    <3> QED
      BY <3>1, <3>2
  <2> QED
    BY <1>1, <1>5, <1>6, <2>1, MpiKept
<1>7. CASE ~(q = y /\ d = t)
  BY <1>1, <1>5, <1>7, MpiSame
<1> QED
  BY <1>6, <1>7

-----------------------------------------------------------------------------
(* What has come by MPI.                                                   *)

LEMMA GotBy ==
  ASSUME NEW r \in Rank, GotContent(r), script' = script,
         pc'[r] \in InExchange => pc[r] \in InExchange /\ trail'[r] = trail[r],
         \A v \in Var, s \in Side :
           /\ HasNbr(r, s) /\ ~UsesShm(r, s) /\ ~Awaits(r, s, v)'
           /\ pc'[r] \in InExchange
           => \/ ~Awaits(r, s, v) /\ recvBuf'[r][v][s] = recvBuf[r][v][s]
              \/ Carries(script, recvBuf'[r][v][s], v, Len(trail[r]))
  PROVE  GotContent(r)'
<1> SUFFICES ASSUME pc'[r] \in InExchange, NEW v \in Var, NEW s \in Side,
                    HasNbr(r, s), RecvBuf(v, s), ~UsesShm(r, s),
                    Swapped(CurSwap(r)[v])', ~Awaits(r, s, v)'
             PROVE  Carries(script', recvBuf'[r][v][s], v, Len(trail'[r]))
  BY DEF GotContent
<1>1. trail'[r] = trail[r] /\ pc[r] \in InExchange /\ Swapped(CurSwap(r)[v])
  BY DEF CurSwap, Swapped
<1>2. CASE ~Awaits(r, s, v) /\ recvBuf'[r][v][s] = recvBuf[r][v][s]
  <2>1. Carries(script, recvBuf[r][v][s], v, Len(trail[r]))
    BY <1>1, <1>2 DEF GotContent
  <2> QED
    BY <1>1, <1>2, <2>1
<1>3. CASE Carries(script, recvBuf'[r][v][s], v, Len(trail[r]))
  BY <1>1, <1>3
<1> QED
  BY <1>2, <1>3

(* Everything is still to come when an exchange begins.                    *)
LEMMA GotStart ==
  ASSUME HaloInv, NEW r \in Rank, NEW f, NEW g, NEW i \in BOOLEAN, NEW n,
         StartExchange(r, f, g, TRUE, i, n)
  PROVE  GotContent(r)'
<1>1. CurSwap(r)' = SwapOf(r, f, g) /\ todo'[r] = TodoOf(r, SwapOf(r, f, g), TRUE, i)
  BY ONLY HaloInv, StartExchange(r, f, g, TRUE, i, n), NewSwap, Zenon
<1>2. ASSUME NEW v \in Var, NEW s \in Side, HasNbr(r, s), RecvBuf(v, s), ~UsesShm(r, s),
             Swapped(CurSwap(r)[v])'
      PROVE  Awaits(r, s, v)'
  <2>1. Swapped(SwapOf(r, f, g)[v])
    BY <1>1, <1>2 DEF Swapped
  <2>2. It(HaloIrecv, v, s) \in TodoOf(r, SwapOf(r, f, g), TRUE, i)
    BY <1>2, <2>1, TodoOfItems
  <2> QED
    BY <1>1, <1>2, <2>2 DEF Awaits
<1> QED
  BY <1>2 DEF GotContent

LEMMA ItemGot ==
  ASSUME HaloInv, NEW r \in Rank, RequestInv(r), ExchangeInv(r), GotContent(r),
         NEW v \in Var, NEW s \in Side,
         \/ Irecv(r, v, s) \/ PackIsend(r, v, s) \/ PackShm(r, v, s)
         \/ UnpackMpi(r, v, s) \/ UnpackShm(r, v, s) \/ Final(r, v, s)
  PROVE  GotContent(r)'
<1>1. /\ pc[r] \in InExchange /\ trail' = trail /\ script' = script
  BY ItemPlace DEF InExchange, Halfway
<1>2. recvBuf' = recvBuf
  BY DEF Irecv, PackIsend, PackShm, UnpackMpi, UnpackShm, Final, bufs
<1>3. CASE Irecv(r, v, s)
  <2>1. /\ HasNbr(r, s)
        /\ \A u \in Var, d \in Side :
             It(HaloIrecv, u, d) \in todo'[r] <=>
               It(HaloIrecv, u, d) \in todo[r] /\ ~(u = v /\ d = s)
    BY <1>3, ItemSame DEF Irecv
  <2> DEFINE p == [tag |-> Tag(r, v), var |-> v, steps |-> swap[r][v]]
  <2>2. \A d \in Side : posted'[r][d] = IF d = s THEN Append(posted[r][s], p) ELSE posted[r][d]
    BY <1>3 DEF Irecv, HaloInv, TypeOK
  <2>3. posted[r][s] \in Seq(Posting) /\ p.var = v
    BY HeldType
  <2> HIDE DEF p
  <2>4. ASSUME NEW u \in Var, NEW d \in Side, ~UsesShm(r, d), Awaits(r, d, u)
        PROVE  Awaits(r, d, u)'
    <3>1. CASE It(HaloIrecv, u, d) \in todo[r] /\ ~(u = v /\ d = s)
      BY <2>1, <2>4, <3>1 DEF Awaits
    <3> DEFINE P == posted[r][s]
    <3>2. DOMAIN P \subseteq DOMAIN Append(P, p) /\ \A j \in DOMAIN P : Append(P, p)[j] = P[j]
      BY <2>3
    <3>3. Len(P) + 1 \in DOMAIN Append(P, p) /\ Append(P, p)[Len(P) + 1] = p
      BY <2>3
    <3> HIDE DEF P
    <3>4. CASE u = v /\ d = s
      <4>1. \E j \in DOMAIN posted'[r][d] : posted'[r][d][j].var = u
        BY <2>2, <2>3, <3>3, <3>4 DEF P
      <4> QED
        BY <2>4, <4>1 DEF Awaits
    <3>5. CASE \E j \in DOMAIN posted[r][d] : posted[r][d][j].var = u
      <4>1. PICK j \in DOMAIN posted[r][d] : posted[r][d][j].var = u
        BY <3>5
      <4>2. j \in DOMAIN posted'[r][d] /\ posted'[r][d][j] = posted[r][d][j]
        BY <2>2, <3>2 DEF P
      <4> QED
        BY <2>4, <4>1, <4>2 DEF Awaits
    <3> QED
      BY <2>4, <3>1, <3>4, <3>5 DEF Awaits
  <2> QED
    BY <1>1, <1>2, <2>4, GotBy
<1>4. CASE ~Irecv(r, v, s)
  <2>1. PICK a \in {HaloPackIsend, HaloUnpack, HaloFinal} :
          IsHead(r, a, v, s) /\ Done(r, a, v, s) /\ UNCHANGED calc
    BY <1>4 DEF PackIsend, PackShm, UnpackMpi, UnpackShm, Final
  <2>2. a # HaloIrecv /\ posted' = posted
    BY <1>4 DEF HaloIrecv, HaloPackIsend, HaloUnpack, HaloFinal,
       PackIsend, PackShm, UnpackMpi, UnpackShm, Final, net
  <2>3. \A u \in Var, d \in Side :
          It(HaloIrecv, u, d) \in todo'[r] <=> It(HaloIrecv, u, d) \in todo[r]
    BY <2>1, <2>2, ItemSame
  <2>4. \A u \in Var, d \in Side : ~UsesShm(r, d) => (Awaits(r, d, u)' <=> Awaits(r, d, u))
    BY <2>2, <2>3 DEF Awaits
  <2> QED
    BY <1>1, <1>2, <2>4, GotBy
<1> QED
  BY <1>3, <1>4

LEMMA StepGot ==
  ASSUME HaloInv, NEW r \in Rank, RequestInv(r), ExchangeInv(r), GotContent(r), RankStep(r)
  PROVE  GotContent(r)'
<1>t. /\ pc \in [Rank -> PcType] /\ todo \in TodoType
  BY DEF HaloInv, TypeOK, PcType
<1>o. ASSUME pc'[r] \notin InExchange
      PROVE  GotContent(r)'
  BY <1>o DEF GotContent
<1>1. CASE BeginRun(r) \/ BeginEnd(r) \/ EvalExterior(r) \/ EvalAll(r)
  <2>1. CASE BeginRun(r) \/ BeginEnd(r)
    <3>1. StartExchange(r, first[r], dirty[r], TRUE, TRUE, 0)
      BY <2>1 DEF BeginRun, BeginEnd
    <3> QED
      BY <3>1, GotStart
  <2>2. CASE EvalExterior(r)
    <3>1. StartExchange(r, FirstAfter(r), DirtyAfter(r), TRUE, FALSE, 1)
      BY <2>2 DEF EvalExterior
    <3> QED
      BY <3>1, GotStart
  <2>3. CASE EvalAll(r)
    <3>1. StartExchange(r, FirstAfter(r), DirtyAfter(r), TRUE, TRUE, 1)
      BY <2>3 DEF EvalAll
    <3> QED
      BY <3>1, GotStart
  <2> QED
    BY <1>1, <2>1, <2>2, <2>3
<1>2. CASE EvalInterior(r)
  <2>1. /\ pc[r] = "inner" /\ trail' = trail /\ script' = script /\ posted' = posted
        /\ recvBuf' = recvBuf
        /\ todo'[r] = TodoOf(r, SwapOf(r, FirstAfter(r), dirty[r]), FALSE, TRUE)
    BY <1>t, <1>2 DEF EvalInterior, StartExchange, TodoType, net, bufs
  <2>2. pc[r] \in InExchange /\ todo[r] = {}
    BY <2>1 DEF InExchange, Halfway, Whole, RequestInv, ThingsDue
  <2>3. \A u \in Var, d \in Side : It(HaloIrecv, u, d) \notin todo'[r]
    BY <2>1, TodoOfItems
  <2>4. \A u \in Var, d \in Side : ~UsesShm(r, d) => (Awaits(r, d, u)' <=> Awaits(r, d, u))
    BY <2>1, <2>2, <2>3 DEF Awaits
  <2> QED
    BY <2>1, <2>2, <2>4, GotBy
<1>3. CASE ExchangeDone(r)
  <2>1. /\ todo' = todo /\ trail' = trail /\ script' = script /\ posted' = posted
        /\ recvBuf' = recvBuf /\ PlaceInCall(r)
    BY <1>3 DEF ExchangeDone, net, bufs, RequestInv
  <2>2. pc[r] \in InExchange
    BY <1>3 DEF ExchangeDone, InExchange, Whole, Halfway
  <2>3. \A u \in Var, d \in Side : ~UsesShm(r, d) => (Awaits(r, d, u)' <=> Awaits(r, d, u))
    BY <2>1 DEF Awaits
  <2> QED
    BY <2>1, <2>2, <2>3, GotBy
<1>4. ASSUME NEW v \in Var, NEW s \in Side,
             \/ Irecv(r, v, s) \/ PackIsend(r, v, s) \/ PackShm(r, v, s)
             \/ UnpackMpi(r, v, s) \/ UnpackShm(r, v, s) \/ Final(r, v, s)
      PROVE  GotContent(r)'
  BY <1>4, ItemGot
<1>5. CASE SkipPack(r)
  <2>1. pc[r] = "packs" /\ NextPack(r) /\ script' = script /\ PlaceInCall(r)
    BY <1>5 DEF SkipPack, RequestInv
  <2>2. pc'[r] \in {"packs", "call"}
    BY <2>1, NextPackPlace
  <2> QED
    BY <1>o, <2>2 DEF InExchange, Whole, Halfway
<1>6. CASE \/ Fill(r) \/ SetSlice(r) \/ SetElems(r) \/ SetPoint(r)
           \/ BeginPrepare(r) \/ (\E k \in TuneSteps : Tune(r, k))
           \/ LeaveBarrier(r) \/ LeaveAllocBarrier(r) \/ LeaveShmBarrier(r)
  <2>1. pc'[r] \in {"call"} \cup Barriers
    BY <1>t, <1>6 DEF Fill, SetSlice, SetElems, SetPoint, BeginPrepare, Tune,
       LeaveBarrier, LeaveAllocBarrier, LeaveShmBarrier, Returns, Barriers
  <2> QED
    BY <1>o, <2>1 DEF InExchange, Whole, Halfway, Barriers
<1> QED
  BY <1>1, <1>2, <1>3, <1>4, <1>5, <1>6 DEF RankStep

(* A message that meets its receive: it is of this exchange.               *)
LEMMA DeliverGot ==
  ASSUME AgreementInv, UniformCalls, NEW r \in Rank, NEW s \in Side, Deliver(r, s),
         LinkInv(r, s), PostedNow(r), MpiContent(Nbr(r, s), Opp(s)),
         NEW x \in Rank, GotContent(x)
  PROVE  GotContent(x)'
<1>1. HaloInv /\ HasNbr(r, s) /\ UNCHANGED <<calc, todo>>
  BY DEF Deliver, AgreementInv, RequestsInv
<1>t. /\ posted \in [Rank -> [Side -> Seq(Posting)]]
      /\ recvBuf \in [Rank -> [Var -> [Side -> Seq(Value)]]]
  BY <1>1 DEF HaloInv, TypeOK
<1>n. Nbr(r, s) \in Rank /\ Opp(s) \in Side
  BY <1>1, NbrRank
<1> DEFINE q == Nbr(r, s)
           d == Opp(s)
<1>2. PICK i \in DOMAIN posted[r][s], k \in DOMAIN chan[q][d] :
        /\ posted[r][s][i].tag = chan[q][d][k].tag
        /\ FirstWith(chan[q][d], k)
        /\ recvBuf' = [recvBuf EXCEPT ![r][posted[r][s][i].var][s] = Held(q, d, k)]
        /\ posted' = [posted EXCEPT ![r][s] = RemoveAt(@, i)]
  BY DEF Deliver, Held
<1>3. /\ chan[q][d][k].var = posted[r][s][i].var
      /\ chan[q][d][k].exch = Len(trail[r])
  BY <1>1, <1>2, Meets
<1> DEFINE w == posted[r][s][i].var
           b == Held(q, d, k)
<1>4. w \in Var /\ posted[r][s] \in Seq(Posting)
  BY <1>1, HeldType
<1>5. Carries(script, b, w, Len(trail[r]))
  BY <1>3 DEF MpiContent
<1> HIDE DEF w, b, q, d
<1>6. /\ recvBuf'[r][w][s] = b
      /\ \A y \in Rank, v \in Var, c \in Side :
           ~(y = r /\ v = w /\ c = s) => recvBuf'[y][v][c] = recvBuf[y][v][c]
  BY <1>t, <1>2, <1>4 DEF w, b
<1>7. /\ posted'[r][s] = RemoveAt(posted[r][s], i)
      /\ \A y \in Rank, c \in Side : ~(y = r /\ c = s) => posted'[y][c] = posted[y][c]
  BY <1>t, <1>2
<1>8. script' = script /\ pc' = pc /\ trail' = trail /\ todo' = todo
  BY <1>1 DEF calc
<1>9. ASSUME NEW v \in Var, NEW c \in Side, ~(x = r /\ v = w /\ c = s),
             ~UsesShm(x, c), Awaits(x, c, v)
      PROVE  Awaits(x, c, v)'
  <2>1. CASE It(HaloIrecv, v, c) \in todo[x]
    BY <1>8, <1>9, <2>1 DEF Awaits
  <2>2. CASE \E j \in DOMAIN posted[x][c] : posted[x][c][j].var = v
    <3>1. PICK j \in DOMAIN posted[x][c] : posted[x][c][j].var = v
      BY <2>2
    <3>2. CASE x = r /\ c = s
      <4> DEFINE P == posted[r][s]
      <4>1. j \in DOMAIN P /\ j # i /\ P \in Seq(Posting) /\ i \in DOMAIN P /\ P[j].var = v
        BY <1>2, <1>4, <1>9, <3>1, <3>2 DEF w
      <4> HIDE DEF P
      <4>2. \E n \in DOMAIN RemoveAt(P, i) : RemoveAt(P, i)[n] = P[j]
        BY <4>1, RemovedAll
      <4>3. \E n \in DOMAIN posted'[x][c] : posted'[x][c][n].var = v
        BY <1>7, <3>2, <4>1, <4>2 DEF P
      <4> QED
        BY <1>9, <4>3 DEF Awaits
    <3>3. CASE ~(x = r /\ c = s)
      BY <1>7, <1>9, <3>1, <3>3 DEF Awaits
    <3> QED
      BY <3>2, <3>3
  <2> QED
    BY <1>9, <2>1, <2>2 DEF Awaits
<1>10. ASSUME NEW v \in Var, NEW c \in Side, ~UsesShm(x, c), ~Awaits(x, c, v)'
       PROVE  \/ ~Awaits(x, c, v) /\ recvBuf'[x][v][c] = recvBuf[x][v][c]
              \/ Carries(script, recvBuf'[x][v][c], v, Len(trail[x]))
  <2>1. CASE x = r /\ v = w /\ c = s
    BY <1>5, <1>6, <2>1
  <2>2. CASE ~(x = r /\ v = w /\ c = s)
    BY <1>6, <1>9, <1>10, <2>2
  <2> QED
    BY <2>1, <2>2
<1> QED
  BY <1>8, <1>10, GotBy

(* The ranks that a step leaves as they are.                               *)
LEMMA GotSameRank ==
  ASSUME NEW x \in Rank, GotContent(x), script' = script, pc'[x] = pc[x],
         trail'[x] = trail[x], todo'[x] = todo[x], posted'[x] = posted[x],
         recvBuf'[x] = recvBuf[x]
  PROVE  GotContent(x)'
<1>1. \A v \in Var, s \in Side : Awaits(x, s, v)' <=> Awaits(x, s, v)
  BY AwaitsSame
<1> QED
  BY <1>1, GotBy

-----------------------------------------------------------------------------
(* Unpacking puts what the neighbour has sent in this exchange, and that   *)
(* is what the rank itself sends in it.                                    *)

LEMMA UnpackMpiHalos ==
  ASSUME HaloInv, NEW r \in Rank, RequestInv(r), ExchangeInv(r), BuffersDue(r), GotContent(r),
         HalosKept(r), FullReach(Start(script), Full(r)),
         NEW v \in Var, NEW s \in Side, UnpackMpi(r, v, s)
  PROVE  HalosKept(r)'
<1>1. /\ pc[r] \in Whole \cup {"exch_ext"} /\ pc' = pc /\ trail' = trail
      /\ swap[r] = CurSwap(r) /\ HasNbr(r, s)
  BY ItemPlace
<1>2. /\ IsHead(r, HaloUnpack, v, s) /\ Done(r, HaloUnpack, v, s) /\ UNCHANGED calc
      /\ ~UsesShm(r, s) /\ recvReq[r][v][s] # "active" /\ Unpack(r, v, s, recvBuf[r][v][s])
  BY DEF UnpackMpi
<1>3. /\ todo'[r] = todo[r] \ {It(HaloUnpack, v, s)} /\ It(HaloUnpack, v, s) \in todo[r]
      /\ pc[r] \in Whole
      /\ \A u \in Var, d \in Side : It(HaloIrecv, u, d) \notin todo[r]
  <2>1. HaloIrecv < HaloUnpack
        /\ HaloUnpack \in {HaloIrecv, HaloPackIsend, HaloUnpack, HaloFinal}
        /\ HaloIrecv \in {HaloIrecv, HaloPackIsend, HaloUnpack, HaloFinal}
    BY DEF HaloIrecv, HaloUnpack
  <2> QED
    BY <1>2, <2>1, ItemDone
<1>4. RecvBuf(v, s) /\ Swapped(CurSwap(r)[v])
  <2>1. It(HaloUnpack, v, s).var = v
    BY DEF It
  <2> QED
    BY <1>1, <1>3, <2>1 DEF BuffersDue, ExchangeInv, SwapsInWindow
<1>5. ~Awaits(r, s, v)
  BY <1>2, <1>3 DEF Awaits, RequestInv, PostedActive
<1>6. Carries(script, recvBuf[r][v][s], v, Len(trail[r]))
  BY <1>1, <1>2, <1>3, <1>4, <1>5 DEF GotContent, InExchange
<1>7. recvBuf[r][v][s] = Shares(Full(r), v)
  BY <1>3, <1>6, OwnShare, StartFull DEF InExchange
<1> QED
  BY <1>1, <1>2, <1>3, <1>7, UnpackHalos

LEMMA UnpackShmHalos ==
  ASSUME AgreementInv, UniformCalls, NEW r \in Rank, BuffersDue(r), HalosKept(r),
         FullReach(Start(script), Full(r)), NEW v \in Var, NEW s \in Side, UnpackShm(r, v, s),
         LinkInv(r, s), ShmContent(r, s)
  PROVE  HalosKept(r)'
<1>0. HaloInv /\ RequestInv(r) /\ ExchangeInv(r)
  BY DEF AgreementInv, RequestsInv
<1>1. /\ pc[r] \in Whole \cup {"exch_ext"} /\ pc' = pc /\ trail' = trail
      /\ swap[r] = CurSwap(r) /\ HasNbr(r, s)
  BY <1>0, ItemPlace
<1> DEFINE b == sendBuf[Nbr(r, s)][v][Opp(s)]
           f == Len(trail[r])
<1>2. /\ IsHead(r, HaloUnpack, v, s) /\ Done(r, HaloUnpack, v, s) /\ UNCHANGED calc
      /\ UsesShm(r, s) /\ full[Nbr(r, s)][v][Opp(s)] /\ Unpack(r, v, s, b)
  BY DEF UnpackShm, OkToRead
<1>3. todo'[r] = todo[r] \ {It(HaloUnpack, v, s)} /\ pc[r] \in Whole
  <2>1. HaloUnpack \in {HaloIrecv, HaloPackIsend, HaloUnpack, HaloFinal}
    BY DEF HaloUnpack
  <2> QED
    BY <1>0, <1>2, <2>1, ItemDone
<1>4. /\ f \in 1 .. f /\ RecvBuf(v, s) /\ Swapped(trail[r][f].swap[v]) /\ Awaits(r, s, v)
  BY <1>0, ReadView
<1>5. PICK e \in Nat : OnWay(r, s, v, e)
  BY <1>1, <1>2 DEF LinkInv, ShmExact
<1>6. OnWay(r, s, v, f) /\ f \in Nat
  <2>1. f \in Nat
    BY <1>4
  <2>2. CASE e = f
    BY <1>5, <2>1, <2>2
  <2>3. CASE e # f
    BY <1>1, <1>4, <1>5, <2>1, <2>3, OnWayFirst
  <2> QED
    BY <2>2, <2>3
<1>7. Carries(script, b, v, f)
  BY <1>1, <1>2, <1>6 DEF ShmContent
<1>8. b = Shares(Full(r), v)
  <2> HIDE DEF b
  <2> QED
    BY <1>0, <1>3, <1>7, OwnShare, StartFull DEF InExchange
<1> HIDE DEF b
<1> QED
  BY <1>0, <1>1, <1>2, <1>3, <1>8, UnpackHalos

(* The halos of the rank that makes a step.                                *)
LEMMA StepHalos ==
  ASSUME AgreementInv, UniformCalls, NEW r \in Rank, BuffersDue(r), RankStep(r),
         FullReach(Start(script), Full(r)), GotContent(r), HalosKept(r),
         \A s \in Side : LinkInv(r, s) /\ ShmContent(r, s)
  PROVE  HalosKept(r)'
<1>0. HaloInv /\ RequestInv(r) /\ ExchangeInv(r)
  BY DEF AgreementInv, RequestsInv
<1>1. CASE EvalExterior(r) \/ EvalAll(r)
  BY <1>0, <1>1, EvalHalos
<1>2. CASE BeginRun(r) \/ BeginEnd(r)
  BY <1>0, <1>2, BeginHalos
<1>3. CASE EvalInterior(r)
  BY <1>0, <1>3, InteriorHalos
<1>4. CASE ExchangeDone(r)
  BY <1>0, <1>4, DoneHalos
<1>5. ASSUME NEW v \in Var, NEW s \in Side,
             Irecv(r, v, s) \/ PackIsend(r, v, s) \/ PackShm(r, v, s) \/ Final(r, v, s)
      PROVE  HalosKept(r)'
  BY <1>0, <1>5, SendHalos
<1>6. ASSUME NEW v \in Var, NEW s \in Side, UnpackMpi(r, v, s)
      PROVE  HalosKept(r)'
  BY <1>0, <1>6, UnpackMpiHalos
<1>7. ASSUME NEW v \in Var, NEW s \in Side, UnpackShm(r, v, s)
      PROVE  HalosKept(r)'
  BY <1>7, UnpackShmHalos
<1>8. CASE \/ Fill(r) \/ SetSlice(r) \/ SetElems(r) \/ SetPoint(r) \/ SkipPack(r)
           \/ BeginPrepare(r) \/ (\E k \in TuneSteps : Tune(r, k))
           \/ LeaveBarrier(r) \/ LeaveAllocBarrier(r) \/ LeaveShmBarrier(r)
  BY <1>0, <1>8, CallHalos
<1> QED
  BY <1>1, <1>2, <1>3, <1>4, <1>5, <1>6, <1>7, <1>8 DEF RankStep

-----------------------------------------------------------------------------
(* What is on its way in shared memory.                                    *)

LEMMA ShmKept ==
  ASSUME NEW r \in Rank, NEW s \in Side, ShmContent(r, s), script' = script,
         HasNbr(r, s) /\ UsesShm(r, s) =>
           \A v \in Var, e \in Nat : OnWay(r, s, v, e)' =>
             \/ /\ OnWay(r, s, v, e)
                /\ sendBuf'[Nbr(r, s)][v][Opp(s)] = sendBuf[Nbr(r, s)][v][Opp(s)]
             \/ Carries(script, sendBuf'[Nbr(r, s)][v][Opp(s)], v, e)
  PROVE  ShmContent(r, s)'
<1> SUFFICES ASSUME HasNbr(r, s), UsesShm(r, s), NEW v \in Var, NEW e \in Nat,
                    OnWay(r, s, v, e)'
             PROVE  Carries(script', sendBuf'[Nbr(r, s)][v][Opp(s)], v, e)
  BY DEF ShmContent
<1>1. CASE /\ OnWay(r, s, v, e)
           /\ sendBuf'[Nbr(r, s)][v][Opp(s)] = sendBuf[Nbr(r, s)][v][Opp(s)]
  <2>1. Carries(script, sendBuf[Nbr(r, s)][v][Opp(s)], v, e)
    BY <1>1 DEF ShmContent
  <2> QED
    BY <1>1, <2>1
<1>2. CASE Carries(script, sendBuf'[Nbr(r, s)][v][Opp(s)], v, e)
  BY <1>2
<1> QED
  BY <1>1, <1>2

(* The buffers are there, and nothing more is sent.                        *)
LEMMA ShmSame ==
  ASSUME NEW r \in Rank, NEW s \in Side, ShmContent(r, s), script' = script,
         HasNbr(r, s) =>
           /\ sendBuf'[Nbr(r, s)] = sendBuf[Nbr(r, s)]
           /\ \A v \in Var, e \in Nat :
                /\ SentIn(Nbr(r, s), Opp(s), v, e)' => SentIn(Nbr(r, s), Opp(s), v, e)
                /\ GotIn(r, s, v, e) => GotIn(r, s, v, e)'
  PROVE  ShmContent(r, s)'
<1>1. ASSUME HasNbr(r, s), NEW v \in Var, NEW e \in Nat, OnWay(r, s, v, e)'
      PROVE  /\ OnWay(r, s, v, e)
             /\ sendBuf'[Nbr(r, s)][v][Opp(s)] = sendBuf[Nbr(r, s)][v][Opp(s)]
  BY <1>1 DEF OnWay
<1> QED
  BY <1>1, ShmKept

(* A rank packs: into a buffer that has been read, and what is to be read  *)
(* in this exchange.                                                       *)
LEMMA SendShm ==
  ASSUME AgreementInv, NEW x \in Rank, BuffersDue(x), NEW v \in Var, NEW d \in Side,
         PackIsend(x, v, d) \/ PackShm(x, v, d), FullReach(Start(script), Full(x)),
         \A y \in Rank : y # x => SentKept(y) /\ GotKept(y),
         NEW r \in Rank, NEW s \in Side, LinkInv(r, s), ShmContent(r, s)
  PROVE  ShmContent(r, s)'
<1>1. HaloInv /\ RequestInv(x) /\ ExchangeInv(x) /\ RankStep(x) /\ script' = script
  BY DEF AgreementInv, RequestsInv, RankStep, PackIsend, PackShm, calc
<1> DEFINE f == Len(trail[x])
<1>2. /\ GotKept(x)
      /\ \A c \in Side, u \in Var, e \in Nat :
           SentIn(x, c, u, e)' => SentIn(x, c, u, e) \/ (c = d /\ u = v /\ e = f)
  BY <1>1, SendView
<1>3. GotKept(r)
  BY <1>2
<1>4. /\ Carries(script, sendBuf'[x][v][d], v, f)
      /\ \A u \in Var, c \in Side : ~(u = v /\ c = d) => sendBuf'[x][u][c] = sendBuf[x][u][c]
  BY <1>1, PackedShare
<1> HIDE DEF f
<1>5. ASSUME HasNbr(r, s), UsesShm(r, s), NEW u \in Var, NEW e \in Nat, OnWay(r, s, u, e)'
      PROVE  \/ /\ OnWay(r, s, u, e)
                /\ sendBuf'[Nbr(r, s)][u][Opp(s)] = sendBuf[Nbr(r, s)][u][Opp(s)]
             \/ Carries(script, sendBuf'[Nbr(r, s)][u][Opp(s)], u, e)
  <2> DEFINE q == Nbr(r, s)
             c == Opp(s)
  <2>1. q \in Rank /\ c \in Side /\ HasNbr(q, c) /\ UsesShm(q, c)
    BY <1>5, LinkEnds
  <2>2. SentIn(q, c, u, e)' /\ ~GotIn(r, s, u, e)
    BY <1>3, <1>5 DEF OnWay, GotKept
  <2>3. SentIn(q, c, u, e) => OnWay(r, s, u, e)
    BY <2>2 DEF OnWay
  <2>4. OnWay(r, s, u, e) => full[q][u][c]
    BY <1>5 DEF LinkInv, ShmExact
  <2> HIDE DEF q, c
  <2>5. CASE q # x
    <3>1. SentIn(q, c, u, e)
      BY <2>1, <2>2, <2>5 DEF SentKept
    <3>2. sendBuf'[q] = sendBuf[q]
      BY <1>1, <2>1, <2>5, StepOthersData
    <3> QED
      BY <2>3, <3>1, <3>2 DEF q, c
  <2>6. CASE q = x /\ u = v /\ c = d /\ e = f
    <3>1. Carries(script, sendBuf'[q][u][c], u, e)
      BY <1>4, <2>6
    <3> QED
      BY <3>1 DEF q, c
  <2>7. CASE q = x /\ u = v /\ c = d /\ e # f
    <3>1. SentIn(q, c, u, e)
      BY <1>2, <2>1, <2>2, <2>7
    <3>2. ~full[q][u][c]
      BY <2>1, <2>7 DEF PackIsend, PackShm, OkToWrite
    <3> QED
      BY <2>3, <2>4, <3>1, <3>2
  <2>8. CASE q = x /\ ~(u = v /\ c = d)
    <3>1. SentIn(q, c, u, e)
      BY <1>2, <2>1, <2>2, <2>8
    <3>2. sendBuf'[q][u][c] = sendBuf[q][u][c]
      BY <1>4, <2>1, <2>8
    <3> QED
      BY <2>3, <3>1, <3>2 DEF q, c
  <2> QED
    BY <2>5, <2>6, <2>7, <2>8
<1> QED
  BY <1>1, <1>5, ShmKept

(* A buffer is read: less is on its way.                                   *)
LEMMA ReadShm ==
  ASSUME HaloInv, NEW x \in Rank, RequestInv(x), ExchangeInv(x), BuffersDue(x),
         NEW v \in Var, NEW t \in Side, UnpackShm(x, v, t),
         \A y \in Rank : y # x => SentKept(y) /\ GotKept(y),
         NEW r \in Rank, NEW s \in Side, ShmContent(r, s)
  PROVE  ShmContent(r, s)'
<1>1. /\ SentKept(x)
      /\ \A c \in Side, u \in Var, e \in Nat : GotIn(x, c, u, e) => GotIn(x, c, u, e)'
  BY ReadView
<1>2. script' = script /\ sendBuf' = sendBuf
  BY DEF UnpackShm, calc
<1>3. ASSUME HasNbr(r, s), NEW u \in Var, NEW e \in Nat
      PROVE  /\ SentIn(Nbr(r, s), Opp(s), u, e)' => SentIn(Nbr(r, s), Opp(s), u, e)
             /\ GotIn(r, s, u, e) => GotIn(r, s, u, e)'
  <2> DEFINE q == Nbr(r, s)
             c == Opp(s)
  <2>1. q \in Rank /\ c \in Side /\ HasNbr(q, c)
    BY <1>3, LinkEnds
  <2> HIDE DEF q, c
  <2>2. SentIn(q, c, u, e)' => SentIn(q, c, u, e)
    BY <1>1, <2>1 DEF SentKept
  <2>3. GotIn(r, s, u, e) => GotIn(r, s, u, e)'
    BY <1>1, <1>3 DEF GotKept
  <2> QED
    BY <2>2, <2>3 DEF q, c
<1> QED
  BY <1>2, <1>3, ShmSame

(* All buffers are kept, or are released when they have been read.         *)
LEMMA KeptShm ==
  ASSUME \A y \in Rank : SentKept(y) /\ GotKept(y),
         script' = script, NEW r \in Rank, NEW s \in Side, ShmContent(r, s),
         HasNbr(r, s) => sendBuf'[Nbr(r, s)] = sendBuf[Nbr(r, s)]
  PROVE  ShmContent(r, s)'
<1>1. ASSUME HasNbr(r, s), NEW u \in Var, NEW e \in Nat
      PROVE  /\ SentIn(Nbr(r, s), Opp(s), u, e)' => SentIn(Nbr(r, s), Opp(s), u, e)
             /\ GotIn(r, s, u, e) => GotIn(r, s, u, e)'
  <2> DEFINE q == Nbr(r, s)
             c == Opp(s)
  <2>1. q \in Rank /\ c \in Side /\ HasNbr(q, c)
    BY <1>1, LinkEnds
  <2> HIDE DEF q, c
  <2>2. SentIn(q, c, u, e)' => SentIn(q, c, u, e)
    BY <2>1 DEF SentKept
  <2>3. GotIn(r, s, u, e) => GotIn(r, s, u, e)'
    BY <1>1 DEF GotKept
  <2> QED
    BY <2>2, <2>3 DEF q, c
<1> QED
  BY <1>1, ShmSame

LEMMA BarrierShm ==
  ASSUME AgreementInv, UniformCalls, NEW x \in Rank, LeaveBarrier(x),
         \A y \in Rank : SentKept(y) /\ GotKept(y),
         NEW r \in Rank, NEW s \in Side, LinkInv(r, s), ShmContent(r, s)
  PROVE  ShmContent(r, s)'
<1>1. HaloInv /\ script' = script /\ RankStep(x)
  BY DEF AgreementInv, RequestsInv, LeaveBarrier, RankStep
<1>2. CASE HasNbr(r, s) /\ UsesShm(r, s) /\ Nbr(r, s) = x /\ CurCall(x).kind \in {"end", "prepare"}
  <2> DEFINE q == Nbr(r, s)
             c == Opp(s)
  <2>1. q \in Rank /\ c \in Side /\ HasNbr(q, c)
    BY <1>2, LinkEnds
  <2>2. pc[x] = "barrier" /\ GlobalBarrier(x, Barriers)
    BY DEF LeaveBarrier, Barriers
  <2>3. ASSUME NEW u \in Var, NEW e \in Nat
        PROVE  ~OnWay(r, s, u, e)'
    <3>1. ~full[q][u][c]
      BY <1>2, <2>2, ReleasedEmpty
    <3>2. ~OnWay(r, s, u, e)
      BY <1>2, <3>1 DEF LinkInv, ShmExact
    <3>3. GotIn(r, s, u, e)' <=> GotIn(r, s, u, e)
      BY <1>2 DEF GotKept
    <3>4. SentIn(q, c, u, e)' <=> SentIn(q, c, u, e)
      <4> HIDE DEF q, c
      <4> QED
        BY <2>1 DEF SentKept
    <3> QED
      BY <3>2, <3>3, <3>4 DEF OnWay
  <2> QED
    BY <1>1, <2>3, ShmKept
<1>3. CASE HasNbr(r, s) => sendBuf'[Nbr(r, s)] = sendBuf[Nbr(r, s)]
  BY <1>1, <1>3, KeptShm
<1>4. CASE HasNbr(r, s) /\ ~UsesShm(r, s)
  BY <1>1, <1>4, ShmKept
<1>5. CASE HasNbr(r, s) /\ Nbr(r, s) # x
  <2>1. Nbr(r, s) \in Rank
    BY <1>5, LinkEnds
  <2>2. sendBuf'[Nbr(r, s)] = sendBuf[Nbr(r, s)]
    BY <1>1, <1>5, <2>1, StepOthersData
  <2> QED
    BY <1>3, <2>2
<1>6. CASE CurCall(x).kind = "tune"
  <2>1. sendBuf' = sendBuf
    BY <1>6 DEF LeaveBarrier, bufs
  <2> QED
    BY <1>3, <2>1
<1>7. CurCall(x).kind \in {"tune", "end", "prepare"}
  BY DEF LeaveBarrier
<1> QED
  BY <1>2, <1>3, <1>4, <1>5, <1>6, <1>7

LEMMA StepShm ==
  ASSUME MatchInv, UniformCalls, NEW x \in Rank, RankStep(x), FullReach(Start(script), Full(x)),
         NEW r \in Rank, NEW s \in Side, ShmContent(r, s)
  PROVE  ShmContent(r, s)'
<1>1. /\ AgreementInv /\ HaloInv /\ RequestInv(x) /\ ExchangeInv(x)
      /\ BuffersDue(x) /\ LinkInv(r, s)
  BY DEF MatchInv, AgreementInv, RequestsInv
<1>2. \A y \in Rank : y # x => SentKept(y) /\ GotKept(y)
  BY <1>1, OthersView
<1>3. ASSUME SentKept(x), GotKept(x), sendBuf' = sendBuf, script' = script
      PROVE  ShmContent(r, s)'
  BY <1>2, <1>3, KeptShm
<1>4. CASE BeginRun(x) \/ BeginEnd(x) \/ EvalExterior(x) \/ EvalAll(x)
  <2>1. sendBuf' = sendBuf /\ script' = script
    BY <1>4 DEF BeginRun, BeginEnd, EvalExterior, EvalAll, bufs
  <2> QED
    BY <1>1, <1>3, <1>4, <2>1, BeginView
<1>5. CASE \/ SkipPack(x) \/ ExchangeDone(x) \/ Fill(x) \/ SetSlice(x) \/ SetElems(x)
           \/ SetPoint(x) \/ BeginPrepare(x) \/ LeaveAllocBarrier(x)
           \/ LeaveShmBarrier(x) \/ (\E k \in TuneSteps : Tune(x, k))
  <2>1. SentKept(x) /\ GotKept(x)
    BY <1>1, <1>5, QuietView
  <2>2. sendBuf' = sendBuf /\ script' = script
    BY <1>5 DEF SkipPack, ExchangeDone, Fill, SetSlice, SetElems, SetPoint, BeginPrepare,
       LeaveAllocBarrier, LeaveShmBarrier, Tune, bufs
  <2> QED
    BY <1>3, <2>1, <2>2
<1>6. CASE LeaveBarrier(x)
  <2>1. SentKept(x) /\ GotKept(x)
    BY <1>1, <1>6, QuietView
  <2> QED
    BY <1>1, <1>2, <1>6, <2>1, BarrierShm
<1>7. CASE EvalInterior(x)
  <2>1. sendBuf' = sendBuf /\ script' = script
    BY <1>7 DEF EvalInterior, bufs
  <2> QED
    BY <1>1, <1>3, <1>7, <2>1, InteriorView
<1>8. ASSUME NEW v \in Var, NEW t \in Side,
             \/ Irecv(x, v, t) \/ PackIsend(x, v, t) \/ PackShm(x, v, t)
             \/ UnpackMpi(x, v, t) \/ UnpackShm(x, v, t) \/ Final(x, v, t)
      PROVE  ShmContent(r, s)'
  <2>1. CASE Irecv(x, v, t)
    <3>1. sendBuf' = sendBuf /\ script' = script
      BY <2>1 DEF Irecv, bufs, calc
    <3> QED
      BY <1>1, <1>3, <2>1, <3>1, IrecvView
  <2>2. CASE UnpackMpi(x, v, t) \/ Final(x, v, t)
    <3>1. sendBuf' = sendBuf /\ script' = script
      BY <2>2 DEF UnpackMpi, Final, bufs, calc
    <3> QED
      BY <1>1, <1>3, <2>2, <3>1, OtherItemView
  <2>3. CASE PackIsend(x, v, t) \/ PackShm(x, v, t)
    BY <1>1, <1>2, <2>3, SendShm
  <2>4. CASE UnpackShm(x, v, t)
    BY <1>1, <1>2, <2>4, ReadShm
  <2> QED
    BY <1>8, <2>1, <2>2, <2>3, <2>4
<1> QED
  BY <1>4, <1>5, <1>6, <1>7, <1>8 DEF RankStep

-----------------------------------------------------------------------------
(* All together.                                                           *)

(* A rank that nothing happens to.                                         *)
LEMMA StillCoherent ==
  ASSUME NEW y \in Rank, SameExchange(y), data'[y] = data[y],
         FullReach(Start(script), Full(y)), FlagsKnown(y), HalosKept(y)
  PROVE  FullReach(Start(script), Full(y))' /\ FlagsKnown(y)' /\ HalosKept(y)'
<1>1. Prog(y)' = Prog(y) /\ Exterior(y)' = Exterior(y) /\ script' = script
  BY SameExchangeInv, ExteriorSame DEF SameExchange
<1>2. Full(y)' = Full(y)
  BY <1>1 DEF Full
<1>3. FullReach(Start(script), Full(y))'
  <2> DEFINE z == Full(y)
  <2>1. FullReach(Start(script), z) /\ z' = z
    BY <1>2
  <2>2. FullReach(Start(script), z)' <=> FullReach(Start(script'), z')
    BY DEF FullReach, Start, Move, Nxt
  <2> QED
    BY <1>1, <2>1, <2>2
<1>4. /\ pc'[y] = pc[y] /\ dirty'[y] = dirty[y] /\ todo'[y] = todo[y]
      /\ CurSwap(y)' = CurSwap(y) /\ (AfterRun(y)' <=> AfterRun(y))
  BY DEF SameExchange, CurSwap, AfterRun
<1>5. \A v \in Var, n \in Slot : InSwap(y, v, n)' <=> InSwap(y, v, n)
  BY <1>4 DEF InSwap
<1>6. FlagsKnown(y)'
  BY <1>4, <1>5 DEF FlagsKnown
<1>7. \A v \in Var, n \in Slot, s \in Side : HaloDue(y, v, n, s)' <=> HaloDue(y, v, n, s)
  BY <1>4, <1>5 DEF HaloDue
<1>8. HalosKept(y)'
  BY <1>7 DEF HalosKept
<1> QED
  BY <1>3, <1>6, <1>8

(* The rank that makes a step.                                             *)
LEMMA StepReach ==
  ASSUME HaloInv, NEW x \in Rank, RequestInv(x), ExchangeInv(x), UniformCalls, RankStep(x),
         FullReach(Start(script), Full(x)), script' = script
  PROVE  FullReach(Start(script), Full(x))'
<1> DEFINE z == Full(x)
<1>1. z' = z \/ z' = Move(z)
  BY StepMoved DEF Moved
<1>2. FullReach(Start(script), z')
  BY <1>1, FullReachStep
<1>3. FullReach(Start(script), z)' <=> FullReach(Start(script'), z')
  BY DEF FullReach
<1> QED
  BY <1>2, <1>3

LEMMA InitCoherence == Init => CoherenceInv
<1> SUFFICES ASSUME Init
             PROVE  CoherenceInv
  OBVIOUS
<1>1. MatchInv /\ HaloInv
  BY InitMatch, InitHaloInv
<1>2. ASSUME NEW r \in Rank
      PROVE  Full(r) = Start(script)
  <2>1. pc[r] = "call" /\ ~Tuned(r)
    BY DEF Init, Tuned
  <2>2. At(r) = "call" /\ FlagsAfter(r) = dirty[r]
    BY <2>1 DEF At, Ending, FlagsAfter, InExchange, Whole, Halfway
  <2>3. Prog(r) = State(script, 1, "call", 0, 1, [v \in Var |-> 0],
                        [v \in Var |-> [n \in Slot |-> TRUE]], <<>>)
    BY <2>1, <2>2 DEF Init, Prog
  <2>4. Exterior(r) = [v \in Var |-> [n \in Slot |-> [gen |-> 0, step |-> n]]]
    <3>1. \A v \in Var, n \in Slot : data[r][v][n]["ext"] = [gen |-> 0, step |-> n]
      <4>1. data[r] = [v \in Var |-> [n \in Slot |-> [z \in Zone |->
                         IF z \in Side THEN Garbage ELSE [gen |-> 0, step |-> n]]]]
        BY DEF Init
      <4>2. "ext" \in Zone /\ "ext" \notin Side
        BY DEF Zone, Side
      <4> QED
        BY <4>1, <4>2
    <3> QED
      BY <3>1 DEF Exterior
  <2> QED
    BY <2>3, <2>4 DEF Full, Start
<1>3. ASSUME NEW r \in Rank
      PROVE  RankCoherent(r)
  <2>1. FullReach(Start(script), Full(r))
    BY <1>2 DEF FullReach
  <2>2. /\ pc[r] = "call" /\ op[r] = 1 /\ pc[r] \notin InExchange
        /\ \A v \in Var, n \in Slot : dirty[r][v][n]
    BY DEF Init, InExchange, Whole, Halfway
  <2>3. GotContent(r)
    BY <2>2 DEF GotContent
  <2>4. FlagsKnown(r)
    BY <2>2 DEF FlagsKnown, AfterRun
  <2>5. HalosKept(r)
    BY <2>2 DEF HalosKept, HaloDue
  <2> QED
    BY <2>1, <2>3, <2>4, <2>5 DEF RankCoherent
<1>4. ASSUME NEW r \in Rank, NEW s \in Side
      PROVE  MpiContent(r, s) /\ ShmContent(r, s)
  <2>1. \A y \in Rank : trail[y] = <<>> /\ chan[y][s] = <<>>
    BY DEF Init
  <2>2. ASSUME HasNbr(r, s), NEW v \in Var, NEW e \in Nat
        PROVE  ~OnWay(r, s, v, e)
    <3>1. Nbr(r, s) \in Rank
      BY <2>2, LinkEnds
    <3>2. trail[Nbr(r, s)] = <<>>
      BY <2>1, <3>1
    <3> QED
      BY <3>2 DEF OnWay, SentIn
  <2> QED
    BY <2>1, <2>2 DEF MpiContent, ShmContent
<1> QED
  BY <1>1, <1>3, <1>4 DEF CoherenceInv

Parts(y) == RankCoherent(y) /\ \A s \in Side : MpiContent(y, s) /\ ShmContent(y, s)

LEMMA StepParts ==
  ASSUME CoherenceInv, UniformCalls, NEW x \in Rank, RankStep(x), NEW y \in Rank
  PROVE  Parts(y)'
<1>1. /\ MatchInv /\ AgreementInv /\ HaloInv
      /\ \A r \in Rank : RequestInv(r) /\ ExchangeInv(r) /\ NoStray(r) /\ BuffersDue(r)
      /\ \A r \in Rank, s \in Side : LinkInv(r, s)
  BY DEF CoherenceInv, MatchInv, AgreementInv, RequestsInv
<1>2. /\ Parts(x) /\ Parts(y) /\ FullReach(Start(script), Full(x)) /\ GotContent(x)
      /\ FlagsKnown(x) /\ HalosKept(x)
  BY DEF CoherenceInv, Parts, RankCoherent
<1>3. script' = script
  <2>1. \E z \in Rank : z # x
    BY HaloAssumption DEF Rank
  <2> QED
    BY <1>1, <2>1, StepOthersExchange DEF SameExchange
<1>4. \A s \in Side : ShmContent(y, s)'
  BY <1>1, <1>2, StepShm DEF Parts
<1>5. CASE y = x
  <2>1. FullReach(Start(script), Full(x))'
    BY <1>1, <1>2, <1>3, StepReach
  <2>2. GotContent(x)'
    BY <1>1, <1>2, StepGot
  <2>3. FlagsKnown(x)'
    BY <1>1, <1>2, StepFlags
  <2>4. HalosKept(x)'
    BY <1>1, <1>2, StepHalos DEF Parts
  <2>5. \A s \in Side : MpiContent(x, s)'
    BY <1>1, <1>2, StepMpi DEF Parts
  <2> QED
    BY <1>4, <1>5, <2>1, <2>2, <2>3, <2>4, <2>5 DEF Parts, RankCoherent
<1>6. CASE y # x
  <2>1. /\ SameExchange(y) /\ data'[y] = data[y] /\ sendBuf'[y] = sendBuf[y]
        /\ recvBuf'[y] = recvBuf[y] /\ posted'[y] = posted[y] /\ chan'[y] = chan[y]
    BY <1>1, <1>6, StepOthersExchange, StepOthersData, OthersView
  <2>2. FullReach(Start(script), Full(y))' /\ FlagsKnown(y)' /\ HalosKept(y)'
    BY <1>2, <2>1, StillCoherent DEF Parts, RankCoherent
  <2>3. GotContent(y)'
    BY <1>2, <2>1, GotSameRank DEF Parts, RankCoherent, SameExchange
  <2>4. \A s \in Side : MpiContent(y, s)'
    BY <1>2, <1>3, <2>1, MpiSame DEF Parts
  <2> QED
    BY <1>4, <2>2, <2>3, <2>4 DEF Parts, RankCoherent
<1> QED
  BY <1>5, <1>6

(* MPI, or a rank that looks after its requests while it computes.         *)
LEMMA NetStill ==
  ASSUME HaloInv, NEW y \in Rank, Parts(y), UNCHANGED <<calc, meta, swap, todo, data>>
  PROVE  /\ FullReach(Start(script), Full(y))' /\ FlagsKnown(y)' /\ HalosKept(y)'
         /\ sendBuf' = sendBuf => \A s \in Side : ShmContent(y, s)'
<1>1. SameExchange(y) /\ script' = script /\ pc' = pc /\ trail' = trail /\ todo' = todo
  BY DEF calc, meta, SameExchange
<1>2. FullReach(Start(script), Full(y))' /\ FlagsKnown(y)' /\ HalosKept(y)'
  BY <1>1, StillCoherent DEF Parts, RankCoherent
<1>3. ASSUME NEW s \in Side, HasNbr(y, s), UsesShm(y, s), NEW v \in Var, NEW e \in Nat
      PROVE  OnWay(y, s, v, e)' <=> OnWay(y, s, v, e)
  <2> DEFINE q == Nbr(y, s)
             c == Opp(s)
  <2>1. SentIn(q, c, v, e)' <=> SentIn(q, c, v, e)
    <3> HIDE DEF q, c
    <3> QED
      BY <1>1 DEF SentIn
  <2>2. Awaits(y, s, v)' <=> Awaits(y, s, v)
    BY <1>1, <1>3 DEF Awaits
  <2>3. GotIn(y, s, v, e)' <=> GotIn(y, s, v, e)
    BY <1>1, <2>2 DEF GotIn
  <2> QED
    BY <2>1, <2>3 DEF OnWay
<1>4. sendBuf' = sendBuf => \A s \in Side : ShmContent(y, s)'
  BY <1>1, <1>3, ShmKept DEF Parts
<1> QED
  BY <1>2, <1>4

LEMMA DeliverParts2 ==
  ASSUME CoherenceInv, UniformCalls, NEW r \in Rank, NEW s \in Side, Deliver(r, s),
         NEW y \in Rank
  PROVE  Parts(y)'
<1>1. /\ AgreementInv /\ HaloInv /\ LinkInv(r, s) /\ PostedNow(r) /\ Parts(y)
  BY DEF CoherenceInv, MatchInv, AgreementInv, RequestsInv, Parts
<1>2. UNCHANGED <<calc, meta, swap, todo, data>> /\ sendBuf' = sendBuf /\ HasNbr(r, s)
  BY DEF Deliver
<1>3. Nbr(r, s) \in Rank /\ Opp(s) \in Side
  BY <1>2, LinkEnds
<1>4. MpiContent(Nbr(r, s), Opp(s))
  BY <1>3 DEF CoherenceInv
<1>5. GotContent(y)'
  BY <1>1, <1>4, DeliverGot DEF Parts, RankCoherent
<1>6. \A d \in Side : MpiContent(y, d)'
  BY <1>1, DeliverMpi DEF Parts
<1> QED
  BY <1>1, <1>2, <1>5, <1>6, NetStill DEF Parts, RankCoherent

LEMMA EagerParts2 ==
  ASSUME CoherenceInv, UniformCalls, NEW r \in Rank, NEW s \in Side, Eager(r, s),
         NEW y \in Rank
  PROVE  Parts(y)'
<1>1. HaloInv /\ Parts(y)
  BY DEF CoherenceInv, MatchInv, AgreementInv, RequestsInv, Parts
<1>2. /\ UNCHANGED <<calc, meta, swap, todo, data>> /\ sendBuf' = sendBuf
      /\ recvBuf' = recvBuf /\ posted' = posted
  BY DEF Eager, bufs
<1>3. GotContent(y)'
  BY <1>1, <1>2, GotSameRank DEF Parts, RankCoherent, calc
<1>4. \A d \in Side : MpiContent(y, d)'
  BY <1>1, EagerMpi DEF Parts
<1> QED
  BY <1>1, <1>2, <1>3, <1>4, NetStill DEF Parts, RankCoherent

LEMMA NextCoherence == CoherenceInv /\ [Next]_vars => CoherenceInv'
<1> SUFFICES ASSUME CoherenceInv, [Next]_vars
             PROVE  CoherenceInv'
  OBVIOUS
<1>1. MatchInv /\ HaloInv
  BY DEF CoherenceInv, MatchInv, AgreementInv, RequestsInv
<1>2. MatchInv' /\ (UniformCalls' => UniformCalls)
  BY <1>1, NextMatch, ScriptKept
<1>3. SUFFICES ASSUME UniformCalls, NEW y \in Rank
               PROVE  Parts(y)'
  BY <1>2 DEF CoherenceInv, Parts
<1>4. ASSUME NEW x \in Rank, RankStep(x)
      PROVE  Parts(y)'
  BY <1>3, <1>4, StepParts
<1>5. ASSUME NEW x \in Rank, NEW s \in Side, Deliver(x, s)
      PROVE  Parts(y)'
  BY <1>3, <1>5, DeliverParts2
<1>6. ASSUME NEW x \in Rank, NEW s \in Side, Eager(x, s)
      PROVE  Parts(y)'
  BY <1>3, <1>6, EagerParts2
<1>7. ASSUME UNCHANGED <<calc, meta, swap, todo, data, bufs, net>>
      PROVE  Parts(y)'
  <2>1. /\ sendBuf' = sendBuf /\ recvBuf' = recvBuf /\ posted' = posted /\ chan' = chan
        /\ script' = script /\ pc' = pc /\ trail' = trail /\ todo' = todo
    BY <1>7 DEF bufs, net, calc
  <2>2. Parts(y)
    BY <1>3 DEF CoherenceInv, Parts
  <2>3. GotContent(y)'
    BY <2>1, <2>2, GotSameRank DEF Parts, RankCoherent
  <2>4. \A d \in Side : MpiContent(y, d)'
    BY <2>1, <2>2, MpiSame DEF Parts
  <2> QED
    BY <1>1, <1>7, <2>1, <2>2, <2>3, <2>4, NetStill DEF Parts, RankCoherent
<1>8. CASE \E x \in Rank : Poke(x)
  BY <1>7, <1>8 DEF Poke
<1>9. CASE UNCHANGED vars
  BY <1>7, <1>9 DEF vars
<1> QED
  BY <1>4, <1>5, <1>6, <1>8, <1>9 DEF Next

LEMMA CoherenceAlways == Spec => []CoherenceInv
BY InitCoherence, NextCoherence, PTL DEF Spec

-----------------------------------------------------------------------------
(* run_solution() leaves no halo out of date: when a rank comes back from  *)
(* it nothing that it exchanges is dirty and every halo, of every slot, is *)
(* what the owner's side of the border holds.                              *)
THEOREM RunLeavesCoherent == Spec => [](UniformCalls => CoherentAfterRun)
<1>1. CoherenceInv => (UniformCalls => CoherentAfterRun)
  <2> SUFFICES ASSUME CoherenceInv, UniformCalls, NEW r \in Rank, AfterRun(r),
                      NEW v \in Var, NEW n \in Slot, n < Alloc[v], HasMpiData(r, v)
               PROVE  /\ ~dirty[r][v][n]
                      /\ \A s \in Side : HasNbr(r, s) /\ RecvBuf(v, s) =>
                           data[r][v][n][s] = data[r][v][n]["ext"]
    BY DEF CoherentAfterRun, AfterRun
  <2>1. FlagsKnown(r) /\ HalosKept(r) /\ pc[r] \notin InExchange
    BY DEF CoherenceInv, RankCoherent, AfterRun, InExchange, Whole, Halfway
  <2>2. ~dirty[r][v][n]
    BY <2>1 DEF FlagsKnown
  <2> QED
    BY <2>1, <2>2 DEF HalosKept, HaloDue
<1> QED
  BY <1>1, CoherenceAlways, PTL

LEMMA WrapAllocated ==
  ASSUME NEW v \in Var, NEW t \in Int
  PROVE  Wrap(v, t) \in Slot /\ Wrap(v, t) < Alloc[v]
<1>1. Alloc[v] \in Nat \ {0} /\ Wrap(v, t) \in Slot
  BY HaloAssumption, WrapSlot
<1>2. CASE HasStep[v]
  <2>1. t % Alloc[v] < Alloc[v]
    BY <1>1
  <2> QED
    BY <1>1, <1>2, <2>1 DEF Wrap
<1>3. CASE ~HasStep[v]
  BY <1>1, <1>3 DEF Wrap
<1> QED
  BY <1>2, <1>3

(* What a pack reads is a step of a var.                                   *)
LEMMA ReadType ==
  ASSUME HaloInv, NEW r \in Rank, NEW rd \in PackReads(r)
  PROVE  rd.var \in Var /\ step[r] + rd.ofs \in Int
<1>1. PICK p \in Selected(r) : rd \in Packs[p].reads
  BY DEF PackReads
<1>2. pack[r] \in Pack /\ step[r] \in Int
  BY DEF HaloInv, TypeOK
<1>3. p \in Pack
  BY <1>2 DEF Selected
<1>4. Packs[p] \in PackType
  BY <1>3, HaloAssumption DEF Pack
<1>5. rd \in [var : Var, ofs : Int, halo : BOOLEAN]
  BY <1>1, <1>4 DEF PackType
<1> QED
  BY <1>2, <1>5

(* When a pack is evaluated every halo point it reads holds what its owner *)
(* has: whatever a rank has received since, in whatever order messages and *)
(* shared buffers came, and however far its neighbours are ahead.          *)
THEOREM PacksReadFreshHalos == Spec => [](UniformCalls => HalosFresh)
<1>1. CoherenceInv => (UniformCalls => HalosFresh)
  <2> SUFFICES ASSUME CoherenceInv, UniformCalls, NEW r \in Rank, pc[r] = "packs",
                      NEW rd \in PackReads(r), NEW s \in Side, HasNbr(r, s), RecvBuf(rd.var, s)
               PROVE  data[r][rd.var][Wrap(rd.var, step[r] + rd.ofs)][s] =
                        data[r][rd.var][Wrap(rd.var, step[r] + rd.ofs)]["ext"]
    BY DEF HalosFresh
  <2> DEFINE v == rd.var
             n == Wrap(v, step[r] + rd.ofs)
  <2>1. HaloInv /\ FlagsKnown(r) /\ HalosKept(r) /\ pc[r] \notin InExchange
    BY DEF CoherenceInv, MatchInv, AgreementInv, RequestsInv, RankCoherent, InExchange,
       Whole, Halfway
  <2>2. v \in Var /\ n \in Slot /\ n < Alloc[v]
    BY <2>1, ReadType, WrapAllocated
  <2>3. HasMpiData(r, v)
    BY DEF HasMpiData
  <2> HIDE DEF v, n
  <2>4. ~dirty[r][v][n]
    BY <2>1, <2>2, <2>3 DEF FlagsKnown
  <2>5. RecvBuf(v, s)
    BY DEF v
  <2>6. data[r][v][n][s] = data[r][v][n]["ext"]
    BY <2>1, <2>2, <2>4, <2>5 DEF HalosKept, HaloDue
  <2> QED
    BY <2>6 DEF v, n
<1> QED
  BY <1>1, CoherenceAlways, PTL
=============================================================================
