---------------------------- MODULE MCSolutions -----------------------------
(***************************************************************************)
(* The shipped stencils, at their default radius or a smaller one, and the *)
(* agreement of those that are written out twice.                          *)
(***************************************************************************)
EXTENDS Solutions, SimpleStencils, TestStencils, AwpStencils, ElasticStencils,
        Elastic2Stencils, TtiStencil, TLC

Simple ==
  {AvePtsStencil("3axis", AxisPoints(4)),
   AvePtsStencil("3axis_with_diags", DiagPoints(4)),
   AvePtsStencil("3plane", PlanePoints(3)), AvePtsStencil("cube", CubePoints(2)),
   Iso3dfdStencil(4), Iso3dfdSpongeStencil(4), Jacobi2D}
Tests ==
  {Test1d(2), Test2d(2), Test3d(2), Test4d(1), TestPartial3(2), TestMisc2d(2),
   Stream(2), TestReverse(2), TestDep1(2), TestDep2(2), TestDep3(2),
   TestScratch1(2), TestScratch3(2), TestBoundary1(2), TestBoundary2(2),
   TestBoundary3(2), TestStepCond1(2), TestScratchBoundary1(2), TestFunc1(1),
   TestEmpty2, TestEmpty0}
Awp == {AwpElasticStencil, AwpElasticABCStencil, AwpStencil, AwpABCStencil}
Elastic ==
  {SSGElasticStencil, FSGElasticStencil, FSGABCElasticStencil,
   SSGElastic2Stencil, FSGElastic2Stencil, FSG2ABCElasticStencil}
Tti == {TTIStencil(r) : r \in TtiRadii}

Shipped == Simple \cup Tests \cup Awp \cup Elastic \cup Tti

(* A pack updates A at the point it reads it, so one step of A is kept; a  *)
(* later pack, which has to wait for C, reads A of the step before.        *)
Reused ==
  LET a == Var(<<"A">>)
      b == Var(<<"B">>)
      c == Var(<<"C">>)
  IN {Solution("reused", 1, 1,
               <<Equation(a, ReadAt(a, 0, <<0>>)),
                 Equation(c, ReadAt(c, 0, <<0>>)),
                 Equation(b, ReadAt(c, 1, <<0>>) \cup Read(a, 0, <<0>>, {<<-1>>, <<1>>}))>>,
               Everywhere, Everywhere)}

MCScratchVars ==
  {Var(<<"B", "scratch">>), Var(<<"t1">>), Var(<<"t2">>), Var(<<"t3">>)}
MCVars ==
  MCScratchVars
  \cup UNION {{p.lhs[e] : e \in DOMAIN p.lhs} : p \in Shipped \cup Reused}
  \cup UNION {UNION {{r.var : r \in p.reads[e]} : e \in DOMAIN p.lhs} : p \in Shipped \cup Reused}

-----------------------------------------------------------------------------
(* The merged form of a stencil is the other one, equation by equation, in *)
(* the same order and reading the same points: the first has one var for   *)
(* each node and component, the second one var with an index for them.     *)
Named(v) == IF v[1] = <<"c">> /\ Len(v[2]) = 1 THEN v[2] ELSE v[1] \o v[2]
NamedReads(rs) == {[r EXCEPT !.var = Named(r.var)] : r \in rs}
Twins(p, q) ==
  /\ DOMAIN p.lhs = DOMAIN q.lhs
  /\ p.key = q.key
  /\ \A e \in DOMAIN p.lhs : /\ Named(p.lhs[e]) = Named(q.lhs[e])
                             /\ NamedReads(p.reads[e]) = NamedReads(q.reads[e])
TwinsAgree ==
  phase = "analyze" =>
    /\ prog = SSGElasticStencil => Twins(prog, SSGElastic2Stencil)
    /\ prog = FSGElasticStencil => Twins(prog, FSGElastic2Stencil)
    /\ prog = FSGABCElasticStencil => Twins(prog, FSG2ABCElasticStencil)
=============================================================================
