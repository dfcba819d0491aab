---------------------------- MODULE TestStencils ----------------------------
(***************************************************************************)
(* The stencils that test the features of the language.                    *)
(***************************************************************************)
EXTENDS StencilForms

LOCAL A == Var(<<"A">>)
LOCAL B == Var(<<"B">>)
LOCAL C == Var(<<"C">>)
LOCAL Partial(d1, r1, d2, r2) == [d \in {d1, d2} |-> IF d = d1 THEN r1 ELSE r2]

(* The offsets a stencil of one dim reads, and those of several dims: the  *)
(* ends and the middle of each range.                                      *)
Extent(radius, left, right) == -radius - left .. radius + right
Ends(radius, left, right) == {-radius - left, 0, radius + right}

Def1d(v, dt, radius, left, right) ==
  Read(v, dt, <<0>>, Box(1, <<Extent(radius, left, right)>>))

Def2d(v, dt, radius, xl, xr, yl, yr) ==
  Read(v, dt, <<0, 0>>, Box(2, <<Ends(radius, xl, xr), Ends(radius, yl, yr)>>))

Def3d(v, dt, radius, xl, xr, yl, yr, zl, zr) ==
  Read(v, dt, <<0, 0, 0>>,
       Box(3, <<Ends(radius, xl, xr), Ends(radius, yl, yr), Ends(radius, zl, zr)>>))

Def4d(v, dt, radius, wl, wr, xl, xr, yl, yr, zl, zr) ==
  Read(v, dt, <<0, 0, 0, 0>>, Box(4, <<Ends(radius, wl, wr), Ends(radius, xl, xr),
                                       Ends(radius, yl, yr), Ends(radius, zl, zr)>>))

DefNoT1d(v, x0, radius, left, right) == Read(v, 0, x0, Box(1, <<Extent(radius, left, right)>>))
DefNoT3d(v, radius, xl, xr, yl, yr, zl, zr) == Def3d(v, 0, radius, xl, xr, yl, yr, zl, zr)

LOCAL Plain(name, dims, eqs) == Solution(name, dims, 1, eqs, Everywhere, Everywhere)

-----------------------------------------------------------------------------
(* One equation in each number of dims.                                    *)
Test1d(r) == Plain("test_1d", 1, <<Equation(A, Def1d(A, 0, r, 0, 2))>>)
Test2d(r) == Plain("test_2d", 2, <<Equation(A, Def2d(A, 0, r, 0, 2, 4, 3))>>)
Test3d(r) == Plain("test_3d", 3, <<Equation(A, Def3d(A, 0, r, 0, 2, 4, 3, 2, 1))>>)
Test4d(r) == Plain("test_4d", 4, <<Equation(A, Def4d(A, 0, r, 1, 2, 0, 2, 2, 1, 1, 0))>>)

(* Vars without some of the dims.                                          *)
TestPartial3(r) ==
  LET at(name, ranges) == Read(Var(<<name>>), 0, Zero(3), Box(3, ranges))
  IN Plain("test_partial_3d", 3,
       <<Equation(A, Def3d(A, 0, r, 0, 2, 4, 3, 2, 1)
           \cup at("B", [d \in {1} |-> Extent(r, 0, 1)])
           \cup at("C", [d \in {2} |-> Extent(r, 1, 0)])
           \cup at("D", [d \in {3} |-> Extent(r, 0, 0)])
           \cup at("E", Partial(1, Ends(r, 0, 0), 2, Ends(r, 1, 0)))
           \cup at("F", Partial(2, Ends(r, 0, 1), 3, Ends(r, 0, 0)))
           \cup at("G", Partial(3, Ends(r, 1, 0), 2, Ends(r, 0, 1)))
           \cup at("H", <<Ends(r, 1, 0), Ends(r, 1, 0), Ends(r, 0, 1)>>)
           \cup ReadAt(Var(<<"I">>), 0, Zero(3)))>>)

(* Constant indices of either sign.                                        *)
TestMisc2d(r) ==
  LET a(index) == Slice("A", index)
      c == <<0, 0>>
  IN Plain("test_misc_2d", 2,
       <<Equation(a(<<1, 2, 3>>),
           ReadAt(a(<<0, -1, 2>>), 0, c)
           \cup Read(a(<<3, 0, 1>>), 0, c, Line(2, 1, 1 .. r))
           \cup Read(a(<<4, 2, 1>>), 0, c, Line(2, 1, -(r + 1) .. -1))
           \cup Read(a(<<-2, 2, 0>>), 0, c, Line(2, 2, 1 .. r + 2))
           \cup Read(a(<<0, 0, -1>>), 0, c, Line(2, 2, -(r + 3) .. -1)))>>)

(* Reads of several earlier steps.                                         *)
Stream(r) ==
  Plain("test_stream_3d", 3,
        <<Equation(A, UNION {ReadAt(A, -k, Zero(3)) : k \in 0 .. r - 1})>>)

(* Steps that go backwards.                                                *)
TestReverse(r) ==
  Solution("test_reverse_2d", 2, -1, <<Equation(A, Def2d(A, 0, r, 0, 2, 4, 3))>>,
           Everywhere, Everywhere)

(* The second equation reads what the first writes.                        *)
TestDep1(r) ==
  Plain("test_dep_1d", 1,
        <<Equation(A, ReadAt(A, 0, <<0>>) \cup Def1d(B, 0, r, 0, 1)),
          Equation(B, ReadAt(B, 0, <<0>>) \cup Def1d(A, 1, r, 3, 2))>>)
TestDep2(r) ==
  Plain("test_dep_2d", 2,
        <<Equation(A, ReadAt(A, 0, <<0, 0>>) \cup Def2d(B, 0, r, 0, 1, 2, 1)),
          Equation(B, ReadAt(B, 0, <<0, 0>>) \cup Def2d(A, 1, r, 3, 2, 0, 1))>>)
TestDep3(r) ==
  Plain("test_dep_3d", 3,
        <<Equation(A, ReadAt(A, 0, Zero(3)) \cup Def3d(B, 0, r, 0, 1, 2, 1, 1, 0)),
          Equation(B, ReadAt(B, 0, Zero(3)) \cup Def3d(A, 1, r, 1, 0, 0, 1, 2, 1))>>)

-----------------------------------------------------------------------------
(* Scratch vars: B in one dim, t1, t2 and t3 in three.                     *)
LOCAL ScratchB == Var(<<"B", "scratch">>)

TestScratch1(r) ==
  Plain("test_scratch_1d", 1,
        <<Equation(ScratchB, Def1d(A, 0, r, 1, 0)),
          Equation(A, DefNoT1d(ScratchB, <<-4>>, r, 2, 3)
                      \cup DefNoT1d(ScratchB, <<6>>, r, 0, 1))>>)

TestScratch3(r) ==
  LET t1 == Var(<<"t1">>)
      t2 == Var(<<"t2">>)
      t3 == Var(<<"t3">>)
  IN Plain("test_scratch_3d", 3,
       <<Equation(t1, Def3d(A, 0, r, 0, 1, 2, 1, 1, 0)),
         Equation(t2, Def3d(A, 0, r, 1, 0, 0, 2, 0, 1)),
         Equation(t3, ReadAt(t1, 0, <<-1, 1, 0>>) \cup ReadAt(t2, 0, <<0, 0, -1>>)),
         Equation(A, ReadAt(A, 0, Zero(3)) \cup DefNoT3d(t1, r, 2, 0, 0, 1, 1, 0)
                     \cup DefNoT3d(t3, r, 1, 0, 0, 1, 0, 2))>>)

(* Sub-domains and their complements.                                      *)
LOCAL InAndOut == {{"always", "sd0"}, {"always", "!sd0"}}
LOCAL SubDomains(name, dims, inside, outside, first) ==
  Solution(name, dims, 1,
           first \o <<IfDomain(Equation(A, inside), "sd0"), IfDomain(Equation(A, outside), "!sd0")>>,
           InAndOut, Everywhere)

TestBoundary1(r) ==
  LET u == Def1d(A, 0, r, 0, 1) IN SubDomains("test_boundary_1d", 1, u, u, <<>>)
TestBoundary2(r) ==
  SubDomains("test_boundary_2d", 2, Def2d(A, 0, r, 0, 2, 1, 0), Def2d(A, 0, r, 1, 0, 0, 2), <<>>)
TestBoundary3(r) ==
  SubDomains("test_boundary_3d", 3, Def3d(A, 0, r, 0, 2, 1, 0, 0, 1),
             Def3d(A, 0, r, 1, 0, 0, 2, 1, 0), <<>>)
TestScratchBoundary1(r) ==
  LET v == DefNoT1d(ScratchB, <<-6>>, r, 2, 3) \cup DefNoT1d(ScratchB, <<7>>, r, 0, 2)
  IN SubDomains("test_scratch_boundary_1d", 1, v, v,
                <<Equation(ScratchB, Def1d(A, 0, r, 1, 0))>>)

(* Which equation updates A depends on the step and on the values of B.    *)
TestStepCond1(r) ==
  Solution("test_step_cond_1d", 1, 1,
           <<IfStep(Equation(A, Def1d(A, 0, r, 0, 0)), "tc0"),
             IfStep(Equation(A, Def1d(A, 0, r, 1, 2)), "!tc0 && vc0"),
             IfStep(Equation(A, Def1d(A, 0, r, 2, 0)), "!tc0 && !vc0")>>,
           Everywhere,
           {{"always", "tc0"}, {"always", "!tc0 && vc0"}, {"always", "!tc0 && !vc0"}})

TestFunc1(r) ==
  Plain("test_func_1d", 1,
        <<Equation(A, ReadAt(A, 0, <<0>>)),
          Equation(B, Def1d(B, 0, r, 0, 1)),
          Equation(C, Def1d(A, 1, r, 1, 0) \cup ReadAt(C, 0, <<1>>))>>)

(* No equation at all.                                                     *)
TestEmpty2 == Plain("test_empty_2d", 2, <<>>)
TestEmpty0 == Plain("test_empty", 0, <<>>)
=============================================================================
