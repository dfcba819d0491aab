----------------------------- MODULE AwpStencils -----------------------------
(***************************************************************************)
(* The anelastic wave-propagation stencils: velocities at step t+1 from    *)
(* stresses at t, then stresses at t+1 from those velocities, with and     *)
(* without attenuation memory and with and without a free surface, which   *)
(* is two points before the last index in z.                               *)
(***************************************************************************)
EXTENDS StencilForms

LOCAL Vel(d) == Var(<<"vel", d>>)
LOCAL Stress(d) == Var(<<"stress", d>>)
LOCAL Mem(d) == Var(<<"stress_mem", d>>)
LOCAL Rho == Var(<<"rho">>)
LOCAL Mu == Var(<<"mu">>)
LOCAL Lambda == Var(<<"lambda">>)
LOCAL Axis == [x |-> 1, y |-> 2, z |-> 3]
LOCAL Here == Zero(3)

(* The arms of the centred differences of fourth order, in dim d.          *)
Back(d) == Line(3, Axis[d], -2 .. 1)
Fwd(d) == Line(3, Axis[d], -1 .. 2)

(* The sponge is read where the equation writes, whatever point the value  *)
(* is computed for.                                                        *)
AdjustForSponge == UNION {ReadAt(Var(<<"cr", d>>), 0, Here) : d \in {"x", "y", "z"}}
StepSizes == ReadAt(Var(<<"delta_t">>), 0, Here) \cup ReadAt(Var(<<"h">>), 0, Here)

VelArms ==
  [x |-> {<<"xx", Back("x")>>, <<"xy", Back("y")>>, <<"xz", Back("z")>>},
   y |-> {<<"xy", Fwd("x")>>,  <<"yy", Fwd("y")>>,  <<"yz", Back("z")>>},
   z |-> {<<"xz", Fwd("x")>>,  <<"yz", Back("y")>>, <<"zz", Fwd("z")>>}]
RhoCorners ==
  [x |-> Box(3, <<{0}, {-1, 0}, {-1, 0}>>),
   y |-> Box(3, <<{0, 1}, {0}, {-1, 0}>>),
   z |-> Box(3, <<{0, 1}, {-1, 0}, {0}>>)]

(* get_next_vel_x/y/z() at point p.                                        *)
NextVel(d, p) ==
  UNION {Read(Stress(a[1]), 0, p, a[2]) : a \in VelArms[d]}
  \cup Read(Rho, 0, p, RhoCorners[d]) \cup ReadAt(Vel(d), 0, p)
  \cup StepSizes \cup AdjustForSponge

Ave8(g, p) == Read(g, 0, p, Box(3, <<{0, 1}, {-1, 0}, {-1, 0}>>))

(* The differences of the velocities at t+1.                               *)
DVal ==
  [x |-> <<"x", Fwd("x")>>,  y |-> <<"y", Back("y")>>,  z |-> <<"z", Back("z")>>,
   xy |-> <<"x", Fwd("y")>>, yx |-> <<"y", Back("x")>>, xz |-> <<"x", Fwd("z")>>,
   zx |-> <<"z", Back("x")>>, yz |-> <<"y", Fwd("z")>>, zy |-> <<"z", Fwd("y")>>]
D(ds, p) == UNION {Read(Vel(DVal[d][1]), 1, p, DVal[d][2]) : d \in ds}

(* The stresses of one dim use all three differences, those of two dims    *)
(* the two mixed ones.                                                     *)
Diag == {"xx", "yy", "zz"}
MixedD == [xy |-> {"xy", "yx"}, xz |-> {"xz", "zx"}, yz |-> {"yz", "zy"}]
Mu2 == [xy |-> Line(3, 3, {-1, 0}), xz |-> Line(3, 2, {-1, 0}), yz |-> Line(3, 1, {0, 1})]

DiagTerms(p) == D({"x", "y", "z"}, p) \cup Ave8(Mu, p) \cup Ave8(Lambda, p)
MixedTerms(d, p) == D(MixedD[d], p) \cup Read(Mu, 0, p, Mu2[d])

ElasticStress(d, p) ==
  ReadAt(Stress(d), 0, p) \cup StepSizes \cup AdjustForSponge
  \cup IF d \in Diag THEN DiagTerms(p) ELSE MixedTerms(d, p)

(* get_next_stress_mem() and get_next_stress_mem2().                       *)
LOCAL CoefAt(name, p) == ReadAt(Var(name), 0, p)
NextStressMem(d, p) ==
  ReadAt(Mem(d), 0, p) \cup CoefAt(<<"tau2">>, p) \cup CoefAt(<<"weight">>, p)
  \cup CoefAt(<<"h">>, Here)
  \cup IF d \in Diag
       THEN DiagTerms(p) \cup CoefAt(<<"anelastic_as_diag">>, p) \cup CoefAt(<<"anelastic_ap">>, p)
       ELSE MixedTerms(d, p) \cup CoefAt(<<"anelastic", d>>, p)

(* get_next_stress_xx() ... get_next_stress_yz(), with the memory terms or *)
(* without.                                                                *)
NextStress(mem, d, p) ==
  ElasticStress(d, p) \cup IF mem THEN NextStressMem(d, p) ELSE {}

-----------------------------------------------------------------------------
LOCAL Dirs == <<"x", "y", "z">>
LOCAL Parts == <<"xx", "yy", "xy", "xz", "yz", "zz">>
LOCAL ForAll(parts, Eq(_)) == [i \in DOMAIN parts |-> Eq(parts[i])]
LOCAL When(cond, eqs) == [i \in DOMAIN eqs |-> IfDomain(eqs[i], cond)]

VelEq(d) == Equation(Vel(d), NextVel(d, Here))
StressEq(mem, d) == Equation(Stress(d), NextStress(mem, d, Here))
MemEq(d) == Equation(Mem(d), NextStressMem(d, Here))
LOCAL ZeroVel(d) == Equation(Vel(d), {})
LOCAL ZeroStress(d) == Equation(Stress(d), {})

DefineBase(mem) ==
  ForAll(Dirs, VelEq) \o ForAll(Parts, LAMBDA d : StressEq(mem, d))

(* Values above the surface use the velocities at the points around the    *)
(* one below, computed again from step t.                                  *)
Surf(x, y) == <<x, y, -1>>
Plus1Vel ==
  [x |-> NextVel("x", Surf(0, 0)) \cup NextVel("z", Surf(0, 0)) \cup NextVel("z", Surf(-1, 0)),
   y |-> NextVel("y", Surf(0, 0)) \cup NextVel("z", Surf(0, 1)) \cup NextVel("z", Surf(0, 0))]
DxAbove == NextVel("x", Surf(1, 0)) \cup NextVel("z", Surf(1, 0)) \cup NextVel("z", Surf(0, 0))
DyAbove == NextVel("y", Surf(0, -1)) \cup NextVel("z", Surf(0, 0)) \cup NextVel("z", Surf(0, -1))
Plus1VelZ ==
  Plus1Vel["x"] \cup Plus1Vel["y"] \cup DxAbove \cup DyAbove
  \cup ReadAt(Mu, 0, Surf(0, 0)) \cup ReadAt(Lambda, 0, Surf(0, 0))

DefineFreeSurfaceVel ==
  When("one", <<Equation(Vel("x"), Plus1Vel["x"]), Equation(Vel("y"), Plus1Vel["y"]),
                Equation(Vel("z"), Plus1VelZ)>>)
  \o When("two", ForAll(Dirs, ZeroVel))

(* The layer n points above the surface mirrors the stress below it.       *)
AboveSurface(mem, n) ==
  LET below(d) == <<0, 0, IF d = "zz" THEN 1 - 2 * n ELSE -2 * n>>
  IN ForAll(<<"zz", "xz", "yz">>, LAMBDA d : Equation(Stress(d), NextStress(mem, d, below(d))))
     \o ForAll(<<"xx", "yy", "xy">>, ZeroStress)

DefineFreeSurfaceStress(mem) ==
  When("one", AboveSurface(mem, 1)) \o When("two", AboveSurface(mem, 2))

DefineBaseABC(mem) ==
  When("at_or_below", ForAll(Dirs, VelEq))
  \o When("below", ForAll(Parts, LAMBDA d : StressEq(mem, d)))
  \o When("at", ForAll(Parts, LAMBDA d : IF d \in {"xz", "yz"} THEN ZeroStress(d)
                                         ELSE StressEq(mem, d)))
  \o DefineFreeSurfaceVel \o DefineFreeSurfaceStress(mem)

(* Where z is, relative to the surface.                                    *)
Layers == {{"always", "below", "at_or_below"}, {"always", "at", "at_or_below"},
           {"always", "one"}, {"always", "two"}}

AwpElasticStencil == Solution("awp_elastic", 3, 1, DefineBase(FALSE), Everywhere, Everywhere)
AwpElasticABCStencil ==
  Solution("awp_elastic_abc", 3, 1, DefineBaseABC(FALSE), Layers, Everywhere)
AwpStencil ==
  Solution("awp", 3, 1, DefineBase(TRUE) \o ForAll(Parts, MemEq), Everywhere, Everywhere)
AwpABCStencil ==
  LET mems(cond) == When(cond, ForAll(Parts, MemEq))
  IN Solution("awp_abc", 3, 1,
              DefineBaseABC(TRUE) \o mems("below") \o mems("at") \o mems("one") \o mems("two"),
              Layers, Everywhere)
=============================================================================
