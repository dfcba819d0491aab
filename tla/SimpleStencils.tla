--------------------------- MODULE SimpleStencils ---------------------------
(***************************************************************************)
(* Stencils of one equation: averages over shapes of points, and the       *)
(* isotropic finite-difference stencils.                                   *)
(***************************************************************************)
EXTENDS StencilForms

LOCAL A == Var(<<"A">>)
LOCAL Here == Zero(3)
LOCAL Planes == {<<1, 2>>, <<1, 3>>, <<2, 3>>}
LOCAL InPlane(q, i, j) == Plus(Along(3, q[1], i), Along(3, q[2], j))
LOCAL PlusMinus(r) == {-r, r}

AxisPoints(radius) ==
  UNION {Line(3, d, PlusMinus(r)) : d \in 1 .. 3, r \in 1 .. radius}

DiagPoints(radius) ==
  AxisPoints(radius) \cup
  UNION {{InPlane(q, i, j) : i, j \in PlusMinus(r)} : q \in Planes, r \in 1 .. radius}

PlanePoints(radius) ==
  DiagPoints(radius) \cup
  UNION {UNION {{InPlane(q, i, j), InPlane(q, j, i)} :
                  i \in PlusMinus(rm[1]), j \in PlusMinus(rm[2])} :
         q \in Planes, rm \in {rm \in (1 .. radius) \X (1 .. radius) : rm[1] < rm[2]}}

CubePoints(radius) ==
  PlanePoints(radius) \cup
  Box(3, [d \in 1 .. 3 |-> UNION {PlusMinus(r) : r \in 1 .. radius}])

AvePtsStencil(name, points) ==
  Solution(name, 3, 1, <<Equation(A, Read(A, 0, Here, {Here} \cup points))>>,
           Everywhere, Everywhere)

-----------------------------------------------------------------------------
LOCAL P == Var(<<"p">>)

NextP(radius) ==
  Read(P, 0, Here, {Here} \cup UNION {Line(3, d, PlusMinus(r)) : d \in 1 .. 3, r \in 1 .. radius})
  \cup ReadAt(P, -1, Here) \cup ReadAt(Var(<<"v">>), 0, Here)

Iso3dfdStencil(radius) ==
  Solution("iso3dfd", 3, 1, <<Equation(P, NextP(radius))>>, Everywhere, Everywhere)

Iso3dfdSpongeStencil(radius) ==
  Solution("iso3dfd_sponge", 3, 1,
           <<Equation(P, NextP(radius) \cup UNION {ReadAt(Var(<<"cr", d>>), 0, Here) :
                                                     d \in {"x", "y", "z"}})>>,
           Everywhere, Everywhere)

Jacobi2D ==
  LET u == Var(<<"U">>)
      c == Zero(2)
  IN Solution("jacobi2d", 2, 1,
              <<Equation(u, Read(u, 0, c, {c} \cup Line(2, 1, {-1, 1}) \cup Line(2, 2, {-1, 1})))>>,
              Everywhere, Everywhere)
=============================================================================
