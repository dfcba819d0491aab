--------------------------- MODULE ElasticStencils ---------------------------
(***************************************************************************)
(* The elastic stencils on standard and fully staggered grids, with and    *)
(* without an absorbing boundary, with a var for each component: "ssg",    *)
(* "fsg" and "fsg_abc".  Grid nodes are at the top or bottom and left or   *)
(* right of a cell; a difference is taken forward or backward.             *)
(***************************************************************************)
EXTENDS StencilForms

LOCAL Here == Zero(3)
LOCAL V(n, c) == Var(<<"v", n, c>>)
LOCAL S(n, c) == Var(<<"s", n, c>>)
LOCAL Axis == [x |-> 1, y |-> 2, z |-> 3]
Sides(z, x, y) == [z |-> z, x |-> x, y |-> y]

(* The corners of the cell a coefficient is averaged over.                 *)
LOCAL Corners(dims) == Box(3, [d \in {Axis[a] : a \in dims} |-> {0, 1}])
InterpRho ==
  [tl |-> Corners({"x"}), tr |-> Corners({"y"}), bl |-> Corners({"z"}),
   br |-> Corners({"x", "y", "z"})]
InterpMu == [br |-> Corners({"y", "z"}), bl |-> Corners({"x", "z"}), tr |-> Corners({"x", "y"})]
CellCoeff ==
  [br |-> Corners({"y", "z"}), bl |-> Corners({"x", "z"}), tr |-> Corners({"x", "y"}),
   tl |-> {Here}]

(* The arms of the differences of eighth and of second order.              *)
StencilO8(v, dt, d, side) ==
  Read(v, dt, Here, Line(3, Axis[d], IF side = "B" THEN -4 .. 3 ELSE -3 .. 4))
StencilO2(v, dt, d, side) ==
  Read(v, dt, Here, Line(3, Axis[d], IF side = "B" THEN {-1, 0} ELSE {0, 1}))

LOCAL Inside(bc, eq) == IF bc THEN IfDomain(eq, "!at_bc") ELSE eq

(* The velocity v at node n, from stress s[d] along each dim d.            *)
DefineVel(bc, n, sides, v, s) ==
  Inside(bc, Equation(v, ReadAt(v, 0, Here) \cup Read(Var(<<"rho">>), 0, Here, InterpRho[n])
                         \cup UNION {StencilO8(s[d], 0, d, sides[d]) : d \in DOMAIN s}))

-----------------------------------------------------------------------------
(* Standard staggered grid.  A mixed stress at node n, from the velocities *)
(* va along dim da and vb along db, both forward.                          *)
SSGStr(n, da, db, s, va, vb) ==
  Equation(s, ReadAt(s, 0, Here) \cup Read(Var(<<"mu">>), 0, Here, InterpMu[n])
              \cup StencilO8(va, 1, da, "F") \cup StencilO8(vb, 1, db, "F"))

SSGStrTL(c) ==
  Equation(S("tl", c),
           ReadAt(S("tl", c), 0, Here)
           \cup ReadAt(Var(<<"lambdamu2">>), 0, Here) \cup ReadAt(Var(<<"lambda">>), 0, Here)
           \cup StencilO8(V("tr", "u"), 1, "x", "F") \cup StencilO8(V("tl", "v"), 1, "y", "B")
           \cup StencilO8(V("bl", "w"), 1, "z", "B"))

SSGElasticStencil ==
  Solution("ssg", 3, 1,
    <<DefineVel(FALSE, "bl", Sides("F", "B", "B"), V("bl", "w"),
                [x |-> S("bl", "yz"), y |-> S("br", "xz"), z |-> S("tl", "zz")]),
      DefineVel(FALSE, "tr", Sides("B", "B", "F"), V("tr", "u"),
                [x |-> S("tr", "xy"), y |-> S("tl", "xx"), z |-> S("br", "xz")]),
      DefineVel(FALSE, "tl", Sides("B", "F", "B"), V("tl", "v"),
                [x |-> S("tl", "yy"), y |-> S("tr", "xy"), z |-> S("bl", "yz")]),
      SSGStr("br", "x", "z", S("br", "xz"), V("bl", "w"), V("tr", "u")),
      SSGStr("tr", "x", "y", S("tr", "xy"), V("tl", "v"), V("tr", "u")),
      SSGStr("bl", "y", "z", S("bl", "yz"), V("bl", "w"), V("tl", "v")),
      SSGStrTL("xx"), SSGStrTL("yy"), SSGStrTL("zz")>>,
    Everywhere, Everywhere)

-----------------------------------------------------------------------------
(* Fully staggered grid.                                                   *)
VelSides ==
  [tl |-> Sides("B", "F", "B"), tr |-> Sides("B", "B", "F"),
   bl |-> Sides("F", "B", "B"), br |-> Sides("F", "F", "F")]

(* Node and component of a velocity, and of the stresses along x, y and z. *)
VelCalls ==
  << <<"tl", "w", S("tl", "yz"), S("tr", "xz"), S("bl", "zz")>>,
     <<"tr", "w", S("tr", "yz"), S("tl", "xz"), S("br", "zz")>>,
     <<"bl", "w", S("bl", "yz"), S("br", "xz"), S("tl", "zz")>>,
     <<"br", "w", S("br", "yz"), S("bl", "xz"), S("tr", "zz")>>,
     <<"tl", "u", S("tl", "xy"), S("tr", "xx"), S("bl", "xz")>>,
     <<"tr", "u", S("tr", "xy"), S("tl", "xx"), S("br", "xz")>>,
     <<"bl", "u", S("bl", "xy"), S("br", "xx"), S("tl", "xz")>>,
     <<"br", "u", S("br", "xy"), S("bl", "xx"), S("tr", "xz")>>,
     <<"tl", "v", S("tl", "yy"), S("tr", "xy"), S("bl", "yz")>>,
     <<"tr", "v", S("tr", "yy"), S("tl", "xy"), S("br", "yz")>>,
     <<"bl", "v", S("bl", "yy"), S("br", "xy"), S("tl", "yz")>>,
     <<"br", "v", S("br", "yy"), S("bl", "xy"), S("tr", "yz")>> >>

(* Node of the stresses, sides, and nodes of the velocities along x, y, z. *)
StrCalls ==
  << <<"br", Sides("F", "B", "F"), [x |-> "br", y |-> "bl", z |-> "tr"]>>,
     <<"bl", Sides("F", "F", "B"), [x |-> "bl", y |-> "br", z |-> "tl"]>>,
     <<"tr", Sides("B", "F", "F"), [x |-> "tr", y |-> "tl", z |-> "br"]>>,
     <<"tl", Sides("B", "B", "B"), [x |-> "tl", y |-> "tr", z |-> "bl"]>> >>

(* Stress c uses row c of the symmetric matrix of coefficients.            *)
LOCAL Parts == <<"xx", "yy", "zz", "yz", "xz", "xy">>
LOCAL Digit == <<"1", "2", "3", "4", "5", "6">>
LOCAL C(i, j) == IF i <= j THEN Var(<<"c", Digit[i], Digit[j]>>) ELSE Var(<<"c", Digit[j], Digit[i]>>)
StressCoefs(n, i) == UNION {Read(C(i, j), 0, Here, CellCoeff[n]) : j \in 1 .. 6}
VelTerms(Stencil(_, _, _, _), call) ==
  UNION {UNION {Stencil(V(call[3][d], c), 1, d, call[2][d]) : c \in {"u", "v", "w"}} :
         d \in {"x", "y", "z"}}

LOCAL EachStr(Reads(_, _)) ==
  [k \in 1 .. 24 |->
     LET call == StrCalls[(k - 1) \div 6 + 1]
         i    == ((k - 1) % 6) + 1
         s    == S(call[1], Parts[i])
     IN Equation(s, ReadAt(s, 0, Here) \cup StressCoefs(call[1], i) \cup Reads(call, i))]

FSGVels(bc) ==
  [k \in DOMAIN VelCalls |->
     LET c == VelCalls[k]
     IN DefineVel(bc, c[1], VelSides[c[1]], V(c[1], c[2]), [x |-> c[3], y |-> c[4], z |-> c[5]])]
FSGStrs(bc) ==
  LET eqs == EachStr(LAMBDA call, i : VelTerms(StencilO8, call))
  IN [k \in DOMAIN eqs |-> Inside(bc, eqs[k])]

(* The absorbing boundary: second-order differences, damped by sponges.    *)
Sponges ==
  [tl |-> {"lx", "by", "tz"}, tr |-> {"rx", "fy", "tz"},
   bl |-> {"lx", "fy", "bz"}, br |-> {"rx", "by", "bz"}]
SpongeReads(n) ==
  UNION {ReadAt(Var(<<"sponge", a>>), 0, Here) \cup ReadAt(Var(<<"sponge", "sq", a>>), 0, Here) :
         a \in Sponges[n]}
LOCAL AtBoundary(eqs) == [k \in DOMAIN eqs |-> IfDomain(eqs[k], "at_bc")]

AbcVelocity ==
  AtBoundary([k \in DOMAIN VelCalls |->
     LET c  == VelCalls[k]
         v  == V(c[1], c[2])
         sd == VelSides[c[1]]
     IN Equation(v, ReadAt(v, 0, Here) \cup SpongeReads(c[1])
                    \cup Read(Var(<<"rho">>), 0, Here, InterpRho[c[1]])
                    \cup StencilO2(c[3], 0, "x", sd["x"]) \cup StencilO2(c[4], 0, "y", sd["y"])
                    \cup StencilO2(c[5], 0, "z", sd["z"]))])
AbcStress ==
  AtBoundary(EachStr(LAMBDA call, i : VelTerms(StencilO2, call) \cup SpongeReads(call[1])))

FSGElasticStencil ==
  Solution("fsg", 3, 1, FSGVels(FALSE) \o FSGStrs(FALSE), Everywhere, Everywhere)
FSGABCElasticStencil ==
  Solution("fsg_abc", 3, 1, FSGVels(TRUE) \o AbcVelocity \o FSGStrs(TRUE) \o AbcStress,
           {{"always", "at_bc"}, {"always", "!at_bc"}}, Everywhere)
=============================================================================
