-------------------------- MODULE Elastic2Stencils --------------------------
(***************************************************************************)
(* The elastic stencils again with one var for all velocities, one for all *)
(* stresses and one for all coefficients, selected by a constant index:    *)
(* "ssg_merged", "fsg_merged" and "fsg_merged_abc".  Everything but the    *)
(* interpolation of rho is written anew.                                   *)
(***************************************************************************)
EXTENDS StencilForms

LOCAL E == INSTANCE ElasticStencils

LOCAL Here == Zero(3)
LOCAL V(n, c) == Slice("v", <<n, c>>)
LOCAL S(n, c) == Slice("s", <<n, c>>)
LOCAL Dirs == [x |-> 1, y |-> 2, z |-> 3]

(* The points of a difference, by its side.                                *)
ArmsO8 == [F |-> -3 .. 4, B |-> -4 .. 3]
ArmsO2 == [F |-> {0, 1}, B |-> {-1, 0}]
MergedO8(v, dt, d, side) == Read(v, dt, Here, Line(3, Dirs[d], ArmsO8[side]))
MergedO2(v, dt, d, side) == Read(v, dt, Here, Line(3, Dirs[d], ArmsO2[side]))

(* Velocity v at node n; "st" has the side and the stress of each dim.     *)
MergedVel(n, v, st) ==
  Equation(v, ReadAt(v, 0, Here) \cup Read(Var(<<"rho">>), 0, Here, E!InterpRho[n])
              \cup UNION {MergedO8(st[d][2], 0, d, st[d][1]) : d \in DOMAIN st})

-----------------------------------------------------------------------------
(* Standard staggered grid.                                                *)
MergedMu ==
  [br |-> Box(3, <<{0}, {0, 1}, {0, 1}>>), bl |-> Box(3, <<{0, 1}, {0}, {0, 1}>>),
   tr |-> Box(3, <<{0, 1}, {0, 1}, {0}>>)]

MergedStr(n, s, da, va, db, vb) ==
  Equation(s, ReadAt(s, 0, Here) \cup Read(Slice("c", <<"mu">>), 0, Here, MergedMu[n])
              \cup MergedO8(va, 1, da, "F") \cup MergedO8(vb, 1, db, "F"))

MergedStrTL ==
  LET terms == ReadAt(Slice("c", <<"lambdamu2">>), 0, Here)
               \cup ReadAt(Slice("c", <<"lambda">>), 0, Here)
               \cup MergedO8(V("tr", "u"), 1, "x", "F")
               \cup MergedO8(V("tl", "v"), 1, "y", "B")
               \cup MergedO8(V("bl", "w"), 1, "z", "B")
      eq(s) == Equation(s, ReadAt(s, 0, Here) \cup terms)
  IN <<eq(S("tl", "xx")), eq(S("tl", "yy")), eq(S("tl", "zz"))>>

SSGElastic2Stencil ==
  Solution("ssg_merged", 3, 1,
    <<MergedVel("bl", V("bl", "w"), [z |-> <<"F", S("tl", "zz")>>, x |-> <<"B", S("bl", "yz")>>,
                                     y |-> <<"B", S("br", "xz")>>]),
      MergedVel("tr", V("tr", "u"), [z |-> <<"B", S("br", "xz")>>, x |-> <<"B", S("tr", "xy")>>,
                                     y |-> <<"F", S("tl", "xx")>>]),
      MergedVel("tl", V("tl", "v"), [z |-> <<"B", S("bl", "yz")>>, x |-> <<"F", S("tl", "yy")>>,
                                     y |-> <<"B", S("tr", "xy")>>]),
      MergedStr("br", S("br", "xz"), "x", V("bl", "w"), "z", V("tr", "u")),
      MergedStr("tr", S("tr", "xy"), "x", V("tl", "v"), "y", V("tr", "u")),
      MergedStr("bl", S("bl", "yz"), "y", V("bl", "w"), "z", V("tl", "v"))>>
    \o MergedStrTL, Everywhere, Everywhere)

-----------------------------------------------------------------------------
(* Fully staggered grid: node, component and stresses along x, y and z of  *)
(* each velocity.                                                          *)
LOCAL TL(c) == S("tl", c)
LOCAL TR(c) == S("tr", c)
LOCAL BL(c) == S("bl", c)
LOCAL BR(c) == S("br", c)
MergedVelCalls ==
  << <<"tl", "w", TL("yz"), TR("xz"), BL("zz")>>, <<"tr", "w", TR("yz"), TL("xz"), BR("zz")>>,
     <<"bl", "w", BL("yz"), BR("xz"), TL("zz")>>, <<"br", "w", BR("yz"), BL("xz"), TR("zz")>>,
     <<"tl", "u", TL("xy"), TR("xx"), BL("xz")>>, <<"tr", "u", TR("xy"), TL("xx"), BR("xz")>>,
     <<"bl", "u", BL("xy"), BR("xx"), TL("xz")>>, <<"br", "u", BR("xy"), BL("xx"), TR("xz")>>,
     <<"tl", "v", TL("yy"), TR("xy"), BL("yz")>>, <<"tr", "v", TR("yy"), TL("xy"), BR("yz")>>,
     <<"bl", "v", BL("yy"), BR("xy"), TL("yz")>>, <<"br", "v", BR("yy"), BL("xy"), TR("yz")>> >>

(* The sides along z, x and y.                                             *)
MergedVelSides ==
  [tl |-> <<"B", "F", "B">>, tr |-> <<"B", "B", "F">>,
   bl |-> <<"F", "B", "B">>, br |-> <<"F", "F", "F">>]
\* Mutant: a side that was wrong along y when the code was merged.
MergedStrSidesMutant ==
  [br |-> <<"F", "B", "F">>, bl |-> <<"F", "F", "B">>,
   tr |-> <<"B", "F", "F">>, tl |-> <<"B", "B", "F">>]
MergedStrSides ==
  [br |-> <<"F", "B", "F">>, bl |-> <<"F", "F", "B">>,
   tr |-> <<"B", "F", "F">>, tl |-> <<"B", "B", "B">>]

(* The nodes whose velocities are used along z, x and y.                   *)
StrNodes ==
  [br |-> <<"tr", "br", "bl">>, bl |-> <<"tl", "bl", "br">>,
   tr |-> <<"br", "tr", "tl">>, tl |-> <<"bl", "tl", "tr">>]
LOCAL ZXY == <<"z", "x", "y">>

MergedCellCoeff ==
  [br |-> MergedMu["br"], bl |-> MergedMu["bl"], tr |-> MergedMu["tr"], tl |-> {Here}]

(* The stress updates use the coefficients of one row each.                *)
CoefRows ==
  [xx |-> {<<1, 1>>, <<1, 2>>, <<1, 3>>, <<1, 4>>, <<1, 5>>, <<1, 6>>},
   yy |-> {<<1, 2>>, <<2, 2>>, <<2, 3>>, <<2, 4>>, <<2, 5>>, <<2, 6>>},
   zz |-> {<<1, 3>>, <<2, 3>>, <<3, 3>>, <<3, 4>>, <<3, 5>>, <<3, 6>>},
   yz |-> {<<1, 4>>, <<2, 4>>, <<3, 4>>, <<4, 4>>, <<4, 5>>, <<4, 6>>},
   xz |-> {<<1, 5>>, <<2, 5>>, <<3, 5>>, <<4, 5>>, <<5, 5>>, <<5, 6>>},
   xy |-> {<<1, 6>>, <<2, 6>>, <<3, 6>>, <<4, 6>>, <<5, 6>>, <<6, 6>>}]
LOCAL Digit == <<"1", "2", "3", "4", "5", "6">>
MergedCoefs(n, c) ==
  UNION {Read(Slice("c", <<Digit[ij[1]], Digit[ij[2]]>>), 0, Here, MergedCellCoeff[n]) :
         ij \in CoefRows[c]}

LOCAL MergedVelTerms(Stencil(_, _, _, _), n) ==
  UNION {UNION {Stencil(V(StrNodes[n][i], c), 1, ZXY[i], MergedStrSides[n][i]) :
                c \in {"u", "v", "w"}} : i \in 1 .. 3}
LOCAL MergedStrs(n, reads) ==
  LET eq(c) == Equation(S(n, c), ReadAt(S(n, c), 0, Here) \cup MergedCoefs(n, c) \cup reads)
  IN <<eq("xx"), eq("yy"), eq("zz"), eq("yz"), eq("xz"), eq("xy")>>
LOCAL AllStrs(Reads(_)) ==
  MergedStrs("br", Reads("br")) \o MergedStrs("bl", Reads("bl"))
  \o MergedStrs("tr", Reads("tr")) \o MergedStrs("tl", Reads("tl"))
LOCAL When(cond, eqs) == [k \in DOMAIN eqs |-> IfDomain(eqs[k], cond)]

FSG2Vels ==
  [k \in DOMAIN MergedVelCalls |->
     LET c == MergedVelCalls[k]
         sd == MergedVelSides[c[1]]
     IN MergedVel(c[1], V(c[1], c[2]),
                  [z |-> <<sd[1], c[5]>>, x |-> <<sd[2], c[3]>>, y |-> <<sd[3], c[4]>>])]
FSG2Strs == AllStrs(LAMBDA n : MergedVelTerms(MergedO8, n))

(* The absorbing boundary.                                                 *)
SpongeIdx ==
  [tl |-> {<<"lx">>, <<"by">>, <<"tz">>}, tr |-> {<<"rx">>, <<"fy">>, <<"tz">>},
   bl |-> {<<"lx">>, <<"fy">>, <<"bz">>}, br |-> {<<"rx">>, <<"by">>, <<"bz">>}]
LOCAL Damp(n) ==
  UNION {ReadAt(Slice("sponge", i), 0, Here)
         \cup ReadAt(Slice("sponge", <<"sq">> \o i), 0, Here) : i \in SpongeIdx[n]}
MergedAbcVelocity ==
  [k \in DOMAIN MergedVelCalls |->
     LET c  == MergedVelCalls[k]
         n  == c[1]
         sd == MergedVelSides[n]
     IN Equation(V(n, c[2]),
                 ReadAt(V(n, c[2]), 0, Here) \cup Damp(n)
                 \cup Read(Var(<<"rho">>), 0, Here, E!InterpRho[n])
                 \cup MergedO2(c[3], 0, "x", sd[2]) \cup MergedO2(c[4], 0, "y", sd[3])
                 \cup MergedO2(c[5], 0, "z", sd[1]))]
MergedAbcStress == AllStrs(LAMBDA n : MergedVelTerms(MergedO2, n) \cup Damp(n))

FSGElastic2Stencil ==
  Solution("fsg_merged", 3, 1, FSG2Vels \o FSG2Strs, Everywhere, Everywhere)
FSG2ABCElasticStencil ==
  Solution("fsg_merged_abc", 3, 1,
           When("!at_bc", FSG2Vels) \o When("at_bc", MergedAbcVelocity)
           \o When("!at_bc", FSG2Strs) \o When("at_bc", MergedAbcStress),
           {{"always", "at_bc"}, {"always", "!at_bc"}}, Everywhere)
=============================================================================
