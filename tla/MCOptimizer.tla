----------------------------- MODULE MCOptimizer -----------------------------
(* Families of small programs for Optimizer.  A byte has three bits. *)
EXTENDS Optimizer

A == Ident("a")
B == Ident("b")
G == Ident("g")
U8(v) == TypedInt(v, "u8")
U16(v) == TypedInt(v, "u16")
U24(v) == TypedInt(v, "u24")

Bytes == [g |-> Var("u8", <<3>>), arr |-> Var("u8", <<2, 5>>), reg |-> Var("u8", <<1>>)]
Kinds == [g |-> "plain", arr |-> "plain", reg |-> "volatile"]

Level(n) == [level |-> n, enable |-> {}, disable |-> {}]
LevelWithout(n, pass) == [level |-> n, enable |-> {}, disable |-> {pass}]

\* Level 2 runs the first stages of level 3.
Levels == {Level(1), Level(3)}
LevelsWithoutKnownBits == {LevelWithout(1, "KnownBits"), LevelWithout(3, "KnownBits")}

Program(functions, inputs) ==
  [fns |-> functions, globals |-> Bytes, consts |-> <<>>, objects |-> Kinds, entry |-> "main", inputs |-> inputs,
   fuel |-> 20, options |-> LevelsWithoutKnownBits]

Main(body) == Function("main", {}, <<Param("a", "u8"), Param("b", "u8")>>, "u8", body)

Sequence(slots) == {[i \in DOMAIN slots |-> c[i]] : c \in
                      {c \in [DOMAIN slots -> UNION {slots[i] : i \in DOMAIN slots}] :
                         \A i \in DOMAIN slots : c[i] \in slots[i]}}

---------------------------------------------------------------------------
\* Straight-line arithmetic: x and y are bound, something happens, one or both
\* are used.
X == Ident("x")
Y == Ident("y")

FirstLets ==
  {Let("x", "u8", v) : v \in {Binary(A, "+", B), Binary(A, "&", U8(1)), IntLit(6), A,
                              Binary(A, "*", IntLit(4)), Cast("u8", Binary(B, "|", U8(4)))}}
SecondLets ==
  {Let("y", "u8", v) : v \in {Binary(A, "+", B), Binary(X, "&", U8(1)), Binary(X, "/", IntLit(2)),
                              Binary(X, "-", X)}}
Middles ==
  {Out("P", Binary(X, "%", U8(4))), Assign(G, "set", X),
   Assign(Index("arr", Binary(B, "&", U8(1))), "+", Binary(A, "+", B)),
   If(Binary(X, "<", B), <<Out("P", X), Return(Y)>>, <<Let("z", "u8", Binary(X, "*", Y)), Out("P", Ident("z"))>>),
   ExprStmt(Call("touch", <<X>>))}
Results ==
  {Return(v) : v \in {Binary(X, "+", Y), Binary(Binary(Y, "&", U8(6)), "&", U8(3)),
                      Cast("u8", Binary(Binary(Cast("u24", X), "*", Cast("u24", Y)), "&", U24(7))),
                      Unary("~", Unary("~", Binary(X, "^", U8(7)))), Binary(X, "|", X)}}

Touch == Function("touch", {}, <<Param("v", "u8")>>, "",
                  <<Assign(G, "+", Ident("v")), Out("Q", Ident("v"))>>)

StraightLine ==
  {Program(<<Main(body), Touch>>, {<<a, b>> : a \in {0, 3, 6}, b \in {1, 7}})
     : body \in Sequence(<<FirstLets, SecondLets, Middles, Results>>)}

---------------------------------------------------------------------------
\* Reads, writes, port traffic and calls in between.
At(i) == Index("arr", i)
LowBit(x) == Binary(x, "&", U8(1))

Step == Function("step", {}, <<Param("v", "u8")>>, "u8",
                 <<Assign(G, "set", Binary(G, "+", Ident("v"))), Return(Binary(G, "^", Ident("v"))),
                   Out("Q", G)>>)

Reads == {Let("x", "u8", v) : v \in {InPort("P"), G, At(LowBit(B)), Call("step", <<A>>), Ident("reg")}}
Writes ==
  {Assign(G, "set", A), Assign(At(IntLit(0)), "set", B), Out("P", A), ExprStmt(Call("touch", <<B>>)),
   Let("u", "u8", Call("step", <<B>>)), Let("u", "u8", Binary(A, "*", B)),
   Assign(Ident("reg"), "+", A),
   If(Binary(Binary(X, "<", B), "&&", Binary(Call("step", <<X>>), "!=", IntLit(0))),
      <<Assign(G, "set", X)>>, <<Out("Q", X)>>)}
LaterReads ==
  {Let("y", "u8", v) : v \in {G, At(LowBit(B)), X, Binary(At(LowBit(A)), "|", At(LowBit(A))),
                              Binary(InPort("P"), "&", InPort("P")), Ident("reg"),
                              Binary(X, "*", X)}}
Ends ==
  {Return(v) : v \in {Binary(X, "+", Y), Binary(Binary(Y, "^", Y), "+", X),
                      Binary(Binary(X, "/", IntLit(4)), "|", Binary(Y, "/", U8(4))),
                      Binary(Call("step", <<Y>>), "*", X)}}

Effects ==
  {Program(<<Main(Append(body, Out("P", U8(0)))), Touch, Step>>,
           {<<a, b>> : a \in {0, 3}, b \in {1, 4}})
     : body \in Sequence(<<Reads, Writes, LaterReads, Ends>>)}

---------------------------------------------------------------------------
\* Masks, for the known-bits pass.
C == Ident("c")
D == Ident("d")

MaskLets ==
  {Let("x", "u8", v) : v \in {Binary(A, "&", U8(1)), Binary(A, "|", U8(6)), Unary("~", Binary(A, "|", U8(3))),
                              U8(5), Binary(A, "<<", U8(1))}}
MaskMiddles ==
  {Let("y", "u8", Binary(X, "^", U8(1))), Let("y", "u8", Binary(Binary(B, "&", X), "|", U8(2))),
   Let("y", "u8", Binary(X, ">>", U8(2))), Let("y", "u8", Binary(X, "*", U8(4)))}
Joins ==
  {If(Binary(A, "<", B), <<Let("z", "u8", LowBit(X)), Out("P", Ident("z"))>>,
      <<Return(Binary(X, "&", U8(6)))>>),
   While(Binary(G, "<", U8(5)), <<Let("z", "u8", Binary(X, "|", LowBit(D))),
                                  Let("w", "u8", Binary(D, "&", U8(6))), Assign(G, "+", IntLit(1)),
                                  Out("P", Binary(Ident("w"), "+", Ident("w"))),
                                  Assign(D, "set", Ident("z"))>>),
   Assign(C, "set", U8(7)), Assign(Deref(Ident("q")), "set", U8(2))}
MaskEnds ==
  {Return(v) : v \in {Binary(Y, "&", X), Binary(Binary(Y, "&", U8(4)), "|", U8(3)), LowBit(C),
                      Binary(LowBit(Ident("v")), "|", Y), Binary(Y, "&", U8(0)),
                      Binary(Binary(X, "|", Unary("~", X)), "&", Y)}}

Masks ==
  {Program(<<Main(<<Let("v", "u8", Binary(B, "&", U8(4))), Let("q", "ptr", AddressOf("v")),
                     Let("c", "u8", Binary(A, "&", U8(6))), Let("d", "u8", LowBit(B))>> \o body)>>,
           {<<a, b>> : a \in 0 .. 7, b \in {0, 5}})
     : body \in Sequence(<<MaskLets, MaskMiddles, Joins, MaskEnds>>)}

---------------------------------------------------------------------------
\* Loops.
I == Ident("i")
J == Ident("j")
Increment(n) == Assign(Ident(n), "+", U8(1))

InnerLoop ==
  While(Binary(J, "<", U8(2)), <<Let("k", "u8", Binary(A, "^", I)), Let("m", "u8", Binary(A, "*", U8(3))),
                                 Let("r", "u8", Binary(At(U8(1)), "+", Ident("t"))),
                                 Assign(G, "+", Binary(Ident("k"), "+", Ident("r"))), Increment("j")>>)

LoopLets ==
  {Let("t", "u8", v) : v \in {Binary(A, "+", B), Binary(A, "+", I), Binary(At(LowBit(B)), "+", A),
                              Binary(G, "+", A), At(I), Binary(Ident("reg"), "+", B)}}
LoopEffects ==
  {Assign(G, "+", Ident("t")), Assign(At(U8(0)), "set", Ident("t")), Out("P", Ident("t")),
   ExprStmt(Call("touch", <<Ident("t")>>)), Assign(Ident("a"), "set", Ident("t")), InnerLoop,
   If(Binary(Ident("t"), "<", B), <<Break>>, <<>>),
   If(Binary(Ident("t"), "<", B), <<Let("s", "u8", Binary(B, "*", B)), Assign(G, "set", Ident("s"))>>, <<>>)}
LateLets == {Let("n", "u8", v) : v \in {Binary(Ident("t"), "*", A), Binary(G, "^", B), Binary(A, "*", B)}}
Conditions == {Binary(I, "<", U8(0)), Binary(I, "<", U8(2)),
               Binary(Binary(I, "<", U8(2)), "&&", Binary(G, "<", U8(7)))}

LoopBody(t, e, n) == <<t, e, n, Assign(G, "^", Ident("n")), Increment("i")>>

Loops ==
  {Program(<<Main(<<Let("i", "u8", U8(0)), Let("j", "u8", U8(0)), While(c, LoopBody(t, e, n)),
                    Return(Binary(A, "+", G))>>), Touch>>,
           {<<a, b>> : a \in {1, 4}, b \in {0, 3}})
     : c \in Conditions, t \in LoopLets, e \in LoopEffects, n \in LateLets}

---------------------------------------------------------------------------
\* Inline functions: a value body, a void one, one with a side effect, one that
\* expands another, one with a loop and one with a branch; and those refused:
\* recursive, mutually so, with two returns, opted out.
P == Ident("p")
S == Ident("s")
PByte == <<Param("p", "u8")>>

Add == Function("add", {"inline"}, <<Param("p", "u8"), Param("b", "u8")>>, "u8",
                <<Let("s", "u8", Binary(P, "+", B)), Return(Binary(S, "^", P))>>)
Emit == Function("emit", {"inline"}, PByte, "",
                 <<Let("s", "u8", Binary(P, "*", U8(2))), Out("Q", S), ReturnVoid>>)
Take == Function("take", {"inline"}, PByte, "u8",
                 <<Assign(G, "+", P), Assign(P, "+", U8(1)), Return(Binary(G, "*", P))>>)
Twice == Function("twice", {"inline"}, PByte, "u8",
                  <<ExprStmt(Call("emit", <<P>>)), Return(Call("add", <<Call("add", <<P, U8(1)>>), P>>))>>)
Sum == Function("sum", {"inline"}, PByte, "u8",
                <<Let("s", "u8", U8(0)), Let("i", "u8", U8(0)),
                  While(Binary(I, "<", P), <<Assign(S, "+", Call("add", <<I, P>>)), Increment("i")>>),
                  If(Binary(S, "<", P), <<Let("z", "u8", S), Assign(S, "set", Binary(P, "-", Ident("z")))>>,
                     <<Out("Q", S)>>),
                  Return(S)>>)
Down == Function("down", {"inline"}, PByte, "u8",
                 <<Let("s", "u8", Cast("u8", Binary(P, ">", U8(0)))),
                   If(Binary(S, "==", U8(1)), <<Assign(G, "+", Call("down", <<Binary(P, "-", U8(1))>>))>>, <<>>),
                   Return(S)>>)
Ping == Function("ping", {"inline"}, PByte, "u8",
                 <<If(Binary(P, ">", U8(0)), <<Assign(G, "set", Call("pong", <<Binary(P, "-", U8(1))>>))>>, <<>>),
                   Return(P)>>)
Pong == Function("pong", {"inline"}, PByte, "u8",
                 <<If(Binary(P, ">", U8(0)), <<Assign(G, "set", Call("ping", <<Binary(P, "-", U8(1))>>))>>, <<>>),
                   Return(Binary(P, "^", U8(5)))>>)
Early == Function("early", {"inline"}, PByte, "u8",
                  <<If(Binary(P, "<", U8(3)), <<Return(U8(1))>>, <<>>), Return(P)>>)
Kept == Function("kept", {"inline", "no-comptime"}, PByte, "u8", <<Return(Binary(P, "+", P))>>)

InlineFunctions == <<Add, Emit, Take, Twice, Sum, Down, Ping, Pong, Early, Kept>>

On(name, x) == Call(name, <<x>>)

InlineLets ==
  {Let("x", "u8", v) : v \in {Call("add", <<A, B>>), Call("add", <<On("twice", A), Call("add", <<B, A>>)>>),
                              Binary(On("take", A), "+", On("take", B)), On("sum", A), On("down", A),
                              On("ping", A), Binary(On("early", A), "^", On("kept", B)),
                              Unary("~", On("take", On("take", B))),
                              Cast("u8", Binary(Cast("u16", On("take", A)), ">>", U16(1)))}}
InlineMiddles ==
  {If(Binary(Call("add", <<X, B>>), "<", A), <<ExprStmt(On("emit", X))>>,
      <<Let("s", "u8", On("twice", X)), Out("P", S)>>),
   While(Binary(On("take", U8(1)), "<", U8(6)), <<ExprStmt(On("emit", G)), Assign(G, "|", U8(1))>>),
   If(Binary(Binary(A, "<", U8(2)), "&&", Binary(On("take", X), "<", B)), <<Out("P", G)>>, <<>>),
   Assign(At(LowBit(On("take", A))), "set", Call("add", <<X, A>>)),
   ExprStmt(On("emit", On("take", B))), ExprStmt(On("take", X)),
   Let("s", "u8", Call("add", <<InPort("P"), InPort("P")>>))}
InlineEnds == {Return(v) : v \in {Call("add", <<X, On("early", X)>>), On("sum", On("take", X))}}

Inlining ==
  {Program(<<Main(body)>> \o InlineFunctions, {<<a, b>> : a \in {0, 2}, b \in {1, 3}})
     : body \in Sequence(<<InlineLets, InlineMiddles, InlineEnds>>)}

---------------------------------------------------------------------------
\* Tail recursion: the arguments depend on each other, the branches nest, the
\* function has no result, calls stay inside a loop or are no tail calls.
N == Ident("n")
M == Ident("m")
Less(x) == Binary(x, "-", U8(1))
NM == <<Param("n", "u8"), Param("m", "u8")>>
Self(x, y) == Call("self", <<x, y>>)
Zero(x) == Binary(x, "==", U8(0))

TailArguments == {<<Less(N), Binary(M, "+", N)>>, <<Binary(N, "&", M), N>>, <<Less(N), Less(N)>>,
                  <<Less(N), On("step", M)>>, <<On("step", U8(0)), N>>}

ValueBodies(x, y) ==
  {<<If(Zero(N), <<Return(M)>>, <<>>), Return(Self(x, y))>>,
   <<If(Zero(N), <<Return(M)>>, <<Let("t", "u8", Binary(M, "*", N)), Out("P", Ident("t")),
                                  Return(Self(x, y))>>), Return(U8(0))>>,
   <<If(Zero(N), <<Return(M)>>, <<If(Binary(N, "<", M), <<Return(Self(x, y))>>,
                                     <<Return(Self(Less(N), Less(M)))>>)>>)>>,
   <<If(Zero(N), <<Return(M)>>, <<>>), Return(Binary(U8(1), "+", Self(x, y)))>>,
   <<If(Zero(N), <<Return(M)>>, <<>>), Loop(<<Return(Self(x, y))>>)>>,
   <<Loop(<<If(Zero(N), <<Break>>, <<>>), Return(Self(x, y))>>), Return(M)>>,
   <<Loop(<<If(Binary(M, "<", U8(5)), <<Break>>, <<Assign(M, "set", U8(2)), Continue>>)>>),
     If(Zero(N), <<Return(M)>>, <<Return(Self(x, y))>>)>>}

VoidBodies(x, y) ==
  {<<Out("P", M), If(Zero(N), <<>>, <<ExprStmt(Self(x, y))>>)>>,
   <<If(Zero(N), <<Out("P", M)>>, <<Assign(G, "+", M), If(Binary(N, "<", U8(3)), <<ExprStmt(Self(x, y))>>,
                                                          <<ExprStmt(Self(Less(N), M))>>)>>)>>,
   <<If(Zero(N), <<ReturnVoid>>, <<>>), ExprStmt(Self(x, y)), Out("P", M)>>,
   <<If(Zero(N), <<ReturnVoid>>, <<>>), ExprStmt(Self(x, y))>>}

\* The function as the attributes and the further parameters make it: with four
\* parameters, or a third wider than the second, it is refused.
SelfFunctions ==
  {Function("self", attrs, NM, "u8", body)
     : attrs \in {{}, {"interrupt"}}, body \in UNION {ValueBodies(p[1], p[2]) : p \in TailArguments}}
  \cup {Function("self", {}, NM, "", body)
          : body \in UNION {VoidBodies(p[1], p[2]) : p \in TailArguments}}

CallSelf(f) ==
  IF f.ret = "" THEN <<ExprStmt(Self(A, B)), Return(G)>> ELSE <<Return(Self(A, B))>>

Tails ==
  {Program(<<Main(CallSelf(f)), f, Step>>, {<<a, b>> : a \in {0, 1, 4}, b \in {1, 6}})
     : f \in SelfFunctions}

TailOptions == {Level(1), Level(2), LevelWithout(2, "TailRecursion"),
                [level |-> 0, enable |-> {"TailRecursion"}, disable |-> {}]}

\* Each argument is made from its own parameter, so that the second sweep of
\* level 3 has nothing to mix up.
OwnArguments == <<Less(N), Binary(M, "*", U8(3))>>

OwnTails ==
  {Program(<<Main(CallSelf(f)), f, Step>>, {<<a, b>> : a \in {0, 3}, b \in {1, 6}})
     : f \in {Function("self", {}, NM, "u8", body) : body \in ValueBodies(OwnArguments[1], OwnArguments[2])}
             \cup {Function("self", {}, NM, "", body) : body \in VoidBodies(OwnArguments[1], OwnArguments[2])}}

---------------------------------------------------------------------------
\* Compile-time evaluation: constants made from constants, one opted out, an
\* array filled up with zeros and one over the limit; functions that are
\* evaluated, with branches and calls, and those refused: recursive, in each
\* other, too deep, too long, with an assignment, a loop, a port, opted out.
Constant(t, len, v, disabled) == [t |-> t, len |-> len, value |-> v, disabled |-> disabled]
KC == Ident("K")
LC == Ident("L")
RC == Ident("R")
TC(i) == Index("T", i)

Constants ==
  [K |-> Constant("u8", 0, U8(5), FALSE), L |-> Constant("u8", 0, Binary(KC, "*", U8(3)), FALSE),
   R |-> Constant("u8", 0, Binary(U8(1), "+", U8(2)), TRUE),
   T |-> Constant("u8", 3, ArrayOf(<<U8(4), LC>>), FALSE),
   H |-> Constant("u8", 5, ArrayOf(<<U8(2)>>), FALSE)]

ConstantCells ==
  [K |-> Var("u8", <<5>>), L |-> Var("u8", <<7>>), R |-> Var("u8", <<3>>), T |-> Var("u8", <<4, 7, 0>>),
   H |-> Var("u8", <<2, 0, 0, 0, 0>>)]

Joined(f, h) == [n \in DOMAIN f \cup DOMAIN h |-> IF n \in DOMAIN f THEN f[n] ELSE h[n]]

PP == Ident("p")
QQ == Ident("q")
Pure(name, attrs, body) ==
  Function(name, attrs, <<Param("p", "u8"), Param("q", "u8")>>, "u8", body)
Comptime(name, body) == Pure(name, {"comptime"}, body)
On2(name, x, y) == Call(name, <<x, y>>)

ComptimeFunctions ==
  <<Comptime("sum", <<Let("s", "u8", Binary(PP, "+", QQ)), Return(Ident("s"))>>),
    Comptime("pick", <<If(Binary(PP, "<", KC), <<Let("m", "u8", Binary(QQ, "-", PP)), Return(Ident("m"))>>,
                          <<ExprStmt(PP)>>), Return(On2("sum", QQ, TC(U8(1))))>>),
    Comptime("deep", <<Return(Binary(On2("pick", PP, PP), "|", U8(1)))>>),
    Comptime("short", <<If(Binary(Binary(PP, "==", QQ), "&&", Binary(Call("step", <<PP>>), "<", QQ)),
                           <<Return(U8(1))>>, <<>>), Return(Binary(PP, "/", QQ))>>),
    Comptime("signed", <<Return(Cast("u8", Binary(Binary(Cast("i8", PP), ">>", U8(1)), "/",
                                                  Cast("i8", QQ))))>>),
    Comptime("wide", <<Return(Cast("u8", Binary(Binary(Cast("u16", PP), "*", Cast("u16", QQ)), ">>",
                                                U16(2))))>>),
    Comptime("again", <<If(Binary(PP, "==", U8(0)), <<Return(QQ)>>, <<>>),
                        Return(On2("again", Binary(PP, "-", U8(1)), QQ))>>),
    Comptime("sets", <<Assign(G, "+", PP), Return(G)>>),
    Comptime("ports", <<Out("P", PP), Return(Binary(InPort("P"), "+", QQ))>>),
    Pure("both", {"comptime", "inline"}, <<Let("s", "u8", Binary(PP, "*", QQ)), Return(Binary(Ident("s"), "^", PP))>>),
    Pure("never", {"comptime", "inline", "no-comptime"}, <<Return(Binary(PP, "^", QQ))>>)>>

ComptimeArguments == {<<U8(3), U8(2)>>, <<KC, LC>>, <<RC, U8(6)>>, <<A, U8(2)>>, <<TC(U8(2)), TC(B)>>}

ComptimeLets ==
  {Let("x", "u8", On2(ComptimeFunctions[i].name, args[1], args[2])) :
     i \in DOMAIN ComptimeFunctions, args \in ComptimeArguments}
ComptimeMiddles ==
  {Assign(At(Binary(KC, "&", U8(1))), "+", Binary(TC(LowBit(LC)), "+", X)),
   If(Binary(Binary(KC, "<", LC), "&&", Binary(X, "<", RC)), <<Out("P", Index("H", U8(0)))>>,
      <<Let("z", "u8", Unary("~", KC)), Out("P", Binary(Ident("z"), "^", TC(LowBit(A))))>>),
   While(Binary(G, "<", KC), <<Let("z", "u8", Binary(On2("sum", KC, A), "+", TC(U8(1)))), Out("P", Ident("z")),
                               Assign(G, "+", U8(1))>>)}
ComptimeEnds ==
  {Return(v) : v \in {Binary(X, "+", LC), Binary(On2("both", X, On2("sum", KC, RC)), "-", Index("H", U8(0))),
                      Cast("u8", Binary(Binary(Cast("u16", LC), "*", U16(3)), "+", Cast("u16", X)))}}

Comptimes ==
  {[Program(<<Main(body), Step>> \o ComptimeFunctions, {<<a, b>> : a \in {0, 3}, b \in {0, 1}})
      EXCEPT !.consts = Constants, !.globals = Joined(Bytes, ConstantCells),
             !.objects = Joined(Kinds, [n \in DOMAIN Constants |-> "plain"])]
     : body \in Sequence(<<ComptimeLets, ComptimeMiddles, ComptimeEnds>>)}

---------------------------------------------------------------------------
\* Masks are optimised with the known-bits pass, all else without it: it takes
\* bits for known that are not wherever there is arithmetic.  Calls that tail
\* recursion leaves in place nest less deep than the rest.
Families ==
  StraightLine \cup Effects \cup Loops \cup Inlining \cup OwnTails \cup Comptimes
  \cup {[p EXCEPT !.options = Levels] : p \in Masks}
  \cup {[p EXCEPT !.options = TailOptions, !.fuel = 14] : p \in Tails}

---------------------------------------------------------------------------
\* Programs the optimiser gets wrong, one for each of the README's findings.
Two(a, b) == {<<a, b>>}
One(level, body, functions, inputs) ==
  {[Program(<<Main(body)>> \o functions, inputs) EXCEPT !.options = {Level(level)}]}

\* A swap through a temporary.
Swap == One(1, <<Let("t", "u8", A), Assign(A, "set", B), Assign(B, "set", Ident("t")),
              Return(Binary(A, "-", B))>>, <<>>, Two(1, 4))

\* A tail call whose second argument reads the first parameter.
Dependent == One(3, <<Return(Self(A, B))>>,
                 <<Function("self", {}, NM, "u8",
                            <<If(Zero(N), <<Return(M)>>, <<>>), Return(Self(Less(N), Binary(M, "+", N)))>>)>>,
                 Two(2, 1))

\* A variable with known bits that a branch assigns.
BranchAssigns == One(1, <<Let("x", "u8", Binary(A, "&", U8(1))),
                       If(Binary(A, "<", B), <<Assign(X, "set", U8(6))>>, <<>>),
                       Return(Binary(X, "&", U8(4)))>>, <<>>, Two(0, 1))

\* A global read before an argument whose call changes it.
ReadThenCall == One(2, <<Return(Binary(G, "-", On("take", A)))>>, <<Take>>, Two(2, 0))

\* A loop whose own condition changes the global the body reads.
ConditionWrites == One(2, <<While(Binary(On("step", U8(1)), "<", U8(7)),
                               <<Let("t", "u8", Binary(G, "+", A)), Assign(A, "set", B),
                                 Let("u", "u8", Binary(G, "+", B)), Assign(At(U8(0)), "set", Ident("u"))>>),
                         Return(A)>>, <<Step>>, Two(0, 0))

\* A call between two equal expressions that changes what they read.
Poke == Function("poke", {}, <<Param("p", "ptr")>>, "u8",
                 <<Assign(Deref(P), "set", U8(5)), Return(U8(0))>>)

CallBetween == One(1, <<Let("v", "u8", A), Let("x", "u8", Binary(Ident("v"), "+", B)),
                     Let("u", "u8", Call("poke", <<AddressOf("v")>>)),
                     Let("y", "u8", Binary(Ident("v"), "+", B)),
                     Return(Binary(Binary(Binary(X, "+", X), "-", Y), "+", Ident("u")))>>,
                   <<Poke>>, Two(1, 1))

\* A loop that changes a variable through a pointer.
PointerWrite == One(2, <<Let("v", "u8", A), Let("q", "ptr", AddressOf("v")), Let("i", "u8", U8(0)),
                      While(Binary(I, "<", U8(2)),
                            <<Let("t", "u8", Binary(Ident("v"), "+", B)), Assign(G, "+", Ident("t")),
                              Assign(Deref(Ident("q")), "+", U8(1)), Increment("i")>>),
                      Return(G)>>, <<>>, Two(1, 0))

\* A call divided by zero.
DividedCall == One(1, <<Return(Binary(On("step", A), "/", IntLit(0)))>>, <<Step>>, Two(1, 0))

\* A wider value shifted down and cast to a byte.
HighByte ==
  {[Program(<<Function("main", {}, <<Param("a", "u16")>>, "u8",
                       <<Return(Cast("u8", Binary(A, ">>", IntLit(3))))>>)>>, {<<8>>})
     EXCEPT !.options = {Level(1)}]}

\* A mask tested by a cast to bool.
MaskTested == One(1, <<Return(Binary(Cast("u8", Cast("bool", Binary(A, "&", U8(2)))), "&", U8(1)))>>,
                  <<>>, Two(2, 0))

\* A volatile object read twice in one expression.
ReadTwice == One(2, <<Return(Binary(Ident("reg"), "&", Ident("reg")))>>, <<>>, Two(0, 0))

\* A comptime call whose bare arguments add up to more than a byte.
Average == Function("average", {"comptime"}, <<Param("p", "u8"), Param("q", "u8")>>, "u8",
                    <<Return(Binary(Binary(P, "+", Ident("q")), "/", IntLit(2)))>>)

BareArguments == One(1, <<Return(Call("average", <<IntLit(6), IntLit(4)>>))>>, <<Average>>, Two(0, 0))

===============================================================================
