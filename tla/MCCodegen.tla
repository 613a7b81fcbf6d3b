------------------------------- MODULE MCCodegen -------------------------------
(***************************************************************************)
(* The compiler and the machine together, for TLC: small source programs   *)
(* are parsed (Grammar), compiled (Codegen) and run (VM), and what they    *)
(* leave in their variables is compared with what they mean (Semantics).   *)
(***************************************************************************)
EXTENDS VM, Codegen, Semantics, FiniteSets

CONSTANTS Sources,   \* source programs by name
          Compiled,  \* what the generator makes of them
          Meanings   \* what they mean: the values of their variables

MCInts == {7}
MCTexts == {<<"1", "2">>}

-----------------------------------------------------------------------------
(* Source programs.                                                        *)

I(n) == Leaf("const", IntVal(n))
R == Leaf("const", Number("REAL"))
B(b) == Leaf("const", BoolVal(b))
T(s) == Leaf("str", s)
V(x) == Leaf("var", x)
Op(kind, a, b) == Node(kind, "", <<a, b>>)
Not(a) == Node("not", "", <<a>>)
Block(stmts) == Node("block", "", stmts)
Let(x, a) == Node("assign", <<x>>, <<a>>)
Array(elems) == Node("list", "", elems)
At(a, indices) == Node("access", FALSE, <<a>> \o indices)
Part(a, i, j) == Node("access", TRUE, <<a, i, j>>)
SetAt(x, indices, a) == Node("arrassign", [name |-> x, ranged |-> FALSE], <<a>> \o indices)
SetPart(x, i, j, a) == Node("arrassign", [name |-> x, ranged |-> TRUE], <<a, i, j>>)
CallOf(f, args) == Node("call", f, args)
DeclAs(type, dims, names, init) ==
  Node("decl", [type |-> type, dims |-> dims, names |-> names, intent |-> ""], init)
Ints(names) == DeclAs("INT", <<>>, names, <<>>)
If(c, a, b) == Node("if", "", <<c, Block(a), Block(b)>>)
When(c, a) == Node("if", "", <<c, Block(a)>>)
While(c, stmts) == Node("while", "", <<c, Block(stmts)>>)
DoLoop(x, a, b, stmts) == Node("do", x, <<a, b, Block(stmts)>>)
Break(n) == Leaf("break", n)
NextLoop(n) == Leaf("next", n)
Function(f, args, rets, stmts) ==
  Node("func", [name |-> f, args |-> args, rets |-> rets, proc |-> rets = <<>>],
       <<Block(stmts)>>)

-----------------------------------------------------------------------------
(* Expressions.                                                            *)

Sample == [INT |-> I(3), REAL |-> R, STR |-> T(<<"a", "b">>), BOOL |-> B(TRUE),
           CPLX |-> Leaf("const", Number("CPLX")), QUAT |-> Leaf("const", Number("QUAT")),
           INTARR |-> Array(<<I(1), I(2)>>), REALARR |-> Array(<<R, R>>)]
Var(type, x) ==
  DeclAs(type, IF type \in ArrayTypes THEN <<2>> ELSE <<>>, <<x>>, <<Sample[type]>>)

\* Two operators, nested to the left or to the right.
TreeOps == {"plus", "minus", "mult", "div", "mod", "pow"}
Trees == [p \in {"left", "right"} \X TreeOps \X TreeOps |->
  <<Ints(<<"x">>),
    Let("x", IF p[1] = "left" THEN Op(p[3], Op(p[2], I(3), I(4)), I(2))
                              ELSE Op(p[2], I(3), Op(p[3], I(4), I(2))))>>]

\* Operands of different types and a result of the right type.
Pairs ==
  ({"plus"} \X {"INT", "REAL", "STR"} \X {"INT", "REAL", "STR"})
  \cup ({"plus"} \X {"STR"} \X {"INTARR", "REALARR"})
  \cup ({"minus", "mult", "div"} \X {"INT", "REAL"} \X {"INT", "REAL"})
  \cup ({"plus", "minus", "mult", "div"} \X {"CPLX"} \X {"INT", "REAL", "CPLX"})
  \cup ({"plus", "minus", "mult", "div"} \X {"INT", "REAL"} \X {"CPLX"})
  \cup ({"plus", "minus", "mult", "div"} \X {"QUAT"} \X {"QUAT"})
  \cup ({"mult"} \X {"INT", "REAL"} \X {"INTARR", "REALARR"})
  \cup ({"mult"} \X {"INTARR", "REALARR"} \X {"INT", "REAL"})
  \cup {<<k, t, t>> : k \in {"plus", "minus", "mult"}, t \in {"INTARR", "REALARR"}}
ResultType(p) ==
  IF p[1] = "mult" /\ p[2] = p[3] /\ p[2] \in ArrayTypes THEN Elem[p[2]]
  ELSE LET types == Common(p[2], p[3])
       IN IF types[2] \in ArrayTypes THEN types[2] ELSE types[1]
Mixed == [p \in Pairs |->
  <<Var(ResultType(p), "c"), Var(p[2], "a"), Var(p[3], "b"),
    Let("c", Op(p[1], V("a"), V("b")))>>]

\* Assignments of one type to another.
Assignments == [p \in ({"INT", "REAL", "STR"} \X {"INT", "REAL", "STR"})
                      \cup {<<"CPLX", "CPLX">>, <<"QUAT", "QUAT">>, <<"INT", "CPLX">>,
                            <<"REAL", "CPLX">>, <<"CPLX", "STR">>}
                      \cup {<<"INTARR", "STR">>, <<"INTARR", "INTARR">>,
                            <<"INT", "INTARR">>, <<"REAL", "INTARR">>,
                            <<"INT", "REALARR">>, <<"REALARR", "REALARR">>} |->
  <<Var(p[1], "a"), Var(p[2], "b"), Let("b", V("a"))>>]

\* Relations and connectives, as conditions and as values.
Marks(cs) == [k \in DOMAIN cs |-> When(cs[k], <<Let("x", Op("plus", V("x"), I(2 ^ k)))>>)]
Conditions == [p \in DOMAIN Relations \cup DOMAIN Connectives |->
  <<Ints(<<"x">>), Var("INT", "i"), Var("BOOL", "b")>>
  \o Marks(IF p \in DOMAIN Relations
             THEN <<Op(p, I(1), I(2)), Op(p, I(2), I(1)), Not(Op(p, V("i"), I(3)))>>
           ELSE <<Op(p, V("b"), B(TRUE)), Op(p, B(FALSE), V("b")), Not(Op(p, V("b"), V("b")))>>)]

\* Elements and parts of arrays and strings, and products of matrices.
\* The matrix has the elements 1, 2, ... row by row, or column by column.
Counted(x, rows, columns) ==
  FlattenSeq([i \in 1 .. rows |-> [j \in 1 .. columns |->
    SetAt(x, <<I(i - 1), I(j - 1)>>, I(3 * i + j))]])
IntArray(dims, x) == DeclAs("INTARR", dims, <<x>>, <<>>)
List(x, elems) == DeclAs("INTARR", <<Len(elems)>>, <<x>>, <<Array(elems)>>)
Matrix23 == <<IntArray(<<2, 3>>, "m")>> \o Counted("m", 2, 3)
Matrix32 == <<IntArray(<<3, 2>>, "n")>> \o Counted("n", 3, 2)
Five == List("a", <<I(1), I(2), I(4), I(0), I(3)>>)
Arrays == [p \in {"element", "store", "part", "fill", "columns", "rows", "matrix", "text", "cube",
                  "convert"} |->
  CASE p = "element" -> Matrix23 \o <<Ints(<<"x">>), Five,
         Let("x", At(V("m"), <<Op("minus", I(2), I(1)), At(V("a"), <<I(1)>>)>>))>>
    [] p = "store" -> Matrix23 \o <<Five,
         SetAt("a", <<Op("plus", At(V("a"), <<I(2)>>), I(0))>>, At(V("a"), <<I(1)>>)),
         SetAt("m", <<I(0), I(1)>>, Op("mult", At(V("m"), <<I(1), I(0)>>), I(3)))>>
    [] p = "part" -> <<Ints(<<"x">>), List("d", <<I(8), I(9)>>), Five,
         Let("d", Part(V("a"), I(2), I(1))), Let("x", At(Part(V("a"), I(1), I(2)), <<I(1)>>))>>
    [] p = "fill" -> <<List("d", <<I(8), I(9)>>), Five,
         SetPart("a", I(1), I(2), V("d")), SetPart("a", I(3), I(4), I(7))>>
    [] p = "columns" -> <<IntArray(<<2>>, "e"), List("c", <<I(1), I(2), I(4)>>)>> \o Matrix23
         \o <<Let("e", Op("mult", V("m"), V("c")))>>
    [] p = "rows" -> <<IntArray(<<3>>, "e"), List("c", <<I(1), I(2)>>)>> \o Matrix23
         \o <<Let("e", Op("mult", V("c"), V("m")))>>
    [] p = "matrix" -> <<IntArray(<<2, 2>>, "q")>> \o Matrix23 \o Matrix32
         \o <<Let("q", Op("mult", V("m"), V("n")))>>
    [] p = "text" -> <<Var("STR", "t"), Var("STR", "s"),
         Let("t", At(V("s"), <<I(1)>>)), Let("s", Op("plus", V("s"), V("t"))),
         Let("t", Part(V("s"), I(2), I(1)))>>
    [] p = "cube" -> <<Ints(<<"x">>), DeclAs("INTARR", <<2, 2, 3>>, <<"k">>, <<>>),
         SetAt("k", <<I(1), I(0), I(2)>>, I(5)), SetAt("k", <<I(0), I(1), I(1)>>, I(6)),
         Let("x", At(V("k"), <<I(1), I(0), I(2)>>))>>
    [] p = "convert" -> <<Var("INT", "i"), Var("REAL", "r"), Var("REALARR", "w"), Var("INTARR", "v"),
         SetAt("w", <<I(1)>>, V("i")), SetAt("v", <<I(0)>>, V("r")),
         Let("v", Op("plus", V("v"), Array(<<V("i"), R>>)))>>]

-----------------------------------------------------------------------------
(* Control flow.  Programs count in x, and in y and z, what is executed.   *)

Inc(x) == Let(x, Op("plus", V(x), I(1)))
Is(x, n) == Op("equ", V(x), I(n))
Below(x, n) == Op("lt", V(x), I(n))
Trace(n) == Let("x", Op("mod", Op("plus", Op("mult", V("x"), I(3)), n), I(101)))
DoStep(x, a, b, inc, stmts) == Node("do", x, <<a, b, inc, Block(stmts)>>)
Select(n, cases) == Node("select", "", <<n>> \o cases)
Label(name) == Leaf("label", name)
Goto(name) == Leaf("goto", name)
Return == Leaf("return", "")

\* "break" and "next" of every depth in three loops, in the innermost or after it.
Jumps == [p \in {"break", "next"} \X {"inner", "middle"} \X (0 .. 3) |->
  LET jump == Leaf(p[1], p[3])
      At1(place, x) == IF p[2] = place THEN <<When(Is(x, 1), <<jump>>)>> ELSE <<>>
  IN <<Ints(<<"x", "y", "z", "i", "j", "k">>),
       While(Below("i", 2), <<Inc("i"), Let("j", I(0)),
         While(Below("j", 2), <<Inc("j"), Let("k", I(0)),
           While(Below("k", 2), <<Inc("k")>> \o At1("inner", "k") \o <<Inc("x")>>)>>
           \o At1("middle", "j") \o <<Inc("y")>>), Inc("z")>>)>>]

Ranges == [p \in {"range", "step", "empty", "triangle", "break", "outer", "next"} |->
  <<Ints(<<"x", "i", "j">>)>> \o
  CASE p = "range" -> <<DoLoop("i", I(1), I(3), <<Trace(V("i"))>>)>>
    [] p = "step" -> <<DoStep("i", I(1), I(6), I(2), <<Trace(V("i"))>>)>>
    [] p = "empty" -> <<DoLoop("i", I(3), I(2), <<Trace(V("i"))>>)>>
    [] p = "triangle" -> <<DoLoop("i", I(1), I(2), <<
                             DoLoop("j", V("i"), I(3), <<Trace(Op("mult", V("i"), V("j")))>>)>>)>>
    [] p \in {"break", "outer"} -> <<DoLoop("i", I(1), I(3), <<
         DoLoop("j", I(1), I(3), <<When(Op("equ", V("i"), V("j")),
                                        <<Break(IF p = "break" THEN 0 ELSE 1)>>),
                                   Trace(V("j"))>>), Trace(V("i"))>>)>>
    [] p = "next" -> <<DoLoop("i", I(1), I(2), <<Let("j", I(0)),
         While(Below("j", 3), <<Inc("j"), When(Is("j", 2), <<NextLoop(0)>>),
                                Trace(V("j"))>>)>>)>>]

\* Every combination of conditions, and cases in a loop that they leave.
Branches == [p \in {"if", "select", "leave"} |->
  <<Ints(<<"x", "i">>),
    While(Below("i", 4), <<Inc("i"),
      CASE p = "if" -> If(Below("i", 3), <<If(Is("i", 1), <<Trace(I(1))>>, <<Trace(I(2))>>)>>,
                                         <<When(Is("i", 3), <<Trace(I(3))>>)>>)
        [] p = "select" -> Select(V("i"), <<I(1), Trace(I(1)), I(3), Trace(I(3)),
                                            I(3), Trace(I(5)), Trace(I(7))>>)
        [] p = "leave" -> Block(<<
             Select(V("i"), <<I(1), NextLoop(0), I(3), Break(0)>>), Trace(V("i"))>>)>>)>>]

\* Jumps to labels, and what the program does otherwise.
Gotos == [p \in {"goto"} |->
  <<Ints(<<"x", "i">>), Label("again"), Inc("i"), When(Is("i", 2), <<Goto("skip")>>),
    Trace(V("i")), Label("skip"), When(Below("i", 3), <<Goto("again")>>), Trace(I(9))>>]
Instead == [p \in {<<"gotos", "goto">>} |->
  <<Ints(<<"x", "i">>), While(Below("i", 3), <<Inc("i"),
    When(Not(Is("i", 2)), <<Trace(V("i"))>>)>>), Trace(I(9))>>]

-----------------------------------------------------------------------------
(* Functions.                                                              *)

Arguments(type, dims, names) ==
  Node("decl", [type |-> type, dims |-> dims, names |-> names, intent |-> "in"], <<>>)
IntArgs(names) == Arguments("INT", <<>>, names)
Assign2(x, y, a) == Node("assign", <<x, y>>, <<a>>)
Plus(a, b) == Op("plus", a, b)
Minus(a, b) == Op("minus", a, b)
Times(a, b) == Op("mult", a, b)

\* test/fibo.muf
Fibo == Function("fibo", <<"n">>, <<"m">>, <<IntArgs(<<"n">>), Ints(<<"m">>),
  If(Op("leq", V("n"), I(1)), <<Let("m", I(1))>>,
     <<Let("m", Plus(CallOf("fibo", <<Minus(V("n"), I(1))>>),
                     CallOf("fibo", <<Minus(V("n"), I(2))>>)))>>)>>)
Fac == Function("fac", <<"n">>, <<"m">>, <<IntArgs(<<"n">>), Ints(<<"m">>),
  When(Op("leq", V("n"), I(1)), <<Let("m", I(1)), Return>>),
  Let("m", Times(V("n"), CallOf("fac", <<Minus(V("n"), I(1))>>)))>>)
FiboTest == <<Fibo, Fac, Block(<<Ints(<<"n", "i", "x", "y">>), Ints(<<"fibo", "fac">>),
  While(B(TRUE), <<Node("print", "", <<T(<<"n">>)>>), Leaf("read", <<"n">>),
    When(Op("lt", V("n"), V("i")), <<Break(0)>>),
    Let("i", I(9)), Let("n", Minus(V("n"), I(3))),
    Let("x", CallOf("fac", <<V("n")>>)), Let("y", CallOf("fibo", <<V("n")>>)),
    Node("print", "", <<V("n"), T(<<"!">>), V("x")>>)>>)>>)>>

\* test/comb.muf
CombTest == <<
  Function("fac", <<"n">>, <<"res">>, <<IntArgs(<<"n">>), Ints(<<"res">>),
    DeclAs("INT", <<>>, <<"i">>, <<I(1)>>), Let("res", I(1)),
    When(Op("leq", V("n"), I(1)), <<Return>>),
    DoLoop("i", I(2), V("n"), <<Let("res", Times(V("res"), V("i")))>>)>>),
  Function("binom", <<"n", "k">>, <<"res">>, <<IntArgs(<<"n", "k">>), Ints(<<"res">>),
    Ints(<<"fac">>), Let("res", Op("div", CallOf("fac", <<V("n")>>),
      Times(CallOf("fac", <<Minus(V("n"), V("k"))>>), CallOf("fac", <<V("k")>>))))>>),
  Function("comb_rep", <<"n", "k">>, <<"res">>, <<IntArgs(<<"n", "k">>), Ints(<<"res">>),
    Ints(<<"binom">>),
    Let("res", CallOf("binom", <<Minus(Plus(V("n"), V("k")), I(1)), V("k")>>))>>),
  Block(<<Ints(<<"x", "y">>), Ints(<<"binom", "comb_rep">>),
    Let("x", CallOf("binom", <<I(5), I(2)>>)), Let("y", CallOf("comb_rep", <<I(2), I(3)>>))>>)>>

\* test/tst_func.muf
TwoResults == <<
  Function("func3", <<"a", "b">>, <<"x", "y">>, <<Ints(<<"a", "b">>), Ints(<<"x", "y">>),
    Let("x", Times(I(3), V("a"))), Let("y", Times(I(2), V("b")))>>),
  Function("func4", <<"a", "b">>, <<"x", "y">>, <<Ints(<<"a", "x">>),
    DeclAs("REAL", <<>>, <<"b", "y">>, <<>>),
    Let("x", Times(I(3), V("a"))), Let("y", Times(R, V("b")))>>),
  Block(<<Ints(<<"i", "j">>), Assign2("i", "j", CallOf("func3", <<I(23), I(44)>>)),
    DeclAs("REAL", <<>>, <<"k">>, <<>>), Ints(<<"l">>),
    Assign2("l", "k", CallOf("func4", <<I(12), R>>))>>)>>
FourInts(names) == DeclAs("INTARR", <<4>>, names, <<>>)
ArrayArgs == <<
  Function("func6", <<"a", "b">>, <<"x">>, <<FourInts(<<"a", "b", "x">>),
    Let("x", Plus(V("a"), V("b")))>>),
  Block(<<List("a", <<I(1), I(2), I(3), I(4)>>), List("b", <<I(9), I(8), I(7), I(6)>>),
    Let("a", CallOf("func6", <<V("a"), V("b")>>)),
    Let("b", CallOf("func6", <<V("a"), Times(I(2), V("b"))>>))>>)>>

\* Arguments that are calls, functions that share names, change global variables,
\* return from loops, call one another, or are called before their definition.
Weigh == Function("weigh", <<"a", "b">>, <<"x">>, <<IntArgs(<<"a", "b">>), Ints(<<"x">>),
  Let("x", Plus(Times(I(7), V("a")), V("b")))>>)
Weighed(a, b) == CallOf("weigh", <<a, b>>)
Find == Function("find", <<"n">>, <<"x">>, <<IntArgs(<<"n">>), Ints(<<"x", "i", "j">>),
  DoLoop("i", I(1), I(3), <<Let("j", I(0)), While(Below("j", 3), <<Inc("j"),
    When(Op("equ", Times(V("i"), V("j")), V("n")), <<Return>>), Inc("x")>>)>>), Let("x", I(99))>>)
Even(f, g, base) == Function(f, <<"n">>, <<"x">>, <<IntArgs(<<"n">>), Ints(<<"x">>),
  If(Is("n", 0), <<Let("x", I(base))>>, <<Let("x", CallOf(g, <<Minus(V("n"), I(1))>>))>>)>>)
Count == Function("count", <<"n">>, <<>>, <<IntArgs(<<"n">>), Ints(<<"y">>),
  Let("v", I(7)), Let("y", V("x")), Let("x", Plus(V("y"), V("n"))),
  When(Op("gt", V("n"), I(1)), <<CallOf("count", <<Minus(V("n"), I(1))>>)>>), Let("x", Plus(V("x"), V("y")))>>)

Functions == [p \in {"fibo", "comb", "results", "arrays", "weigh", "before", "find", "even",
                     "count", "argument", "text"} |->
  CASE p = "fibo" -> FiboTest
    [] p = "comb" -> CombTest
    [] p = "results" -> TwoResults
    [] p = "arrays" -> ArrayArgs
    [] p = "weigh" -> <<Weigh, Ints(<<"x">>),
         Let("x", Weighed(Weighed(I(1), I(2)), Weighed(I(3), Weighed(I(0), I(4)))))>>
    [] p = "before" -> <<Ints(<<"x">>), Let("x", Weighed(I(1), I(2))), Weigh>>
    [] p = "find" -> <<Find, Ints(<<"x", "y">>), Let("x", CallOf("find", <<I(6)>>)),
         Let("y", CallOf("find", <<I(7)>>))>>
    [] p = "even" -> <<Even("even", "odd", 1), Even("odd", "even", 2), Ints(<<"x", "y">>),
         Let("x", CallOf("even", <<I(3)>>)), Let("y", CallOf("odd", <<I(3)>>))>>
    [] p = "count" -> <<Ints(<<"z", "w", "v", "x">>), Count, CallOf("count", <<I(3)>>)>>
    [] p = "argument" -> <<
         Function("half", <<"a", "b">>, <<"x">>, <<Ints(<<"a", "b", "x">>),
           Let("b", Op("div", V("a"), I(2))), Let("a", I(0)), Let("x", V("b"))>>),
         Ints(<<"x">>), Let("x", CallOf("half", <<I(9), I(1)>>))>>
    [] p = "text" -> <<
         Function("twice", <<"n", "s">>, <<"r">>, <<IntArgs(<<"n">>),
           DeclAs("STR", <<>>, <<"s", "r">>, <<>>), Let("r", Plus(V("s"), V("s"))),
           When(Op("gt", V("n"), I(1)), <<Let("r", CallOf("twice", <<Minus(V("n"), I(1)), V("r")>>))>>)>>),
         DeclAs("STR", <<>>, <<"s">>, <<>>), Let("s", CallOf("twice", <<I(2), T(<<"a">>)>>))>>]

-----------------------------------------------------------------------------
(* Constants, in every place where the optimiser finds them.               *)

Flags(conditions) ==
  <<Ints(<<"x">>)>> \o
  [k \in DOMAIN conditions |-> When(conditions[k], <<Let("x", Plus(V("x"), I(2 ^ (k - 1))))>>)]
Connected(kind) ==
  [k \in 1 .. 9 |-> Op(kind, I((k - 1) % 3), I((k - 1) \div 3))]

Constants == [p \in {"places", "range", "cases", "negative", "and", "or", "xor", "relations",
                     "reals", "texts", "truth"} |->
  CASE p = "places" -> <<Weigh, List("a", <<Plus(I(1), I(1)), Minus(I(1), I(3)), I(4)>>),
         DeclAs("INT", <<>>, <<"x">>, <<Minus(I(2), I(9))>>), Ints(<<"y">>),
         SetAt("a", <<Minus(I(3), I(2))>>, Times(I(2), Plus(I(1), I(2)))),
         SetPart("a", Minus(I(3), I(1)), Times(I(1), I(2)), Plus(I(4), I(5))),
         Let("y", At(V("a"), <<Minus(I(2), I(1))>>)),
         Let("x", Plus(V("x"), Weighed(Op("pow", I(2), I(2)), Op("div", I(7), I(2))))),
         If(Op("geq", Times(I(2), I(2)), I(5)), <<Inc("x")>>, <<Inc("y")>>),
         While(Op("lt", I(1), Plus(I(1), I(1))), <<Inc("y"), Break(0)>>)>>
    [] p = "range" -> <<Ints(<<"x", "i">>),
         DoStep("i", Minus(I(3), I(2)), Times(I(2), I(3)), Plus(I(1), I(1)), <<Trace(V("i"))>>)>>
    [] p = "cases" -> <<Ints(<<"x", "i">>), While(Below("i", 4), <<Inc("i"),
         Select(Plus(V("i"), Minus(I(2), I(1))),
           <<Plus(I(1), I(1)), Trace(I(1)), Times(I(2), I(2)), Trace(I(2)), Trace(Plus(I(1), I(3)))>>)>>)>>
    [] p = "negative" -> <<Ints(<<"x", "y", "z">>),
         Let("x", Op("mod", Minus(I(2), I(9)), I(4))), Let("y", Op("div", I(7), Minus(I(1), I(3)))),
         Let("z", Op("pow", Minus(I(1), I(3)), Plus(I(1), I(2))))>>
    [] p \in {"and", "or"} -> Flags(Connected(p))
    [] p = "xor" -> Flags(<<Op(p, I(0), I(0)), Op(p, I(0), I(1)), Op(p, I(1), I(0)), Op(p, I(1), I(1))>>)
    [] p = "relations" -> Flags(<<Op("lt", I(1), I(2)), Op("geq", I(1), I(2)), Op("equ", I(2), I(2)),
         Op("neq", Plus(I(1), I(1)), I(2)), Op("gt", I(2), Minus(I(1), I(2))), Op("leq", I(2), I(2)),
         Not(Op("leq", I(2), I(2))), Op("or", Op("lt", I(2), I(1)), Op("lt", I(1), I(2)))>>)
    [] p = "reals" -> <<Var("REAL", "r"), Var("INT", "i"), Let("r", Times(R, Plus(R, I(1)))),
         Let("r", Plus(Op("pow", R, R), Plus(I(1), I(2)))), Let("r", Op("mod", R, Op("div", R, R))),
         Let("i", Minus(Times(I(2), I(3)), R))>>
    [] p = "texts" -> <<Ints(<<"x">>), Var("STR", "s"),
         Let("s", Plus(T(<<"a">>), Plus(T(<<"b">>), T(<<"c">>)))),
         When(Op("equ", Plus(T(<<"a">>), T(<<"b">>)), T(<<"a", "b">>)), <<Inc("x")>>),
         When(Op("neq", T(<<"a">>), T(<<"a", "b">>)), <<Let("x", Plus(V("x"), I(2)))>>),
         When(Op("equ", T(<<"b">>), T(<<"a">>)), <<Let("x", Plus(V("x"), I(4)))>>)>>
    [] p = "truth" -> <<Var("BOOL", "b"), Var("INT", "x"), Let("b", Op("lt", I(1), I(2))),
         Let("x", Op("lt", I(1), I(2))), Let("b", Op("and", V("b"), Op("equ", I(1), I(2))))>>]

-----------------------------------------------------------------------------
(* Compiling, running and comparing.                                       *)

\* A program that is rejected is no program: its only byte is no opcode.
CompiledSources ==
  LET sources == Sources
  IN [p \in DOMAIN sources |->
       Compile(Block(sources[p]), ExtSymbols(Declared), p[1] = "optimised")]
CompiledPrograms ==
  LET compiled == CompiledSources
  IN [p \in DOMAIN compiled |-> LET g == compiled[p]
                                IN IF g.err = "" THEN g.code ELSE Bytes(<<"op", "INVALID">>)]
SourceMeanings ==
  LET sources == Sources
  IN [p \in DOMAIN sources |-> Meaning(Block(IF p \in DOMAIN Instead THEN Instead[p]
                                            ELSE sources[p]))]

\* Programs without overflow and the like.
Meaningful(sources) ==
  LET Defined(stmts) == LET m == Meaning(Block(stmts))
                        IN \A x \in DOMAIN m : m[x] \notin Bad
  IN [p \in {q \in DOMAIN sources : Defined(sources[q])} |-> sources[p]]

\* The values a program has to leave, at the addresses of its global variables.
Expected ==
  LET compiled == Compiled
      meanings == Meanings
  IN [p \in {q \in DOMAIN compiled : compiled[q].err = ""} |->
       {<<compiled[p].syms[<<x>>].addr[1], meanings[p][x]>> : x \in DOMAIN meanings[p]}]

\* The machine, running the code that is generated for a program, leaves in each
\* global variable the value the program gives it, and nothing on the stack.
CompiledCorrectly ==
  status # "running" =>
    /\ status = "halted"
    /\ sp = InitialSP
    /\ \A e \in Expected[prog] : DataAt(gbp + e[1]) = e[2]

\* The programs of a suite, with a name that tells it.
Named(suite, sources) == [p \in {<<suite, q>> : q \in DOMAIN sources} |-> sources[p[2]]]
Expressions ==
  Named("trees", Meaningful(Trees)) @@ Named("mixed", Mixed)
  @@ Named("assignments", Assignments) @@ Named("conditions", Conditions)
  @@ Named("arrays", Arrays) @@ Named("constants", Constants)
Controls ==
  Named("jumps", Jumps) @@ Named("ranges", Ranges) @@ Named("branches", Branches)
  @@ Named("gotos", Gotos)
Calling == Named("functions", Functions)

\* Programs that the optimiser changes.
Tree(stmts) == Parse(Block(stmts), Context(ExtSymbols(Declared))).node
Changed(sources) ==
  [p \in {q \in DOMAIN sources : Optimise(Tree(sources[q])) # Tree(sources[q])} |-> sources[p]]
Optimised == Named("optimised", Changed(Expressions @@ Controls @@ Calling))

AllSources == Expressions @@ Controls @@ Calling @@ Optimised
-----------------------------------------------------------------------------
(* Programs that are not compiled to what they mean.                       *)

\* "next" in a counted loop, which a test of x keeps from running for ever.
CountedNext == [p \in {<<"finding", "next">>} |->
  <<Ints(<<"x", "i">>), DoLoop("i", I(1), I(2),
    <<Inc("x"), When(Is("x", 9), <<Break(0)>>), When(Is("i", 1), <<NextLoop(0)>>)>>)>>]

\* The sum of the results of a real and of an integer function.
SumOfCalls == [p \in {<<"finding", "calls">>} |->
  <<Function("f", <<>>, <<"y">>, <<DeclAs("REAL", <<>>, <<"y">>, <<>>)>>),
    Function("g", <<>>, <<"x">>, <<Ints(<<"x">>)>>),
    DeclAs("REAL", <<>>, <<"r">>, <<>>), Let("r", Plus(CallOf("f", <<>>), CallOf("g", <<>>)))>>]

\* A scalar that is declared after a matrix, times a vector.
ScaledVector == [p \in {<<"finding", "scaled">>} |->
  <<List("v", <<I(1), I(2)>>), IntArray(<<2, 2>>, "m"), DeclAs("INT", <<>>, <<"x">>, <<I(3)>>),
    Let("v", Times(V("x"), V("v")))>>]

\* A function that calls another one and does not use its result.
IgnoredResult == [p \in {<<"finding", "ignored">>} |->
  <<Function("g", <<>>, <<"x">>, <<DeclAs("INT", <<>>, <<"x">>, <<I(7)>>)>>),
    Function("f", <<>>, <<"x">>, <<DeclAs("INT", <<>>, <<"x">>, <<I(3)>>), CallOf("g", <<>>)>>),
    Ints(<<"i">>), Let("i", CallOf("f", <<>>))>>]

\* A text and an integer as arguments.
TextArgument == [p \in {<<"finding", "text">>} |->
  <<Function("f", <<"s", "n">>, <<"x">>, <<DeclAs("STR", <<>>, <<"s">>, <<>>), Ints(<<"n", "x">>),
      Let("x", V("n"))>>),
    Ints(<<"i">>), Let("i", CallOf("f", <<T(<<"a">>), I(8)>>))>>]
=============================================================================
