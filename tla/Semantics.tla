------------------------------- MODULE Semantics -------------------------------
(***************************************************************************)
(* What a program means, whatever code is generated for it: an evaluator   *)
(* of the source tree with an environment of named variables.  It is the   *)
(* abstract specification of the compiler and the machine together; it     *)
(* knows neither addresses nor a stack, jumps, casts or a symbol table.    *)
(*                                                                         *)
(* A variable or the value of an expression is a value with its            *)
(* dimensions, <<>> for a scalar.                                          *)
(***************************************************************************)
EXTENDS VMValues, Grammar

CONSTANT Input  \* the number that is read from the keyboard

Cell(value, dims) == [v |-> value, dims |-> dims]
Scalar(value) == Cell(value, <<>>)
Product(dims) == InOrder(LAMBDA x, y : x * y, 1, dims)

\* The environment: the functions by name, the global variables, those of the
\* function that runs (<<>> outside of functions), the values the last expression
\* gave, whether and how the statements are left, and the number of loops around.
Environment(source) ==
  LET funcs == SelectSeq(source.kids, LAMBDA n : n.k = "func")
  IN [funcs |-> [f \in {funcs[i].v.name : i \in DOMAIN funcs} |->
                   CHOOSE n \in Range(funcs) : n.v.name = f],
      global |-> <<>>, local |-> <<>>, vals |-> <<>>, leave |-> <<"no", 0>>, depth |-> 0]

Leaving(e) == e.leave[1] # "no"
Leave(e, how, levels) == [e EXCEPT !.leave = <<how, levels>>]
Gives(e, cell) == [e EXCEPT !.vals = <<cell>>]
Given(e) == e.vals[1]

IsLocal(e, x) == e.local # <<>> /\ x \in DOMAIN e.local[1]
Lookup(e, x) == IF IsLocal(e, x) THEN e.local[1][x] ELSE e.global[x]
Update(e, x, cell) ==
  IF IsLocal(e, x) THEN [e EXCEPT !.local[1][x] = cell] ELSE [e EXCEPT !.global[x] = cell]
New(e, x, cell) ==
  IF e.local = <<>> THEN [e EXCEPT !.global = (x :> cell) @@ @]
                    ELSE [e EXCEPT !.local[1] = (x :> cell) @@ @]

-----------------------------------------------------------------------------
(* Values.                                                                 *)

Converted(v, type) == CHOOSE x \in Cast(type, v) : TRUE

\* Text with anything is text, real with integer is real, a number with an array
\* is an element of the array.
Common(t1, t2) ==
  CASE t1 = t2 -> <<t1, t2>>
    [] "STR" \in {t1, t2} -> <<"STR", "STR">>
    [] {t1, t2} \subseteq NumberTypes /\ t1 # t2 ->
         IF "CPLX" \in {t1, t2} THEN <<"CPLX", "CPLX">> ELSE <<"REAL", "REAL">>
    [] t1 \in ArrayTypes /\ t2 \in NumberTypes -> <<t1, Elem[t1]>>
    [] t2 \in ArrayTypes /\ t1 \in NumberTypes -> <<Elem[t2], t2>>

Operators == [plus |-> "ADD", minus |-> "SUB", mult |-> "MUL", div |-> "DIV", mod |-> "MOD",
              pow |-> "POW"]
Relations == [equ |-> "EQU", neq |-> "NEQU", gt |-> "GT", lt |-> "LT", geq |-> "GEQU",
              leq |-> "LEQU"]
Connectives == [and |-> "AND", or |-> "OR", xor |-> "XOR"]

\* A vector is a row left of a matrix and a column right of one.
Rows(d) == IF Len(d) = 2 THEN d ELSE <<1, d[1]>>
Columns(d) == IF Len(d) = 2 THEN d ELSE <<d[1], 1>>
MatrixProduct(a, b) ==
  LET r == Rows(a.dims)  c == Columns(b.dims)
  IN Cell(MatMul(a.v, b.v, r[1], r[2], c[1], c[2]),
          (IF Len(a.dims) = 2 THEN <<r[1]>> ELSE <<>>)
          \o (IF Len(b.dims) = 2 THEN <<c[2]>> ELSE <<>>))

\* The dimensions of other results: the inner product of vectors is a scalar.
OtherDims(kind, a, b) ==
  IF kind = "mult" /\ a.dims # <<>> /\ b.dims # <<>> THEN <<>>
  ELSE IF a.dims # <<>> THEN a.dims ELSE b.dims

Operated(kind, a, b) ==
  LET types == Common(a.v[1], b.v[1])
      x == Converted(a.v, types[1])
      y == Converted(b.v, types[2])
  IN CASE kind = "mult" /\ a.dims # <<>> /\ b.dims # <<>> /\ 2 \in {Len(a.dims), Len(b.dims)}
            -> MatrixProduct(a, b)
       [] kind \in DOMAIN Connectives -> Scalar(Logic(Connectives[kind], a.v, b.v))
       [] kind \in DOMAIN Relations ->
            Scalar(CHOOSE r \in Compare(Relations[kind], x, y) : TRUE)
       [] OTHER -> Cell(Arith(Operators[kind], x, y), OtherDims(kind, a, b))

\* The place of an element in an array with these dimensions.
Place(indices, dims) ==
  InOrder(LAMBDA p, i : p * dims[i] + indices[i].v[2], 0, Indices(indices))

\* What a variable holds after an assignment: it keeps its type.  A number fills
\* an array, and the elements of another array are converted.
Elements(old, v) ==
  IF v[1] \in ArrayTypes THEN [i \in DOMAIN v[2] |-> <<Elem[v[1]], v[2][i]>>]
                         ELSE Copies(Product(old.dims), v)
Assigned(old, v) ==
  [old EXCEPT !.v =
     IF @[1] \in ArrayTypes
       THEN <<@[1], [i \in DOMAIN Elements(old, v) |->
                      Converted(Elements(old, v)[i], Elem[old.v[1]])[2]]>>
     ELSE Converted(v, @[1])]

Initial(type, dims) ==
  CASE type \in ArrayTypes -> Cell(<<type, Copies(Product(dims), 0)>>, dims)
    [] type = "STR" -> Scalar(StrVal(<<>>))
    [] type = "BOOL" -> Scalar(BoolVal(FALSE))
    [] OTHER -> Scalar(Number(type))

\* What the functions of the machine give.
External(name, cells) ==
  CASE name \in {"write", "write_no_cr"} -> <<>>
    [] name = "strlen" -> <<Scalar(IntVal(Len(cells[1].v[2])))>>
    [] OTHER -> <<Scalar(Number("REAL"))>>

-----------------------------------------------------------------------------
(* Expressions and statements.                                             *)

RECURSIVE Eval(_, _), Iterate(_, _)

\* Several expressions, in the order of ns.
EvalAll(ns, e) ==
  InOrder(LAMBDA a, n : LET b == Eval(n, a.e)
                         IN [e |-> b, cells |-> Append(a.cells, Given(b))],
           [e |-> e, cells |-> <<>>], ns)

EvalSequence(ns, e) == InOrder(LAMBDA x, n : IF Leaving(x) THEN x ELSE Eval(n, x), e, ns)

EvalBinary(n, e) ==
  LET a == Eval(n.kids[1], e)
      b == Eval(n.kids[2], a)
  IN Gives(b, Operated(n.k, Given(a), Given(b)))

Assign(e, x, v) == Update(e, x, Assigned(Lookup(e, x), v))
EvalAssign(n, e) ==
  LET a == Eval(n.kids[1], e)
  IN InOrder(LAMBDA x, i : Assign(x, n.v[i], a.vals[i].v), a, Indices(n.v))

EvalAccess(n, e) ==
  LET a == Eval(n.kids[1], e)
      b == EvalAll(Tail(n.kids), a)
      arr == Given(a)
      i == b.cells
  IN Gives(b.e, IF n.v THEN LET part == ReadRange(arr.v, i[1].v[2], i[2].v[2])
                            IN Cell(part, IF part[1] = "STR" THEN <<>> ELSE <<Len(part[2])>>)
                ELSE Scalar(ReadElem(arr.v, IF arr.dims = <<>> THEN i[1].v[2]
                                            ELSE Place(i, arr.dims))))

\* A number is stored in an element, or all elements of a range; a range also
\* takes the elements of an array.
EvalArrayAssign(n, e) ==
  LET a == Eval(n.kids[1], e)
      b == EvalAll(Tail(n.kids), a)
      v == Given(a).v
      old == Lookup(b.e, n.v.name)
      from == IF n.v.ranged THEN b.cells[1].v[2] ELSE Place(b.cells, old.dims)
      to == IF n.v.ranged THEN b.cells[2].v[2] ELSE from
      places == IndexRange(from, to, Len(old.v[2]))
      x(k) == IF v[1] = old.v[1] THEN v[2][k] ELSE Converted(v, Elem[old.v[1]])[2]
  IN Update(b.e, n.v.name, [old EXCEPT !.v[2] =
       [p \in DOMAIN @ |-> IF p - 1 \in Range(places)
                             THEN x(CHOOSE k \in DOMAIN places : places[k] = p - 1)
                           ELSE @[p]]])

\* A list has the type of its first element.
EvalList(n, e) ==
  LET a == EvalAll(n.kids, e)
      type == IF a.cells[1].v[1] = "INT" THEN "INTARR" ELSE "REALARR"
      elems == [i \in DOMAIN a.cells |-> Converted(a.cells[i].v, Elem[type])[2]]
  IN Gives(a.e, Cell(<<type, elems>>, <<Len(elems)>>))

\* A function has its own variables; its values are those of its results.
Apply(func, cells, e) ==
  LET inside == [e EXCEPT !.depth = 0, !.local =
                   <<[x \in Range(func.v.args) |->
                        cells[CHOOSE i \in DOMAIN cells : func.v.args[i] = x]]>>]
      after == Eval(func.kids[1], inside)
  IN [after EXCEPT !.local = e.local, !.depth = e.depth, !.leave = e.leave,
                   !.vals = [i \in DOMAIN func.v.rets |-> after.local[1][func.v.rets[i]]]]

EvalCall(n, e) ==
  LET a == EvalAll(Reverse(n.kids), e)
      cells == Reverse(a.cells)
  IN IF n.v \in DOMAIN e.funcs THEN Apply(e.funcs[n.v], cells, a.e)
     ELSE [a.e EXCEPT !.vals = External(n.v, cells)]

\* Arguments have their values already.
Declare(e, x, type, dims) ==
  IF x \in DOMAIN e.funcs \/ IsLocal(e, x) THEN e ELSE New(e, x, Initial(type, dims))
EvalDecl(n, e) ==
  LET a == InOrder(LAMBDA x, name : Declare(x, name, n.v.type, n.v.dims), e, n.v.names)
      b == IF n.kids = <<>> THEN a ELSE Eval(n.kids[1], a)
  IN IF n.kids = <<>> THEN a ELSE Assign(b, Last(n.v.names), Given(b).v)

EvalIf(n, e) ==
  LET c == Eval(n.kids[1], e)
  IN IF Truth(Given(c).v) THEN Eval(n.kids[2], c)
     ELSE EvalSequence(SubSeq(n.kids, 3, Len(n.kids)), c)

\* The block of the first case that equals the expression, or the default.
EvalSelect(n, e) ==
  LET count == (Len(n.kids) - 1) \div 2
      value == Given(Eval(n.kids[1], e)).v
      matching == {i \in 1 .. count : Given(Eval(n.kids[2 * i], e)).v = value}
  IN IF matching # {}
       THEN Eval(n.kids[2 * (CHOOSE i \in matching : \A j \in matching : i <= j) + 1], e)
     ELSE EvalSequence(SubSeq(n.kids, 2 * count + 2, Len(n.kids)), e)

\* Loops.  "break" and "next" name the loop so many levels further out, or the
\* outermost.
Concerned(e) == e.leave[2] = 0 \/ e.depth = 1
Outwards(e) == [e EXCEPT !.leave[2] = @ - 1]

\* The body of a loop has been left with e: the loop goes on, perhaps.
Going(n, e, Step(_)) ==
  CASE e.leave[1] \in {"break", "next"} /\ ~Concerned(e) -> Outwards(e)
    [] e.leave[1] = "break" /\ Concerned(e) -> [e EXCEPT !.leave = <<"no", 0>>]
    [] e.leave[1] = "next" /\ Concerned(e) ->
         Iterate(n, Step([e EXCEPT !.leave = <<"no", 0>>]))
    [] e.leave[1] = "no" -> Iterate(n, Step(e))
    [] e.leave[1] = "return" -> e

CounterCell(n, e) == Lookup(e, n.v)
Stepped(n, e) ==
  IF n.k = "while" THEN e
  ELSE LET a == IF Len(n.kids) = 3 THEN Gives(e, Scalar(IntVal(1))) ELSE Eval(n.kids[3], e)
       IN Assign(a, n.v, Operated("plus", CounterCell(n, a), Given(a)).v)
Iterate(n, e) ==
  LET c == IF n.k = "while" THEN Eval(n.kids[1], e)
           ELSE LET last == Eval(n.kids[2], e)
                IN Gives(last, Operated("leq", CounterCell(n, last), Given(last)))
  IN IF Truth(Given(c).v) THEN Going(n, Eval(Last(n.kids), c), LAMBDA x : Stepped(n, x)) ELSE c

EvalLoop(n, e) ==
  LET start == IF n.k = "while" THEN e
               ELSE Assign(e, n.v, Given(Eval(n.kids[1], e)).v)
      end == Iterate(n, [start EXCEPT !.depth = @ + 1])
  IN [end EXCEPT !.depth = e.depth]

\* What is read is always the same.
EvalRead(n, e) ==
  InOrder(LAMBDA x, name : Assign(x, name, IntVal(Input)), e, n.v)

Eval(n, e) ==
  CASE n.k = "const" -> Gives(e, Scalar(n.v))
    [] n.k = "str" -> Gives(e, Scalar(StrVal(n.v)))
    [] n.k = "var" -> Gives(e, Lookup(e, n.v))
    [] n.k = "assign" -> EvalAssign(n, e)
    [] n.k \in DOMAIN Operators \cup DOMAIN Relations \cup DOMAIN Connectives ->
         EvalBinary(n, e)
    [] n.k = "not" -> LET a == Eval(n.kids[1], e)
                      IN Gives(a, Scalar(BoolVal(~Truth(Given(a).v))))
    [] n.k = "norm" -> Gives(Eval(n.kids[1], e), Scalar(Number("REAL")))
    [] n.k = "access" -> EvalAccess(n, e)
    [] n.k = "arrassign" -> EvalArrayAssign(n, e)
    [] n.k = "list" -> EvalList(n, e)
    [] n.k = "call" -> EvalCall(n, e)
    [] n.k = "block" -> EvalSequence(n.kids, e)
    [] n.k = "print" -> EvalSequence(n.kids, e)
    [] n.k = "read" -> EvalRead(n, e)
    [] n.k = "decl" -> EvalDecl(n, e)
    [] n.k = "if" -> EvalIf(n, e)
    [] n.k = "select" -> EvalSelect(n, e)
    [] n.k \in {"while", "do"} -> EvalLoop(n, e)
    [] n.k \in {"break", "next"} -> Leave(e, n.k, n.v)
    [] n.k = "return" -> Leave(e, "return", 0)
    [] n.k = "func" -> e

\* The global variables when the program has ended.
Meaning(source) ==
  LET e == Eval(source, Environment(source)) IN [x \in DOMAIN e.global |-> e.global[x].v]
=============================================================================
