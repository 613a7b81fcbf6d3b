--------------------------------- MODULE MCVM ---------------------------------
(***************************************************************************)
(* Instances of VM for TLC: small programs in the instructions of the      *)
(* machine, with the results their runs must have.  Sizes are scaled down  *)
(* (2 or 3 bytes for addresses, integers and reals, integers of 10 or 12   *)
(* bits, addresses of 10).                                                 *)
(***************************************************************************)
EXTENDS VM, FiniteSets

CONSTANT Expected  \* how each program of Programs may end, see Ends

\* A small assembler.  A program is a sequence of instructions: <<"push", v>>,
\* <<"here", name>> to name a place, <<"label", name>> to push that place
\* relative to the end of the instruction that follows (JMP, JMPCND or CALL),
\* <<"addr", name>> to push its address, or <<opcode>>.
Code(i, address) ==
  CASE i[1] = "here" -> <<>>
    [] i[1] = "push" -> Bytes(<<"op", "PUSH">>) \o Encode(i[2])
    [] i[1] = "label" -> Bytes(<<"op", "PUSH">>) \o Encode(<<"ADDR_IP", address>>)
    [] i[1] = "addr" -> Bytes(<<"op", "PUSH">>) \o Encode(<<"ADDR_MEM", address>>)
    [] OTHER -> Bytes(<<"op", i[1]>>)
AddrOf(p, i) == Len(FlattenSeq([j \in 1 .. i - 1 |-> Code(p[j], 0)]))
PlaceOf(p, name) == AddrOf(p, CHOOSE i \in DOMAIN p : p[i] = <<"here", name>>)
Assemble(p) ==
  FlattenSeq([i \in DOMAIN p |->
    Code(p[i], CASE p[i][1] = "label" -> PlaceOf(p, p[i][2]) - AddrOf(p, i + 1) - 1
                 [] p[i][1] = "addr" -> PlaceOf(p, p[i][2])
                 [] OTHER -> 0)])

PushI(n) == <<"push", IntVal(n)>>
PushV(v) == <<"push", v>>
Label(name) == <<"label", name>>
Here(name) == <<"here", name>>
Global(n) == <<"push", <<"ADDR_GBP", n>>>>
AddrVal(n) == <<"push", <<"ADDR_MEM", n>>>>
Extern(name) == <<PushV(StrVal(<<name>>)), <<"EXTCALL">>>>

\* How a program may end: a status and the values on the stack, the top first.
\* Only the stack of a program that halts is looked at.
Leaves(values) == {<<"halted", values>>}
Ending == <<status, IF status = "halted" THEN Stack ELSE <<>>>>
Failing == {<<"throws", <<>>>>}

\* A program ends with the result its inputs call for: the right values, and
\* nothing else, are on the stack, or it fails where it has to.
EndsAsExpected ==
  prog \in DOMAIN Expected /\ status # "running" => Ending \in Expected[prog]

-----------------------------------------------------------------------------
(* Laws of the operators on integers: each program leaves "true".          *)

MCInts == {-1, 0, 2}
MCTexts == {<<"1", "2">>}
Small == {-7, -2, -1, 0, 1, 3}
Ints(a, op, b) == <<PushI(a), PushI(b), <<op>>>>

\* (a / b) * b + a % b = a
DivLaw(a, b) == Ints(a, "DIV", b) \o <<PushI(b), <<"MUL">>>> \o Ints(a, "MOD", b)
                \o <<<<"ADD">>, PushI(a), <<"EQU">>, <<"HALT">>>>
\* |a % b| < |b|, as (a % b) * (a % b) < b * b, and a % b has the sign of a
ModLaw(a, b) == Ints(a, "MOD", b) \o Ints(a, "MOD", b) \o <<<<"MUL">>>>
                \o Ints(b, "MUL", b) \o <<<<"LT">>>>
                \o Ints(a, "MOD", b) \o <<PushI(a), <<"MUL">>, PushI(0), <<"GEQU">>,
                                        <<"AND">>, <<"HALT">>>>
\* ~(a & b) = ~a | ~b
MorganLaw(a, b) == Ints(a, "BINAND", b) \o <<<<"BINNOT">>, PushI(a), <<"BINNOT">>,
                   PushI(b), <<"BINNOT">>, <<"BINOR">>, <<"EQU">>, <<"HALT">>>>
\* a ^ b = (a | b) - (a & b)
XorLaw(a, b) == Ints(a, "BINXOR", b) \o Ints(a, "BINOR", b) \o Ints(a, "BINAND", b)
                \o <<<<"SUB">>, <<"EQU">>, <<"HALT">>>>
\* rotating forth and back
RotateLaw(a, b) == Ints(a, "ROTL", b) \o <<PushI(b), <<"ROTR">>, PushI(a), <<"EQU">>,
                   <<"HALT">>>>
\* a << b is a * 2 ** b and a >> b rounds down: (a >> b) << b <= a
ShiftLaw(a, b) == Ints(a, "SHL", b) \o <<PushI(a)>> \o Ints(2, "POW", b)
                  \o <<<<"MUL">>, <<"EQU">>>> \o Ints(a, "SHR", b)
                  \o <<PushI(b), <<"SHL">>, PushI(a), <<"LEQU">>, <<"AND">>,
                       <<"HALT">>>>
\* exactly one of a < b, a = b, a > b; and >= is the negation of <
OrderLaw(a, b) == Ints(a, "LT", b) \o Ints(a, "EQU", b) \o <<<<"XOR">>>>
                  \o Ints(a, "GT", b) \o <<<<"XOR">>>> \o Ints(a, "GEQU", b)
                  \o Ints(a, "LT", b) \o <<<<"NOT">>>>
                  \o <<<<"TOI">>, <<"TOB">>, <<"XOR">>, <<"NOT">>, <<"AND">>,
                       <<"HALT">>>>

LawOf(law, a, b) ==
  CASE law = "div" -> DivLaw(a, b) [] law = "mod" -> ModLaw(a, b)
    [] law = "morgan" -> MorganLaw(a, b) [] law = "xor" -> XorLaw(a, b)
    [] law = "rotate" -> RotateLaw(a, b) [] law = "shift" -> ShiftLaw(a, b)
    [] law = "order" -> OrderLaw(a, b)

LawNames == ({"div", "mod"} \X Small \X (Small \ {0}))
            \cup ({"morgan", "xor", "rotate", "order"} \X Small \X Small)
            \cup ({"shift"} \X Small \X {0, 1, 3})
LawPrograms == [n \in LawNames |-> Assemble(LawOf(n[1], n[2], n[3]))]
LawResults == [n \in LawNames |-> Leaves(<<BoolVal(TRUE)>>)]

-----------------------------------------------------------------------------
(* Arrays and strings: a variable of three elements with a neighbour on    *)
(* each side is written and read at all indices around its bounds, and at  *)
(* indices around those that an address can hold.                          *)

Arr(xs) == [i \in DOMAIN xs |-> PushI(xs[i])] \o <<AddrVal(Len(xs)), <<"MAKEINTARR">>>>
Text(xs) == <<PushV(StrVal(xs))>>
Load(a) == <<Global(a), <<"RDMEM">>>>
Store(a) == <<Global(a), <<"WRMEM">>>>

Old == [arr |-> <<10, 20, 30>>, str |-> <<"a", "b", "c">>]
New == [arr |-> <<1, 2, 3>>, str |-> <<"x", "y", "z">>]
Type == [arr |-> "INTARR", str |-> "STR"]
Literal(kind, xs) == IF kind = "arr" THEN Arr(xs) ELSE Text(xs)

\* Where the variables are, relative to the global base pointer.
Above == -Pad - 3
VarAt(kind) == Above - Size(<<Type[kind], Old[kind]>>)
Below(kind) == VarAt(kind) - 3

Declare(kind) ==
  <<PushI(-Below(kind) - Pad), <<"ADDFRAME">>, PushI(5)>> \o Store(Above)
  \o <<PushI(6)>> \o Store(Below(kind))
  \o Literal(kind, Old[kind]) \o Store(VarAt(kind))
\* The variable's elements from i to j are overwritten, then read again.
RangeProgram(kind, i, j, n) ==
  Declare(kind) \o <<Global(VarAt(kind))>> \o Literal(kind, SubSeq(New[kind], 1, n))
  \o <<PushI(i), PushI(j), <<"WRARRR">>>>
  \o Load(VarAt(kind)) \o <<PushI(i), PushI(j), <<"RDARRR">>>> \o <<<<"HALT">>>>
FillProgram(i, j) ==
  Declare("arr") \o <<Global(VarAt("arr")), PushI(7), PushI(i), PushI(j), <<"WRARRR">>>>
  \o Load(VarAt("arr")) \o <<PushI(i), PushI(j), <<"RDARRR">>>> \o <<<<"HALT">>>>
ElemProgram(i) ==
  Declare("arr") \o <<Global(VarAt("arr")), PushI(7), PushI(i), <<"WRARR">>>>
  \o Load(VarAt("arr")) \o <<PushI(i), <<"RDARR">>>> \o <<<<"HALT">>>>

\* The reference: index -1 is the last element, 3 the first again.  What is read
\* is visited from i to j, whatever their size; what is written, from what is
\* left of them in an address of 10 bits.
Wrapped(i) == CHOOSE k \in 0 .. 2 : i = k + 3 * ((i - k) \div 3)
Narrow(i) == IF i >= 512 THEN i - 1024 ELSE IF i < -512 THEN i + 1024 ELSE i
Between(p, i, j) == (Wrapped(i) <= p /\ p <= Wrapped(j))
                    \/ (Wrapped(j) <= p /\ p <= Wrapped(i))
Extent(i, j) == Cardinality({p \in 0 .. 2 : Between(p, i, j)})
Distance(i, p) == Cardinality({q \in 0 .. 2 : Between(q, i, p)})
Visited(i, j) == [k \in 1 .. Extent(i, j) |->
                   CHOOSE p \in 0 .. 2 : Between(p, i, j) /\ Distance(i, p) = k]

\* The elements of the variable after writing xs to it from i to j, or x at all of
\* these places.
Written(i, j, old, xs) ==
  [p \in 1 .. 3 |-> IF Between(p - 1, i, j) THEN xs[Distance(i, p - 1)] ELSE old[p]]
Filled(i, j, old, x) == Written(i, j, old, <<x, x, x>>)

\* The value that is read, and below it the variables: the one written, whose
\* elements are "whole" now, is between its neighbours.
Result(kind, read, whole) ==
  Leaves(<<read, IntVal(6), <<Type[kind], whole>>, IntVal(5)>>)
RangeRead(kind, i, j, whole) ==
  Result(kind, <<Type[kind], [k \in 1 .. Extent(i, j) |-> whole[Visited(i, j)[k] + 1]]>>, whole)

Near == -4 .. 4
Far == {-1025, -1023, -514, -513, -512, 511, 512, 513, 1023, 1024}
ArrayNames == ({"arr", "str"} \X Near \X Near \X (2 .. 3))
              \cup ({"arr", "str"} \X Far \X {-1, 0} \X {3})
              \cup ({"fill"} \X Near \X Near \X {0})
              \cup ({"fill"} \X {0, 1} \X Far \X {0})
              \cup ({"elem"} \X (Near \cup Far) \X {0} \X {0})

ArrayProgram(k, i, j, n) ==
  CASE k \in {"arr", "str"} -> RangeProgram(k, i, j, n)
    [] k = "fill" -> FillProgram(i, j) [] k = "elem" -> ElemProgram(i)
ArrayResult(k, i, j, n) ==
  LET from == Narrow(i)  to == Narrow(j)
  IN CASE k \in {"arr", "str"} /\ n < Extent(from, to) -> Failing
       [] k \in {"arr", "str"} /\ n >= Extent(from, to) ->
            RangeRead(k, i, j, Written(from, to, Old[k], New[k]))
       [] k = "fill" -> RangeRead("arr", i, j, Filled(from, to, Old["arr"], 7))
       [] k = "elem" -> LET whole == Filled(from, from, Old["arr"], 7)
                        IN Result("arr", IntVal(whole[Wrapped(i) + 1]), whole)

ArrayPrograms == [n \in ArrayNames |-> Assemble(ArrayProgram(n[1], n[2], n[3], n[4]))]
ArrayResults == [n \in ArrayNames |-> ArrayResult(n[1], n[2], n[3], n[4])]

-----------------------------------------------------------------------------
(* Laws of vectors and matrices: each program leaves "true".               *)

Sizes(r1, c1, r2, c2) ==
  <<PushI(r1), PushI(c1), PushI(r2), PushI(c2), <<"MATMUL">>>>
\* (A B) v = A (B v) for 2 x 2 matrices, products by columns of different sizes
AssocLaw(a, b, v) ==
  Arr(a) \o Arr(b) \o Sizes(2, 2, 2, 2) \o Arr(v) \o Sizes(2, 2, 2, 1)
  \o Arr(a) \o Arr(b) \o Arr(v) \o Sizes(2, 2, 2, 1) \o Sizes(2, 2, 2, 1)
  \o <<<<"EQU">>, <<"HALT">>>>
\* the inner product of v and w is the 1 x 1 matrix v w
DotLaw(v, w) ==
  Arr(v) \o Arr(w) \o Sizes(1, 2, 2, 1) \o <<PushI(0), <<"RDARR">>>>
  \o Arr(v) \o Arr(w) \o <<<<"MUL">>, <<"EQU">>, <<"HALT">>>>
\* s (v + w) = s v + w s, and -v = 0 - v with a scalar filled up to a vector
ScaleLaw(s, v, w) ==
  <<PushI(s)>> \o Arr(v) \o Arr(w) \o <<<<"ADD">>, <<"MUL">>, PushI(s)>> \o Arr(v)
  \o <<<<"MUL">>>> \o Arr(w) \o <<PushI(s), <<"MUL">>, <<"ADD">>, <<"EQU">>>>
  \o Arr(v) \o <<<<"USUB">>, PushI(0), AddrVal(2), <<"TOINTARR">>>> \o Arr(v)
  \o <<<<"SUB">>, <<"EQU">>, <<"AND">>, <<"HALT">>>>

VectorNames == {"assoc", "dot", "scale"} \X {-2, 0, 1} \X {-1, 3} \X {0, 2}
VectorPrograms == [n \in VectorNames |-> Assemble(
  LET x == n[2]  y == n[3]  z == n[4]
  IN CASE n[1] = "assoc" -> AssocLaw(<<x, 1, y, 2>>, <<z, x, 3, y>>, <<y, z>>)
       [] n[1] = "dot" -> DotLaw(<<x, y>>, <<z, 3>>)
       [] n[1] = "scale" -> ScaleLaw(x, <<y, z>>, <<4, y>>))]
VectorResults == [n \in VectorNames |-> Leaves(<<BoolVal(TRUE)>>)]

-----------------------------------------------------------------------------
(* Calls.                                                                  *)

Arg(n) == <<<<"push", <<"ADDR_BP", 2 * (1 + AddrSize) + n>>>>, <<"RDMEM">>>>
Var == <<"push", <<"ADDR_BP", -3>>>>
Call_(name, framesize) == <<PushI(framesize), Label(name), <<"CALL">>>>
Return(framesize, args) == <<PushI(framesize), PushI(args), <<"RET">>>>

\* f sets its local variable to its first argument, and returns the sum and the
\* difference of that variable and its second argument.
TwoResults(a, b) ==
  <<PushI(1), PushI(b), PushI(a)>> \o Call_("f", 3) \o <<<<"HALT">>, Here("f")>>
  \o Arg(0) \o <<Var, <<"WRMEM">>>>
  \o <<Var, <<"RDMEM">>>> \o Arg(3) \o <<<<"ADD">>>>
  \o <<Var, <<"RDMEM">>>> \o Arg(3) \o <<<<"SUB">>>> \o Return(3, 2)

\* f(n) is n + f(n - 1), and f(0) is 0; main has a frame while it calls f, and f
\* keeps n in its frame during the recursion.
Recursive(n) ==
  <<PushI(5), <<"ADDFRAME">>, PushI(n)>> \o Call_("f", 3)
  \o <<Global(-Pad - 3), <<"WRMEM">>, PushI(2), <<"REMFRAME">>, <<"HALT">>, Here("f")>>
  \o Arg(0) \o <<Var, <<"WRMEM">>, PushI(0)>>
  \o Arg(0) \o <<PushI(0), <<"LEQU">>, Label("end"), <<"JMPCND">>>>
  \o Arg(0) \o <<PushI(1), <<"SUB">>>> \o Call_("f", 3)
  \o <<Var, <<"RDMEM">>, <<"ADD">>, <<"ADD">>, Here("end")>> \o Return(3, 1)

\* A function that calls itself for ever, with k values on its stack and a frame
\* of n bytes.
Endless(k, n) ==
  <<PushI(7), <<"ADDFRAME">>>> \o Call_("f", n) \o <<<<"HALT">>, Here("f")>>
  \o [i \in 1 .. k |-> PushI(9)] \o Call_("f", n)

\* A jump to address n beyond the end of memory goes to address n, which is
\* that of the "1" here.
WrapAround(n) == <<AddrVal(MemSize + n), <<"JMP">>, <<"HALT">>, <<"HALT">>, PushI(1),
                   <<"HALT">>>>

\* A variable n counts down in steps of k while it is positive.
CountDown(n, k) ==
  <<PushI(3), <<"ADDFRAME">>, PushI(n)>> \o Store(-Pad - 3) \o <<Here("loop")>>
  \o Load(-Pad - 3) \o <<PushI(0), <<"GT">>, <<"NOT">>, Label("end"), <<"JMPCND">>>>
  \o Load(-Pad - 3) \o <<PushI(k), <<"SUB">>>> \o Store(-Pad - 3)
  \o <<Label("loop"), <<"JMP">>, Here("end")>> \o Load(-Pad - 3) \o <<<<"HALT">>>>

\* A byte that is no opcode.
BadOpcode == <<PushI(1), <<"INVALID">>>>

CallNames == ({"two"} \X {-3, 4} \X {0, 5}) \cup ({"rec"} \X (0 .. 4) \X {0})
             \cup ({"endless"} \X (0 .. 3) \X (0 .. 6)) \cup ({"down"} \X {4, 5} \X {2})
             \cup {<<"wrap", 7, 0>>, <<"bad", 0, 0>>, <<"down", 0, 0>>}
CallPrograms == [n \in CallNames |-> Assemble(
  CASE n[1] = "two" -> TwoResults(n[2], n[3]) [] n[1] = "rec" -> Recursive(n[2])
    [] n[1] = "endless" -> Endless(n[2], n[3]) [] n[1] = "down" -> CountDown(n[2], n[3])
    [] n[1] = "wrap" -> WrapAround(n[2]) [] n[1] = "bad" -> BadOpcode)]
CallResults == [n \in CallNames |->
  CASE n[1] = "two" -> Leaves(<<IntVal(n[2] + n[3]), IntVal(n[2] - n[3]), IntVal(1)>>)
    [] n[1] = "rec" -> Leaves(<<IntVal((n[2] * (n[2] + 1)) \div 2)>>)
    [] n[1] = "endless" -> Failing
    [] n[1] = "down" -> Leaves(Copies(2, IntVal(-(n[2] % 2))))
    [] n[1] = "wrap" -> Leaves(<<IntVal(1)>>)
    [] n[1] = "bad" -> {<<"invalid", <<>>>>}]

-----------------------------------------------------------------------------
(* Interrupts.                                                             *)

\* main installs a routine that does nothing and computes "41 + 1".
Interrupted ==
  <<<<"addr", "isr">>, PushI(0)>> \o Extern("set_isr")
  \o <<PushI(0), <<"NOP">>, PushI(41), PushI(1), <<"ADD">>, <<"HALT">>, Here("isr")>>
  \o Return(0, 0)

IrqPrograms == [n \in {"interrupted"} |-> Assemble(Interrupted)]
IrqResults == [n \in {"interrupted"} |-> Leaves(<<IntVal(42), IntVal(0)>>)]
IrqSet == {0, 1}

\* An interrupt routine does not disturb the program it interrupts: a routine
\* that does nothing leaves the program's result as it is.
InterruptTransparent == EndsAsExpected

-----------------------------------------------------------------------------
(* External functions, called with arguments of the declared types or with *)
(* arguments that they convert.                                            *)

Samples == [REAL |-> <<Number("REAL"), IntVal(3)>>, INT |-> <<IntVal(3), Number("REAL")>>,
            STR |-> <<StrVal(<<"a", "b">>), IntVal(3)>>]

\* exp, real_to_string and integer_to_string are declared, but CallExternal does
\* not know them; fabs takes its argument as it is.
Implemented == DOMAIN Declared \ {"exp", "real_to_string", "integer_to_string"}
ExtNames == {<<f, k>> : f \in Implemented, k \in 1 .. 2} \ {<<"fabs", 2>>}
ExtProgram(f, k) ==
  LET args == Declared[f].args
  IN <<PushI(6)>> \o [i \in DOMAIN args |-> PushV(Samples[args[Len(args) - i + 1]][k])]
     \o Extern(f) \o <<<<"HALT">>>>

\* An external function that the machine implements takes its arguments off the
\* stack, also when it converts them there first, and leaves what the compiler has
\* been told of it: one result of the declared type, or nothing.
Balanced ==
  prog \in ExtNames /\ status # "running" =>
    /\ status = "halted"
    /\ [i \in DOMAIN Stack |-> Stack[i][1]] = Declared[prog[1]].result \o <<"INT">>

ExtPrograms == [n \in ExtNames |-> Assemble(ExtProgram(n[1], n[2]))]

\* Functions whose result or effect shows what the argument was converted to.
ConvNames == {"conv"} \X {"to_string", "strlen", "set_isr"}
ConvPrograms == [n \in ConvNames |-> Assemble(
  <<PushI(6)>>
  \o (IF n[2] = "set_isr" THEN <<AddrVal(0), PushV(Number("REAL"))>> ELSE <<PushI(3)>>)
  \o Extern(n[2]) \o <<<<"HALT">>>>)]
ConvResults == [n \in ConvNames |->
  CASE n[2] = "to_string" -> Leaves(<<StrVal(<<"1", "2">>), IntVal(6)>>)
    [] n[2] = "strlen" -> Leaves(<<IntVal(2), IntVal(6)>>)
    [] n[2] = "set_isr" -> Leaves(<<IntVal(6)>>) \cup {<<"undefined", <<>>>>}]

-----------------------------------------------------------------------------
(* All programs that run without interrupts.  What external functions       *)
(* return is up to Balanced.                                               *)

AllPrograms == LawPrograms @@ VectorPrograms @@ ArrayPrograms @@ CallPrograms @@ ExtPrograms
               @@ ConvPrograms
AllResults == LawResults @@ VectorResults @@ ArrayResults @@ CallResults
              @@ ConvResults
=============================================================================
