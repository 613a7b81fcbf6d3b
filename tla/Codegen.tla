-------------------------------- MODULE Codegen --------------------------------
(***************************************************************************)
(* The code generator (codegen/*.cpp): a visitor of the syntax tree that   *)
(* writes the bytes of the program, keeps the positions of addresses that  *)
(* are not yet known, and fills them in later.                             *)
(*                                                                         *)
(* Gen(n, g) is the visit of the node n: it maps the state g of the        *)
(* generator to the state it leaves.  g.ret is what the visit returns, the *)
(* symbol that stands for the type of the value on the stack, <<>> for a   *)
(* null pointer.  g.err is set when an exception is thrown ("throws") or   *)
(* the code does what C++ leaves undefined ("undefined").                  *)
(***************************************************************************)
EXTENDS VMValues, Grammar, Opt

\* The state: the code, the symbols, the scope, the sizes of the frames so far
\* (m_local_stack, m_global_stack), the calls, results, and gotos to be filled
\* in (m_func_comefroms, m_pushret_comefroms, m_goto_comefroms), the labels, the
\* constants with the places that refer to them, and the loops.
Generator(syms) ==
  [code |-> <<>>, syms |-> syms, scope |-> <<>>, ret |-> <<>>, err |-> "",
   local |-> <<>>, global |-> 0, calls |-> <<>>, rets |-> <<>>, gotos |-> <<>>,
   labels |-> <<>>, pool |-> <<>>, consts |-> <<>>, constRefs |-> <<>>,
   loopIdent |-> 0, loops |-> <<>>, nexts |-> <<>>, breaks |-> <<>>]

Fails(g, how) == [g EXCEPT !.err = how]

\* The rest of a visit is done unless there was an exception.
Do(g, A(_)) == IF g.err # "" THEN g ELSE A(g)

\* What a visit returns: a symbol, of which the types and dimensions are used.
Returning(g, sym) == [g EXCEPT !.ret = <<sym>>]
ReturningNull(g) == [g EXCEPT !.ret = <<>>]

-----------------------------------------------------------------------------
(* Writing the code.                                                       *)

Pos(g) == Len(g.code)
EmitOp(g, op) == [g EXCEPT !.code = @ \o Bytes(<<"op", op>>)]
EmitPush(g, v) == [g EXCEPT !.code = @ \o Bytes(<<"op", "PUSH">>) \o Encode(v)]
EmitOps(g, ops) == InOrder(EmitOp, g, ops)
PushInt(g, n) == EmitPush(g, IntVal(n))

\* Where the address of a jump begins that is pushed next.
AddrPos(g) == Pos(g) + 2
PushAddress(g) == EmitPush(g, <<"ADDR_IP", 0>>)
Jump(g, op) == EmitOp(PushAddress(g), op)

WriteAddr(code, pos, addr) ==
  SubSeq(code, 1, pos) \o Bytes(<<"addr", addr>>)
  \o SubSeq(code, pos + AddrSize + 1, Len(code))

\* The address at pos is the way from the end of the jump there to "target".
Patch(g, pos, target) ==
  [g EXCEPT !.code = WriteAddr(@, pos, target - pos - (1 + AddrSize))]
PatchAll(g, places, target) ==
  InOrder(LAMBDA h, pos : Patch(h, pos, target), g, places)

-----------------------------------------------------------------------------
(* Symbols.                                                                *)

TypeSym(type) == Symbol(<<>>, "", type, <<1>>)

\* GetTypeConst
Scalars == {"REAL", "INT", "CPLX", "QUAT", "BOOL", "STR"}
TypeConst(type) == IF type \in Scalars \cup ArrayTypes THEN <<TypeSym(type)>> ELSE <<>>

TotalFrom(dims, k) == InOrder(LAMBDA x, y : x * y, 1, SubSeq(dims, k, Len(dims)))
TotalSize(sym) == TotalFrom(sym.dims, 1)

\* GetSymSize
SymSize(sym) ==
  1 + CASE sym.ty = "STR" -> AddrSize + sym.dims[1]
        [] sym.ty \in ArrayTypes -> AddrSize + TotalSize(sym) * ElemSize(sym.ty)
        [] OTHER -> ElemSize(sym.ty)

RECURSIVE SizeOf(_, _)
SizeOf(keys, syms) ==
  IF keys = {} THEN 0
  ELSE LET key == CHOOSE k \in keys : TRUE
       IN SymSize(syms[key]) + SizeOf(keys \ {key}, syms)

\* GetStackFrameSize: what is in a scope and neither an argument nor a function.
FrameSize(g, scope) ==
  LET locals == {key \in DOMAIN g.syms :
                   /\ g.syms[key].scope = scope
                   /\ g.syms[key].arg = -1 /\ g.syms[key].ty # "FUNC"}
  IN SizeOf(locals, g.syms)

\* GetSym: the key of the symbol in the current scope, or else of the global one;
\* scopes in between are not searched.  It throws if there is none, so the checks
\* for a null pointer that follow its calls never fire.
Keys(g, name) ==
  SelectSeq(<<Append(g.scope, name), <<name>>>>, LAMBDA key : key \in DOMAIN g.syms)
FuncKeys(g, name) == SelectSeq(Keys(g, name), LAMBDA key : g.syms[key].ty = "FUNC")
WithKey(g, keys, A(_)) == IF keys = <<>> THEN Fails(g, "throws") ELSE A(keys[1])
WithSym(g, name, A(_)) == WithKey(g, Keys(g, name), A)

\* A variable with an address.
WithVar(g, name, A(_)) ==
  WithSym(g, name, LAMBDA key :
    IF g.syms[key].addr = <<>> THEN Fails(g, "throws") ELSE A(g.syms[key]))

-----------------------------------------------------------------------------
(* Variables and constants.                                                *)

PushVarAddr(g, sym) ==
  EmitPush(g, <<IF sym.global THEN "ADDR_GBP" ELSE "ADDR_BP", sym.addr[1]>>)

\* PushVar
PushVar(g, name) ==
  WithVar(g, name, LAMBDA sym :
    LET h == PushVarAddr(g, sym)
    IN Returning(IF sym.ty = "FUNC" THEN h ELSE EmitOp(h, "RDMEM"), sym))

\* AssignVar
AssignVar(g, sym) == EmitOp(PushVarAddr(g, sym), "WRMEM")

CastOp == [REAL |-> "TOR", INT |-> "TOI", CPLX |-> "TOC", QUAT |-> "TOQ", STR |-> "TOS",
           BOOL |-> "TOB"]
CastArrOp == [REALARR |-> "TOREALARR", INTARR |-> "TOINTARR", CPLXARR |-> "TOCPLXARR",
              QUATARR |-> "TOQUATARR"]

\* CastTo at the end of the code: a type without a cast gives a NOP.
OpFor(type) == IF type \in DOMAIN CastOp THEN CastOp[type] ELSE "NOP"
CastScalar(g, sym) == EmitOp(g, OpFor(sym.ty))
CastAny(g, sym) ==
  IF sym.ty \in ArrayTypes
    THEN EmitOp(EmitPush(g, <<"ADDR_MEM", TotalSize(sym)>>), CastArrOp[sym.ty])
  ELSE CastScalar(g, sym)

\* CastTo at a position that holds a NOP.
CastAt(g, pos, sym) == [g EXCEPT !.code[pos + 1] = Bytes(<<"op", OpFor(sym.ty)>>)[1]]

\* ConstTab::AddConst and the push of a constant's address, which is relative to
\* the constants' table until Finish.
Constant(g, v) ==
  LET known == v \in DOMAIN g.consts
      at == IF known THEN g.consts[v] ELSE Len(g.pool)
      added == [g EXCEPT !.consts = (v :> at) @@ @,
                         !.pool = IF known THEN @ ELSE @ \o Encode(v),
                         !.constRefs = Append(@, <<AddrPos(g), at>>)]
  IN EmitOp(PushAddress(added), "RDMEM")

PushStr(g, text) == Constant(g, StrVal(text))

MakeOp == [REALARR |-> "MAKEREALARR", INTARR |-> "MAKEINTARR", CPLXARR |-> "MAKECPLXARR",
           QUATARR |-> "MAKEQUATARR"]
MakeArray(g, type, n) == EmitOp(EmitPush(g, <<"ADDR_MEM", n>>), MakeOp[type])

\* The value of a variable without an initialiser.
Default(type) == IF type = "BOOL" THEN BoolVal(FALSE) ELSE <<type, 0>>
PushDefault(g, sym) ==
  CASE sym.ty = "STR" -> PushStr(g, <<>>)
    [] sym.ty \in ArrayTypes ->
         MakeArray(InOrder(EmitPush, g, Copies(TotalSize(sym), Default(Elem[sym.ty]))),
                   sym.ty, TotalSize(sym))
    [] OTHER -> EmitPush(g, Default(sym.ty))

-----------------------------------------------------------------------------
(* Types of operands.                                                      *)

\* GetCastSymType: the casts of the first and of the second operand, and the type
\* of the result.  A function stands for its result's type only in what is
\* returned, not in the comparisons of types.
Widening == {<<"INT", "REAL">>, <<"INT", "CPLX">>, <<"REAL", "CPLX">>, <<"INT", "STR">>,
             <<"REAL", "STR">>}
Fills == [REALARR |-> {"REAL", "INT"}, INTARR |-> {"INT", "REAL"},
          CPLXARR |-> {"CPLX", "REAL", "INT"}]
Fillable(arr, type) == arr \in DOMAIN Fills /\ type \in Fills[arr]
FillCast(arr, type) == IF type = Elem[arr] THEN <<>> ELSE TypeConst(Elem[arr])

Casts(first, second, result) == [first |-> first, second |-> second, result |-> result]
Value(t) == IF t[1].ty = "FUNC" THEN TypeConst(t[1].retty) ELSE t

\* Faulty variant: the second operand is always cast to the type of the first.
CastTypesFirst(t1, t2) ==
  IF t1 = <<>> \/ t2 = <<>> THEN Casts(<<>>, <<>>, <<>>) ELSE Casts(<<>>, Value(t1), Value(t1))

CastTypes(t1, t2) ==
  IF t1 = <<>> \/ t2 = <<>> THEN Casts(<<>>, <<>>, <<>>)
  ELSE LET ty1 == t1[1].ty  ty2 == t2[1].ty  v1 == Value(t1)  v2 == Value(t2)
       IN CASE ty1 = ty2 -> Casts(<<>>, <<>>, v1)
            [] <<ty1, ty2>> \in Widening -> Casts(v2, <<>>, v2)
            [] <<ty2, ty1>> \in Widening -> Casts(<<>>, v1, v1)
            [] Fillable(ty1, ty2) -> Casts(<<>>, FillCast(ty1, ty2), v1)
            [] Fillable(ty2, ty1) -> Casts(FillCast(ty2, ty1), <<>>, v2)
            [] ty1 = "QUAT" /\ ty2 = "REALARR" -> Casts(<<>>, <<>>, v2)
            [] OTHER -> Casts(<<>>, v1, v1)

\* The casts are made: of the first operand in the place kept for it.
CastTerms(g, pos, casts) ==
  LET first == IF casts.first = <<>> THEN g ELSE CastAt(g, pos, casts.first[1])
      second == IF casts.second = <<>> THEN first ELSE CastScalar(first, casts.second[1])
  IN [second EXCEPT !.ret = casts.result]

\* The sizes of the factors of a product of matrices, <<>> for other products; a
\* vector is a row on the left and a column on the right.
MatrixSizes(t1, t2, result) ==
  IF result = <<>> THEN <<>>
  ELSE LET d1 == t1[1].dims  d2 == t2[1].dims
       IN IF result[1].ty \notin ArrayTypes
             \/ <<Len(d1), Len(d2)>> \notin {<<2, 1>>, <<1, 2>>, <<2, 2>>} THEN <<>>
          ELSE (IF Len(d1) = 1 THEN <<1, d1[1]>> ELSE d1)
               \o (IF Len(d2) = 1 THEN <<d2[1], 1>> ELSE d2)

OpOf == Arithmetic @@ Comparison @@ Logical @@ [not |-> "NOT"]
LogicKinds == {"and", "or", "xor", "not"}
BinaryKinds == DOMAIN OpOf \ LogicKinds

\* The last instructions of a binary operation.
Operation(g, kind, t1, t2) ==
  LET sizes == MatrixSizes(t1, t2, g.ret)
  IN CASE kind = "div" /\ t2 # <<>> /\ t2[1].ty \in ArrayTypes -> Fails(g, "throws")
       [] kind = "mult" /\ sizes = <<>> -> EmitOp(g, "MUL")
       [] kind = "mult" /\ sizes # <<>> -> EmitOp(InOrder(PushInt, g, sizes), "MATMUL")
       [] OTHER -> EmitOp(g, OpOf[kind])

-----------------------------------------------------------------------------
(* The visitors of expressions.                                            *)

RECURSIVE Gen(_, _)
Visit(g, n) == Gen(n, g)
GenAll(ns, g) == InOrder(Visit, g, ns)

GenBinary(n, g) ==
  LET a == Gen(n.kids[1], g)
      b == Gen(n.kids[2], EmitOp(a, "NOP"))
  IN Do(b, LAMBDA h :
       Operation(CastTerms(h, Pos(a), CastTypes(a.ret, h.ret)), n.k, a.ret, h.ret))

GenLogic(n, g) == Do(GenAll(n.kids, g), LAMBDA h : ReturningNull(EmitOp(h, OpOf[n.k])))

\* CallExternal
CallExt(g, name) == EmitOp(PushStr(g, <<name>>), "EXTCALL")
GenNorm(n, g) == Do(Gen(n.kids[1], g), LAMBDA h : CallExt(h, "norm"))

\* ASTAssign: one value is taken off the stack for each of the names.
AssignTo(g, name) ==
  Do(g, LAMBDA h : WithVar(h, name, LAMBDA sym : AssignVar(CastAny(h, sym), sym)))
GenAssign(n, g) ==
  Do(InOrder(AssignTo, Gen(n.kids[1], g), n.v), LAMBDA h :
    Returning(h, h.syms[Keys(h, n.v[1])[1]]))

\* An index is cast to an integer.  The type that is asked for may be null.
GenIndex(n, g) ==
  Do(Gen(n, g), LAMBDA h :
    IF h.ret = <<>> THEN Fails(h, "undefined")
    ELSE IF h.ret[1].ty = "INT" THEN h ELSE EmitOp(h, "TOI"))

\* The position of an element: each index times the number of elements it skips.
Stride(g, n) == IF n > 1 THEN EmitOp(PushInt(g, n), "MUL") ELSE g
GenPosition(indices, dims, g) ==
  IF Len(indices) # Len(dims) THEN Fails(g, "throws")
  ELSE EmitOps(InOrder(LAMBDA h, i : Stride(GenIndex(indices[i], h), TotalFrom(dims, i + 1)),
                        g, Indices(indices)),
               Copies(Len(indices) - 1, "ADD"))

\* GetArrayTypeConst: the types of the elements and of a part of an array.
ElemConst(type) == IF type = "STR" \/ type \in ArrayTypes THEN TypeConst(ElemType(type)) ELSE <<>>

\* ASTArrayAccess: children are the array and its indices.
AccessOf(g, indices, ranged) ==
  LET arr == g.ret[1]
      h == IF ranged THEN EmitOp(InOrder(LAMBDA x, i : GenIndex(i, x), g, indices), "RDARRR")
           ELSE EmitOp(GenPosition(indices, arr.dims, g), "RDARR")
  IN IF h.err # "" THEN h
     ELSE IF ElemConst(arr.ty) = <<>> THEN Fails(h, "throws")
     ELSE [h EXCEPT !.ret = IF ranged THEN TypeConst(arr.ty) ELSE ElemConst(arr.ty)]
GenAccess(n, g) ==
  Do(Gen(n.kids[1], g), LAMBDA h :
    IF h.ret = <<>> THEN Fails(h, "undefined") ELSE AccessOf(h, Tail(n.kids), n.v))

\* ASTArrayAssign: children are the value and the indices.
StoreElem(g, sym, indices) ==
  IF ElemConst(sym.ty) = <<>> THEN Fails(g, "throws")
  ELSE IF g.ret = <<>> THEN Fails(g, "undefined")
  ELSE LET h == IF g.ret[1].ty = sym.ty THEN g ELSE CastScalar(g, ElemConst(sym.ty)[1])
       IN EmitOp(GenPosition(indices, sym.dims, h), "WRARR")
GenArrayAssign(n, g) ==
  WithVar(g, n.v.name, LAMBDA sym :
    LET value == Gen(n.kids[1], PushVarAddr(g, sym))
        indices == Tail(n.kids)
    IN Do(value, LAMBDA h :
         [(IF n.v.ranged
             THEN EmitOp(InOrder(LAMBDA x, i : GenIndex(i, x), h, indices), "WRARRR")
           ELSE StoreElem(h, sym, indices)) EXCEPT !.ret = h.ret]))

\* ASTExprList
GenList(n, g) ==
  LET elem == TypeSym(Elem[n.v])
  IN Do(InOrder(LAMBDA h, kid : Do(Gen(kid, h), LAMBDA x : CastScalar(x, elem)), g, n.kids),
        LAMBDA h : Returning(MakeArray(h, n.v, Len(n.kids)),
                             [TypeSym(n.v) EXCEPT !.dims = <<Len(n.kids)>>]))

\* ASTCall: the arguments are pushed from the last to the first.
CallInt(g, key, name, nargs) ==
  LET h == PushInt(g, FrameSize(g, key))
  IN Jump([h EXCEPT !.calls = Append(@, [name |-> name, pos |-> AddrPos(h), args |-> nargs])],
          "CALL")
GenCall(n, g) ==
  WithKey(g, FuncKeys(g, n.v), LAMBDA key :
    LET func == g.syms[key]
    IN IF Len(n.kids) # Len(func.argty) THEN Fails(g, "throws")
       ELSE Do(GenAll(Reverse(n.kids), g), LAMBDA h :
              Returning(IF func.ext THEN CallExt(h, n.v)
                        ELSE CallInt(h, key, n.v, Len(n.kids)), func)))

-----------------------------------------------------------------------------
(* The visitors of statements.                                             *)

\* ASTVarDecl: the variable goes below those before it in the frame.
Allocate(g, key) ==
  LET size == SymSize(g.syms[key])
      func == Last(g.scope)
      used == size + IF g.scope = <<>> THEN g.global
                     ELSE IF func \in DOMAIN g.local THEN g.local[func] ELSE 0
  IN [g EXCEPT !.syms[key].addr = <<-used>>, !.syms[key].global = g.scope = <<>>,
               !.global = IF g.scope = <<>> THEN used ELSE @,
               !.local = IF g.scope = <<>> THEN @ ELSE (func :> used) @@ @]
Initialise(g, key, init) ==
  IF init # <<>> THEN Gen(init[1], g) ELSE AssignVar(PushDefault(g, g.syms[key]), g.syms[key])
DeclareVar(g, key, n) ==
  LET sym == g.syms[key]
  IN IF sym.arg # -1 THEN g
     ELSE IF \/ sym.ret = -1 /\ n.v.intent # ""
             \/ sym.ret # -1 /\ n.v.intent = "in"
             \/ sym.addr # <<>> THEN Fails(g, "throws")
     ELSE Initialise(Allocate(g, key), key, n.kids)
GenDecl(n, g) ==
  InOrder(LAMBDA h, key : Do(h, LAMBDA x : DeclareVar(x, key, n)), g, n.v.vars)

\* ASTCond
GenCond(n, g) ==
  LET c == EmitOp(Gen(n.kids[1], g), "NOT")
      then == Gen(n.kids[2], Jump(c, "JMPCND"))
      skip == Jump(then, "JMP")
  IN IF Len(n.kids) = 2 THEN Patch(then, AddrPos(c), Pos(then))
     ELSE LET else == Gen(n.kids[3], Patch(skip, AddrPos(c), Pos(skip)))
          IN Patch(else, AddrPos(then), Pos(else))

\* ASTCases: children are the expression, the cases with their blocks, and the
\* default block, if any.  A case ends with a jump to the end of all.
GenCase(a, expr, case, block) ==
  LET c == EmitOps(Gen(case, Gen(expr, a.g)), <<"EQU", "NOT">>)
      body == Gen(block, Jump(c, "JMPCND"))
      end == Jump(body, "JMP")
  IN [g |-> Patch(end, AddrPos(c), Pos(end)), ends |-> Append(a.ends, AddrPos(body))]
GenCases(n, g) ==
  LET count == (Len(n.kids) - 1) \div 2
      a == InOrder(LAMBDA x, i : GenCase(x, n.kids[1], n.kids[2 * i], n.kids[2 * i + 1]),
                    [g |-> g, ends |-> <<>>], [i \in 1 .. count |-> i])
      all == GenAll(SubSeq(n.kids, 2 * count + 2, Len(n.kids)), a.g)
  IN PatchAll(all, a.ends, Pos(all))

\* The part that both kinds of loops end with: the jump back to "begin", the exit
\* of the condition, which is at "exit", and the jumps of "next" and "break".
\* Leaving a loop that is not on the stack is undefined.
JumpsOf(jumps, loop) ==
  LET those == SelectSeq(jumps, LAMBDA j : j[1] = loop) IN [i \in DOMAIN those |-> those[i][2]]
EndLoop(g, loop, begin, exit) ==
  LET back == Patch(Jump(g, "JMP"), AddrPos(g), begin)
      out == Patch(back, exit, Pos(back))
      nexts == PatchAll(out, JumpsOf(g.nexts, loop), begin)
      done == PatchAll(nexts, JumpsOf(g.breaks, loop), Pos(back))
  IN IF g.loops = <<>> THEN Fails(g, "undefined")
     ELSE [done EXCEPT !.loops = SubSeq(@, 1, Len(@) - 1)]

StartLoop(g) ==
  [g EXCEPT !.loopIdent = @ + 1, !.loops = Append(@, g.loopIdent + 1)]

\* ASTLoop
GenLoop(n, g) ==
  LET start == StartLoop(g)
      c == EmitOp(Gen(n.kids[1], start), "NOT")
  IN Do(Gen(n.kids[2], Jump(c, "JMPCND")), LAMBDA h :
       EndLoop(h, start.loopIdent, Pos(g), AddrPos(c)))

\* ASTRangedLoop: children are the first and the last value of the counter, its
\* increment, if any, and the block.
ReadVar(g, sym) == EmitOp(PushVarAddr(g, sym), "RDMEM")
Increment(g, sym, inc) ==
  AssignVar(EmitOp(ReadVar(IF inc = <<>> THEN PushInt(g, 1) ELSE Gen(inc[1], g), sym), "ADD"),
            sym)
GenRanged(n, g) ==
  Do(Gen(n.kids[1], g), LAMBDA first : WithVar(first, n.v, LAMBDA sym :
    LET start == StartLoop(AssignVar(CastAny(first, sym), sym))
        c == EmitOps(Gen(n.kids[2], ReadVar(start, sym)), <<"LEQU", "NOT">>)
        body == Gen(Last(n.kids), Jump(c, "JMPCND"))
    IN Do(Increment(body, sym, SubSeq(n.kids, 3, Len(n.kids) - 1)), LAMBDA h :
         EndLoop(h, start.loopIdent, Pos(start), AddrPos(c)))))

\* ASTLoopBreak and ASTLoopNext: the loop so many levels up, or the outermost.
LoopAt(g, depth) ==
  g.loops[IF depth \in 0 .. Len(g.loops) - 1 THEN Len(g.loops) - depth ELSE 1]

\* Faulty variant: "break" goes to the beginning of the loop.
BreakToBegin(n, g) ==
  IF g.loops = <<>> THEN Fails(g, "throws")
  ELSE Jump([g EXCEPT !.nexts = Append(@, <<LoopAt(g, n.v), AddrPos(g)>>)], "JMP")

GenBreak(n, g) ==
  IF g.loops = <<>> THEN Fails(g, "throws")
  ELSE Jump([g EXCEPT !.breaks = Append(@, <<LoopAt(g, n.v), AddrPos(g)>>)], "JMP")
GenNext(n, g) ==
  IF g.loops = <<>> THEN Fails(g, "throws")
  ELSE Jump([g EXCEPT !.nexts = Append(@, <<LoopAt(g, n.v), AddrPos(g)>>)], "JMP")

\* ASTLabel: the first label of a name counts.  ASTJump
GenLabel(n, g) == [g EXCEPT !.labels = @ @@ (n.v :> Pos(g))]
GenGoto(n, g) == Jump([g EXCEPT !.gotos = Append(@, <<n.v, AddrPos(g)>>)], "JMP")

\* ASTReturn: to where the results of the function are pushed.
GenReturn(g) ==
  IF g.scope = <<>> THEN Fails(g, "throws")
  ELSE Jump([g EXCEPT !.rets = Append(@, AddrPos(g))], "JMP")

\* ASTFunc.  The arguments are above the saved registers of the frame.
ArgAddr(n, g, i) ==
  InOrder(LAMBDA x, name : x + SymSize(g.syms[Keys(g, name)[1]]),
           2 * (1 + AddrSize), SubSeq(n.v.args, 1, i - 1))
PlaceArg(n, g, i) ==
  WithSym(g, n.v.args[i], LAMBDA key :
    LET sym == g.syms[key]
    IN IF sym.addr # <<>> \/ sym.arg # i - 1 \/ sym.ty # n.v.argty[i]
         THEN Fails(g, "throws")
       ELSE [g EXCEPT !.syms[key].addr = <<ArgAddr(n, g, i)>>])
PlaceArgs(n, g) ==
  InOrder(LAMBDA h, i : Do(h, LAMBDA x : PlaceArg(n, x, i)), g,
           Indices(n.v.args))

\* The end of a function: its results are pushed, and RET turns their order round.
PushResult(g, name) == Do(g, LAMBDA h : PushVar(h, name))
EndFunction(g, n, key) ==
  LET results == InOrder(PushResult, g, n.v.rets)
      ret == EmitOp(PushInt(PushInt(results, FrameSize(g, key)), Len(n.v.args)), "RET")
  IN Do(PatchAll(ret, g.rets, Pos(g)), LAMBDA h : [h EXCEPT !.rets = <<>>])

GenFunc(n, g) ==
  LET skip == Jump([g EXCEPT !.scope = Append(@, n.v.name)], "JMP")
  IN Do(PlaceArgs(n, skip), LAMBDA a : WithSym(a, n.v.name, LAMBDA key :
       Do(Gen(n.kids[1], [a EXCEPT !.syms[key].addr = <<Pos(a)>>]), LAMBDA body :
         Do(EndFunction(body, n, key), LAMBDA end :
           [Patch(end, AddrPos(g), Pos(end)) EXCEPT !.loops = <<>>, !.scope = g.scope]))))

-----------------------------------------------------------------------------
(* The whole program.                                                      *)

Gen(n, g) ==
  IF g.err # "" THEN g
  ELSE CASE n.k = "const" -> Returning(EmitPush(g, n.v), TypeSym(n.v[1]))
         [] n.k = "str" -> Returning(PushStr(g, n.v), TypeSym("STR"))
         [] n.k = "var" -> PushVar(g, n.v)
         [] n.k = "assign" -> GenAssign(n, g)
         [] n.k \in BinaryKinds -> GenBinary(n, g)
         [] n.k \in LogicKinds -> GenLogic(n, g)
         [] n.k = "norm" -> GenNorm(n, g)
         [] n.k = "access" -> GenAccess(n, g)
         [] n.k = "arrassign" -> GenArrayAssign(n, g)
         [] n.k = "list" -> GenList(n, g)
         [] n.k = "call" -> GenCall(n, g)
         [] n.k = "block" -> ReturningNull(GenAll(n.kids, g))
         [] n.k = "decl" -> GenDecl(n, g)
         [] n.k = "if" -> ReturningNull(GenCond(n, g))
         [] n.k = "select" -> ReturningNull(GenCases(n, g))
         [] n.k = "while" -> ReturningNull(GenLoop(n, g))
         [] n.k = "do" -> ReturningNull(GenRanged(n, g))
         [] n.k = "break" -> ReturningNull(GenBreak(n, g))
         [] n.k = "next" -> ReturningNull(GenNext(n, g))
         [] n.k = "label" -> ReturningNull(GenLabel(n, g))
         [] n.k = "goto" -> ReturningNull(GenGoto(n, g))
         [] n.k = "comefrom" -> Fails(g, "throws")
         [] n.k = "broken" -> Fails(g, "undefined")
         [] n.k = "return" -> ReturningNull(GenReturn(g))
         [] n.k = "func" -> ReturningNull(GenFunc(n, g))

\* Codegen::Start, without a start function (START_FUNC is empty), and the end of
\* the code in Codegen::Finish.
\* Faulty variant: the global variables have no frame.
NoGlobalFrame(g, op) == g

GlobalFrame(g, op) ==
  IF FrameSize(g, <<>>) = 0 THEN g ELSE EmitOp(PushInt(g, FrameSize(g, <<>>)), op)

\* The places are filled in.  Functions are looked up in the global scope.
PatchConsts(g, table) ==
  InOrder(LAMBDA h, r : Patch(h, r[1], table + r[2]), g, g.constRefs)
PatchCall(g, call) ==
  Do(g, LAMBDA h : WithVar(h, call.name, LAMBDA func :
    IF Len(func.argty) # call.args THEN Fails(h, "throws")
    ELSE Patch(h, call.pos, func.addr[1])))
PatchGoto(g, goto) ==
  IF goto[1] \in DOMAIN g.labels THEN Patch(g, goto[2], g.labels[goto[1]])
  ELSE Fails(g, "throws")

Finish(g) ==
  LET code == EmitOp(GlobalFrame(g, "REMFRAME"), "HALT")
      table == [code EXCEPT !.code = @ \o g.pool]
  IN InOrder(PatchGoto,
              InOrder(PatchCall, PatchConsts(table, Pos(code)), g.calls),
              g.gotos)

Generate(ast, syms) ==
  Do(Gen(ast, GlobalFrame(Generator(syms), "ADDFRAME")), Finish)

\* The compiler: the source program is a block, its tree is optimised on demand
\* (option -O) and generated from the symbols of the external functions.
Compile(source, externals, opt) ==
  LET c == Parse(source, Context(externals))
      ast == IF opt THEN Optimise(c.node) ELSE c.node
  IN IF c.err # "" THEN Fails(Generator(c.syms), c.err) ELSE Generate(ast, c.syms)
=============================================================================
