-------------------------------- MODULE Grammar --------------------------------
(***************************************************************************)
(* The semantic rules of the parser (parser/*.cpp) with the context they   *)
(* work on (ParserContext, common/context.h) and its symbol table (SymTab, *)
(* common/sym.cpp): from a source program to the syntax tree and the       *)
(* symbols that the code generator is given.                               *)
(*                                                                         *)
(* The lexer and the table-driven parser are left out: a source program is *)
(* given as the tree of the productions it consists of, whose rules are    *)
(* applied in the order an LR parser reduces them, children first and from *)
(* left to right.  What rules for a prefix of a production do (entering a  *)
(* function, setting the declared type) is done before.                    *)
(***************************************************************************)
EXTENDS Integers, Sequences, SequencesExt, TLC

CONSTANT DefaultStringSize \* default_string_size, 128 in the code

\* A tree: the kind of the node, its attributes, its children.
Node(kind, attributes, kids) == [k |-> kind, v |-> attributes, kids |-> kids]
Leaf(kind, attributes) == Node(kind, attributes, <<>>)

\* The elements of a sequence are taken one after the other: FoldLeft, as a
\* recursive function of the position, which TLC evaluates for long sequences too.
InOrder(Step(_, _), start, s) ==
  LET upTo[i \in 0 .. Len(s)] == IF i = 0 THEN start ELSE Step(upTo[i - 1], s[i])
  IN upTo[Len(s)]
Indices(s) == [i \in DOMAIN s |-> i]

-----------------------------------------------------------------------------
(* Symbols.  The table maps scoped names, sequences of names here, to      *)
(* symbols.  "arg" and "ret" are the index of an argument or result, or    *)
(* -1; elems are the types of a function's results; addr is <<>> until the *)
(* code generator sets it.                                                 *)

Symbol(scope, name, type, dims) ==
  [scope |-> scope, name |-> name, ty |-> type, dims |-> dims, arg |-> -1, ret |-> -1,
   argty |-> <<>>, retty |-> "VOID", elems |-> <<>>, ext |-> FALSE, tmp |-> FALSE,
   global |-> FALSE, addr |-> <<>>]

\* SymTab::AddFunc: a name that is already taken keeps its symbol.
AddFunc(syms, scope, name, ret, argtypes, rettypes, external) ==
  LET func == [Symbol(scope, name, "FUNC", <<1>>) EXCEPT
                 !.argty = argtypes, !.retty = ret, !.elems = rettypes, !.ext = external]
      key == Append(scope, name)
  IN IF key \in DOMAIN syms THEN syms ELSE (key :> func) @@ syms

\* The context: the current scope, the symbols, the type and dimensions of the
\* symbols that are being declared, and what the last operation returned (sym,
\* node).  err tells if parsing was given up ("throws") or went on through a
\* null pointer ("undefined").
Context(syms) ==
  [scope |-> <<>>, syms |-> syms, symtype |-> "REAL", symdims |-> <<1>>,
   sym |-> <<>>, node |-> <<>>, err |-> ""]

InScope(c, name) == Append(c.scope, name)

\* ParserContext::AddScopedSymbol.  The name of a function in the same scope
\* gives a temporary symbol; a known name gets the current type, and passes it
\* on to its function if it is an argument.
WithType(c, key) == [c.syms[key] EXCEPT !.ty = c.symtype, !.dims = c.symdims]
Retyped(c, key) ==
  LET sym == WithType(c, key)
      known == [c EXCEPT !.syms[key] = sym, !.sym = <<sym>>]
  IN IF sym.arg = -1 THEN known
     ELSE IF c.scope \notin DOMAIN c.syms \/ sym.arg >= Len(c.syms[c.scope].argty)
       THEN [known EXCEPT !.sym = <<>>]
     ELSE [known EXCEPT !.syms[c.scope].argty[sym.arg + 1] = sym.ty]

AddScopedSymbol(c, name) ==
  LET key == InScope(c, name)
      new == Symbol(c.scope, name, c.symtype, c.symdims)
  IN IF key \notin DOMAIN c.syms
       THEN [c EXCEPT !.syms = (key :> new) @@ @, !.sym = <<new>>]
     ELSE IF c.syms[key].ty = "FUNC" THEN [c EXCEPT !.sym = <<[new EXCEPT !.tmp = TRUE]>>]
     ELSE Retyped(c, key)

-----------------------------------------------------------------------------
(* Declarations of variables.                                              *)

\* The types a declaration may name, and what it does with their dimensions:
\* only arrays and strings set them, scalars keep those of the declaration
\* before.  The rules for complex and quaternion arrays expect a list of
\* dimensions where their production has a single number, a null pointer.
SetSymType(c, type, dims) ==
  IF type \in {"CPLXARR", "QUATARR"} THEN [c EXCEPT !.err = "undefined"]
  ELSE [c EXCEPT !.symtype = type,
          !.symdims = IF type \in {"REALARR", "INTARR"} THEN dims
                      ELSE IF type = "STR" /\ dims = <<>> THEN <<DefaultStringSize>>
                      ELSE IF type = "STR" THEN dims ELSE @]

\* CheckSymbolForConflicts, for a temporary symbol: a declaration repeating the
\* type of a function's (first) result is ignored.
Conflicting(c, sym) ==
  LET func == c.syms[<<sym.name>>]
  IN /\ <<sym.name>> \in DOMAIN c.syms /\ func.ty = "FUNC"
     /\ sym.ty # IF func.retty = "COMP" /\ func.elems # <<>> THEN func.elems[1] ELSE func.retty

\* A variable of a declaration.  Temporary and null symbols are not declared.
Variable(a, name) ==
  LET c == AddScopedSymbol(a.c, name)
  IN IF c.sym = <<>> THEN [a EXCEPT !.c = c]
     ELSE IF ~c.sym[1].tmp THEN [c |-> c, vars |-> <<InScope(c, name)>> \o a.vars]
     ELSE [a EXCEPT !.c = IF Conflicting(c, c.sym[1]) THEN [c EXCEPT !.err = "throws"] ELSE c]

\* The list of variables is reduced from its end.
Variables(names, c) == InOrder(Variable, [c |-> c, vars |-> <<>>], Reverse(names))

\* A declaration is a node with its type, dimensions, names and intent; its child
\* is the expression assigned to the last name, if any.
Declaration(n, kids, c) ==
  LET a == Variables(n.v.names, c)
      last == <<n.v.names[Len(n.v.names)]>>
  IN [a.c EXCEPT !.node = Node("decl", [vars |-> a.vars, intent |-> n.v.intent],
                               IF kids = <<>> THEN <<>> ELSE <<Node("assign", last, kids)>>)]

-----------------------------------------------------------------------------
(* Functions.                                                              *)

\* The names of arguments (field "arg") or results ("ret") become symbols of the
\* function's scope, with whatever type was declared last.
Register(c, names, field) ==
  InOrder(LAMBDA a, i :
             LET b == AddScopedSymbol(a, names[i])
                 key == InScope(b, names[i])
             IN IF b.sym = <<>> THEN [b EXCEPT !.err = "undefined"]
                ELSE IF b.sym[1].tmp THEN b
                ELSE [b EXCEPT !.syms[key] = [@ EXCEPT ![field] = i - 1]],
           c, Indices(names))

Unknown(names) == [i \in DOMAIN names |-> "UNKNOWN"]

EnterFunction(n, c) ==
  LET inside == [c EXCEPT !.scope = Append(@, n.v.name)]
      args == Register(inside, n.v.args, "arg")
      rets == Register(args, n.v.rets, "ret")
  IN [rets EXCEPT !.syms = AddFunc(@, c.scope, n.v.name, IF n.v.proc THEN "VOID" ELSE "COMP",
                                   Unknown(n.v.args), Unknown(n.v.rets), FALSE)]

\* update_func_arg_types and update_func_ret_types: the types the body declared.
\* A name that has become something else has none.
LocalType(c, name) ==
  LET key == InScope(c, name)
  IN IF key \in DOMAIN c.syms THEN c.syms[key].ty ELSE "UNKNOWN"
LocalTypes(c, names, field) ==
  LET IsOne(key) == key \in DOMAIN c.syms /\ c.syms[key][field] # -1
  IN [i \in DOMAIN names |->
       IF IsOne(InScope(c, names[i])) THEN LocalType(c, names[i]) ELSE "UNKNOWN"]

LeaveFunction(n, kids, c) ==
  LET args == LocalTypes(c, n.v.args, "arg")
      rets == LocalTypes(c, n.v.rets, "ret")
      func == c.syms[c.scope]
      outer == SubSeq(c.scope, 1, Len(c.scope) - 1)
  IN IF Len(func.argty) # Len(args) \/ (~n.v.proc /\ Len(func.elems) # Len(rets))
       THEN [c EXCEPT !.err = "throws"]
     ELSE [c EXCEPT !.syms[c.scope].argty = args, !.scope = outer,
             !.syms[c.scope].elems = IF n.v.proc THEN @ ELSE rets,
             !.node = Node("func", [name |-> n.v.name, args |-> n.v.args, argty |-> args,
                                    rets |-> n.v.rets], kids)]

-----------------------------------------------------------------------------
(* Input and output are calls of external functions.                       *)

WriteCall(expr) == Node("call", "write_no_cr", <<expr>>)
PrintBlock(exprs) ==
  Node("block", "", [i \in DOMAIN exprs |-> WriteCall(exprs[i])]
                    \o <<WriteCall(Leaf("str", <<"n">>))>>)

ReadCall == [REAL |-> "read_real", INT |-> "read_integer"]
ReadBlock(c, names) ==
  LET types == [i \in DOMAIN names |-> LocalType(c, names[i])]
  IN IF Range(types) \subseteq DOMAIN ReadCall
       THEN [c EXCEPT !.node = Node("block", "", [i \in DOMAIN names |->
              Node("assign", <<names[i]>>,
                   <<Node("call", ReadCall[types[i]], <<Leaf("str", <<>>)>>)>>)])]
     ELSE [c EXCEPT !.err = "throws"]

-----------------------------------------------------------------------------
(* The rules.                                                              *)

\* What is done for the prefix of a production.
Before(n, c) ==
  CASE n.k = "decl" -> SetSymType(c, n.v.type, n.v.dims)
    [] n.k = "func" -> EnterFunction(n, c)
    [] OTHER -> c

\* What is done for the whole production: most rules only make a node of the
\* nodes of their parts.  A list has the type of the array that was declared
\* last, if that was the last declaration.
ListType(c) == IF c.symtype \in {"REALARR", "INTARR", "CPLXARR"} THEN c.symtype ELSE "REALARR"

After(n, kids, c) ==
  CASE n.k = "decl" -> Declaration(n, kids, c)
    [] n.k = "func" -> LeaveFunction(n, kids, c)
    [] n.k = "print" -> [c EXCEPT !.node = PrintBlock(kids)]
    [] n.k = "read" -> ReadBlock(c, n.v)
    [] n.k = "list" -> [c EXCEPT !.node = Node("list", ListType(c), kids)]
    [] n.k = "var" /\ n.v = "pi" -> [c EXCEPT !.node = Leaf("const", <<"REAL", 0>>)]
    [] OTHER -> [c EXCEPT !.node = Node(n.k, n.v, kids)]

RECURSIVE Parse(_, _)
ParseNext(a, n) ==
  LET c == Parse(n, a.c)
  IN [c |-> c, nodes |-> Append(a.nodes, c.node)]
Parse(n, c) ==
  LET a == InOrder(ParseNext, [c |-> Before(n, c), nodes |-> <<>>], n.kids)
  IN IF c.err # "" THEN c ELSE IF a.c.err # "" THEN a.c ELSE After(n, a.nodes, a.c)

\* add_ext_funcs: the symbols there are before a program is parsed, for a table
\* of signatures.
ExtSymbols(signatures) ==
  [key \in {<<f>> : f \in DOMAIN signatures} |->
     LET s == signatures[key[1]]
     IN [Symbol(<<>>, key[1], "FUNC", <<1>>) EXCEPT
           !.argty = s.args, !.ext = TRUE,
           !.retty = IF s.result = <<>> THEN "VOID" ELSE s.result[1]]]
=============================================================================
