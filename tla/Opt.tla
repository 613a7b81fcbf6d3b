---------------------------------- MODULE Opt ----------------------------------
(***************************************************************************)
(* The optimiser of the syntax tree (ASTOpt, ast/opt.cpp), which the       *)
(* compiler runs between parser and code generator if it is told to: an    *)
(* operator on two constants is replaced by its result, from the leaves of *)
(* the tree upwards.  A node is replaced by the visitor of the node above  *)
(* it, and not every visitor does so.                                      *)
(***************************************************************************)
EXTENDS VMValues, Grammar

\* The operators of the tree, with the instructions that do the same.
Arithmetic == [plus |-> "ADD", minus |-> "SUB", mult |-> "MUL", div |-> "DIV", mod |-> "MOD",
               pow |-> "POW"]
Comparison == [equ |-> "EQU", neq |-> "NEQU", gt |-> "GT", lt |-> "LT", geq |-> "GEQU",
               leq |-> "LEQU"]
Logical == [and |-> "AND", or |-> "OR", xor |-> "XOR"]
Folded == DOMAIN Arithmetic \cup DOMAIN Comparison \cup DOMAIN Logical

\* The types of constants an operator is computed for.
FoldTypes(kind) ==
  CASE kind \in DOMAIN Arithmetic \ {"mod"} -> {"INT", "REAL", "CPLX"}
    [] kind \in DOMAIN Comparison \cup {"mod"} -> {"INT", "REAL"}
    [] kind \in DOMAIN Logical -> {"INT"}

\* Faulty variant: the operands are swapped.
PerformSwapped(kind, a, b) ==
  CASE kind \in DOMAIN Arithmetic ->
         IF a[1] = "INT" THEN IntArith(Arithmetic[kind], b[2], a[2]) ELSE Number(a[1])
    [] kind \in DOMAIN Comparison -> CHOOSE r \in Compare(Comparison[kind], b, a) : TRUE
    [] kind = "xor" -> BoolVal(a[2] # b[2])
    [] kind \in {"and", "or"} -> Logic(Logical[kind], a, b)

\* perform_op, by the arithmetic of C++.  The exclusive or is that of the bits of
\* its operands.  How two real numbers compare is not known here.
Perform(kind, a, b) ==
  CASE kind \in DOMAIN Arithmetic ->
         IF a[1] = "INT" THEN IntArith(Arithmetic[kind], a[2], b[2]) ELSE Number(a[1])
    [] kind \in DOMAIN Comparison -> CHOOSE r \in Compare(Comparison[kind], a, b) : TRUE
    [] kind = "xor" -> BoolVal(a[2] # b[2])
    [] kind \in {"and", "or"} -> Logic(Logical[kind], a, b)

\* The compiler itself dies of a division by zero, or goes on with anything.
Replacement(v) == IF v \in Bad THEN Leaf("broken", "") ELSE Leaf("const", v)

\* OptConsts: the replacement of a node, or the node.
Numbers(n) ==
  /\ n.k \in Folded /\ n.kids[1].k = "const" /\ n.kids[2].k = "const"
  /\ n.kids[1].v[1] = n.kids[2].v[1] /\ n.kids[1].v[1] \in FoldTypes(n.k)
Strings(n, kinds) == n.k \in kinds /\ n.kids[1].k = "str" /\ n.kids[2].k = "str"

OptConsts(n) ==
  CASE Numbers(n) -> Replacement(Perform(n.k, n.kids[1].v, n.kids[2].v))
    [] Strings(n, {"plus"}) -> Leaf("str", n.kids[1].v \o n.kids[2].v)
    [] Strings(n, {"equ", "neq"}) ->
         Leaf("const", BoolVal((n.k = "equ") = (n.kids[1].v = n.kids[2].v)))
    [] OTHER -> n

\* The children a visitor replaces: those of expressions and assignments, the
\* condition of a branch or loop, the labels of cases.  The bounds of a counted
\* loop are visited only, as are statements.
Replaced(n) ==
  CASE n.k \in Folded \cup {"not", "norm", "call", "assign", "access", "arrassign", "list"} ->
         DOMAIN n.kids
    [] n.k \in {"if", "while"} -> {1}
    [] n.k = "select" -> {i \in DOMAIN n.kids : i % 2 = 0 /\ i < Len(n.kids)}
    [] OTHER -> {}

RECURSIVE Optimise(_)
Optimise(n) ==
  [n EXCEPT !.kids = [i \in DOMAIN n.kids |->
     LET kid == Optimise(n.kids[i])
     IN IF i \in Replaced(n) THEN OptConsts(kid) ELSE kid]]
=============================================================================
