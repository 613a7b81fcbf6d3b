------------------------------- MODULE VMValues -------------------------------
(***************************************************************************)
(* The data of the virtual machine: the typed values of the stack and of   *)
(* memory (VM::t_data with its VMType), their layout in bytes, and what    *)
(* the arithmetic, logical, comparison and cast instructions compute from  *)
(* them (vm/vm.h, vm/types.h, vm/ops.h, vm/ops.cpp).                       *)
(*                                                                         *)
(* A value is a pair <<type, payload>>.  Integers, booleans, addresses and *)
(* the lengths of strings and arrays are exact; a real, complex or         *)
(* quaternion number is only known to be one (payload 0), so that an       *)
(* instruction whose result depends on such a number has a set of possible *)
(* results, and so has a text made from a number.                          *)
(***************************************************************************)
EXTENDS Integers, Sequences, SequencesExt

CONSTANTS
  AddrSize,   \* sizeof(t_vm_addr), 4 in the code
  IntSize,    \* sizeof(t_vm_int), 8
  RealSize,   \* sizeof(t_vm_real), 8
  IntBits,    \* width of t_vm_int, 64
  AddrBits,   \* width of t_vm_addr, 32
  SomeInts,   \* integers a real number or a text may convert to
  Texts       \* texts a number may be printed as, a set of strings of chars

ASSUME ValuesAssumption ==
  /\ {AddrSize, IntSize, RealSize, IntBits, AddrBits} \subseteq Nat \ {0}
  /\ SomeInts \subseteq -(2 ^ (IntBits - 1)) .. 2 ^ (IntBits - 1) - 1
  /\ \A s \in Texts : s \in Seq(Range(s))

AddrTypes == {"ADDR_MEM", "ADDR_IP", "ADDR_SP", "ADDR_BP", "ADDR_GBP"}
ArrayTypes == {"REALARR", "INTARR", "CPLXARR", "QUATARR"}
NumberTypes == {"REAL", "INT", "CPLX", "QUAT"}
DataTypes == NumberTypes \cup ArrayTypes \cup {"BOOL", "STR"}

Elem == [REALARR |-> "REAL", INTARR |-> "INT", CPLXARR |-> "CPLX",
         QUATARR |-> "QUAT"]

IntVal(n) == <<"INT", n>>
BoolVal(b) == <<"BOOL", b>>
StrVal(s) == <<"STR", s>>
Number(type) == <<type, 0>>
Copies(n, x) == [i \in 1 .. n |-> x]

\* Two outcomes besides a value: the code throws an exception, or it does what
\* C++ leaves undefined (overflow, division by zero, a byte taken for data of
\* another type).
Throws == <<"throws", 0>>
Undefined == <<"undefined", 0>>
Bad == {Throws, Undefined}

-----------------------------------------------------------------------------
(* Layout.  A value is a descriptor byte followed by raw items, a raw item *)
(* is <<kind, payload>> and occupies RawSize[kind] bytes; strings and      *)
(* arrays start with their length.  Byte k of an item is <<kind, payload,  *)
(* k>>.                                                                    *)

RawSize == [op |-> 1, type |-> 1, bool |-> 1, char |-> 1, addr |-> AddrSize,
            int |-> IntSize, real |-> RealSize]

RawKind == [REAL |-> "real", INT |-> "int", CPLX |-> "real", QUAT |-> "real",
            BOOL |-> "bool", STR |-> "char"]
RawCount == [REAL |-> 1, INT |-> 1, CPLX |-> 2, QUAT |-> 4, BOOL |-> 1,
             STR |-> 1]

ElemType(type) == IF type \in ArrayTypes THEN Elem[type] ELSE type
ElemSize(type) == RawCount[ElemType(type)] * RawSize[RawKind[ElemType(type)]]
IsSequence(type) == type \in ArrayTypes \cup {"STR"}

\* GetDataSize and the descriptor byte.
Size(v) ==
  1 + IF v[1] \in AddrTypes \cup {"UNKNOWN"} THEN AddrSize
      ELSE IF IsSequence(v[1]) THEN AddrSize + Len(v[2]) * ElemSize(v[1])
      ELSE ElemSize(v[1])

\* The bytes of an item, and byte k, from 0 on, of an element x of a type.
Bytes(item) == [k \in 1 .. RawSize[item[1]] |-> <<item[1], item[2], k>>]
ElemByte(type, x, k) ==
  LET kind == RawKind[type] IN <<kind, x, (k % RawSize[kind]) + 1>>

\* The bytes of a value: its descriptor, its length, and its elements.
Encode(v) ==
  LET header == 1 + IF IsSequence(v[1]) THEN AddrSize ELSE 0
      X(n) == IF IsSequence(v[1]) THEN v[2][(n \div ElemSize(v[1])) + 1] ELSE v[2]
  IN [k \in 1 .. Size(v) |->
        IF k = 1 THEN <<"type", v[1], 1>>
        ELSE IF v[1] \in AddrTypes \cup {"UNKNOWN"} THEN <<"addr", v[2], k - 1>>
        ELSE IF k <= header THEN <<"addr", Len(v[2]), k - 1>>
        ELSE LET n == k - 1 - header IN ElemByte(ElemType(v[1]), X(n), n)]

\* Data of a kind that is used as a number is one, in a value and in a byte of
\* memory; the bytes of a program are like that.
IsValue(v) ==
  /\ v[1] \in DataTypes \cup AddrTypes \cup {"UNKNOWN"}
  /\ v[1] \in {"INT", "UNKNOWN"} \cup AddrTypes => v[2] \in Int
  /\ IsSequence(v[1]) => v[2] \in Seq(Range(v[2]))
  /\ v[1] = "INTARR" => v[2] \in Seq(Int)
IsByte(b) ==
  /\ b[1] \in {"int", "addr"} => b[2] \in Int
  /\ b[1] = "type" => b[2] \in DataTypes \cup AddrTypes \cup {"UNKNOWN"}

-----------------------------------------------------------------------------
(* Arithmetic, logic and comparison.  Each operator gives the set of       *)
(* outcomes of the instruction for the operands a and b, b on top.         *)

\* The sum of a sequence of integers.
Total(s) ==
  LET sum[n \in 0 .. Len(s)] == IF n = 0 THEN 0 ELSE sum[n - 1] + s[n]
  IN sum[Len(s)]

Modulus == 2 ^ IntBits
MaxInt == Modulus \div 2 - 1
Checked(n) == IF n \in -MaxInt - 1 .. MaxInt THEN IntVal(n) ELSE Undefined

\* C++ division truncates towards zero.
Magnitude(n) == IF n < 0 THEN -n ELSE n
Quot(a, b) == LET q == Magnitude(a) \div Magnitude(b) IN IF (a < 0) = (b < 0) THEN q ELSE -q

\* power(): 1 for an exponent of 0, 0 for a negative one.
IntPower(a, b) == IF b = 0 THEN 1 ELSE IF b < 0 THEN 0 ELSE a ^ b

IntArith(op, a, b) ==
  CASE op = "ADD" -> Checked(a + b)
    [] op = "SUB" -> Checked(a - b)
    [] op = "MUL" -> Checked(a * b)
    [] op = "DIV" -> IF b = 0 THEN Undefined ELSE Checked(Quot(a, b))
    [] op = "MOD" -> IF b = 0 THEN Undefined ELSE IntVal(a - b * Quot(a, b))
    [] op = "POW" -> Checked(IntPower(a, b))

\* An array of integers that have been computed one by one.
IntVector(r) ==
  IF Undefined \in Range(r) THEN Undefined
  ELSE <<"INTARR", [i \in DOMAIN r |-> r[i][2]]>>

\* Element by element; lengths are taken to agree, as m::vec requires.
VecArith(op, a, b) ==
  IF Len(a[2]) # Len(b[2]) THEN Undefined
  ELSE IF a[1] # "INTARR" THEN a
  ELSE IntVector([i \in DOMAIN a[2] |-> IntArith(op, a[2][i], b[2][i])])

Dot(a, b) ==
  IF Len(a[2]) # Len(b[2]) THEN Undefined
  ELSE IF a[1] # "INTARR" THEN Number(Elem[a[1]])
  ELSE Checked(Total([i \in DOMAIN a[2] |-> a[2][i] * b[2][i]]))

Scale(v, s) == VecArith("MUL", v, <<v[1], Copies(Len(v[2]), s[2])>>)

\* OpArithmeticSameType: operators a type does not have give its default value.
SameTypeArith(op, a, b) ==
  CASE a[1] = "INT" -> IntArith(op, a[2], b[2])
    [] a[1] \in {"REAL", "CPLX", "QUAT"} -> Number(a[1])
    [] a[1] = "STR" -> StrVal(IF op = "ADD" THEN a[2] \o b[2] ELSE <<>>)
    [] a[1] \in ArrayTypes ->
         IF op \in {"ADD", "SUB"} THEN VecArith(op, a, b) ELSE <<a[1], <<>>>>
    [] OTHER -> Throws

\* OpArithmetic: products with vectors and powers of quaternions come first,
\* then operands of the same type; anything else is an unknown operation.  The
\* case "vec / scalar" of the code is only reached for products.
Arith(op, a, b) ==
  IF op = "MUL" /\ a[1] = b[1] /\ a[1] \in ArrayTypes THEN Dot(a, b)
  ELSE IF op = "MUL" /\ a[1] \in ArrayTypes /\ b[1] = ElemType(a[1]) THEN Scale(a, b)
  ELSE IF op = "MUL" /\ b[1] \in ArrayTypes /\ a[1] = ElemType(b[1]) THEN Scale(b, a)
  ELSE IF op = "MUL" /\ a[1] = "QUAT" /\ b[1] = "REALARR"
    THEN IF Len(b[2]) = 3 THEN b ELSE Undefined
  ELSE IF op = "POW" /\ a[1] = "QUAT" /\ b[1] \in {"REAL", "INT"} THEN a
  ELSE IF a[1] = b[1] THEN SameTypeArith(op, a, b) ELSE Throws

\* USUB
Negate(v) ==
  CASE v[1] = "INT" -> Checked(-v[2])
    [] v[1] = "INTARR" -> VecArith("SUB", <<v[1], Copies(Len(v[2]), 0)>>, v)
    [] v[1] \in {"REAL", "CPLX", "QUAT"} \cup (ArrayTypes \ {"INTARR"}) -> v
    [] OTHER -> Throws

\* OpMatrixMultiplication on flat vectors; the result has r1 * c2 elements.
\* Vectors of other types give no result to push.
MatMul(a, b, r1, c1, r2, c2) ==
  LET product(n) ==
        LET row == ((n - 1) \div c2) * c1
            col == 1 + ((n - 1) % c2)
        IN Total([k \in 1 .. c1 |-> a[2][row + k] * b[2][(k - 1) * c2 + col]])
  IN IF a[1] # b[1] \/ a[1] \notin ArrayTypes \ {"QUATARR"} THEN Throws
     ELSE IF \/ ~({r1, c1, r2, c2} \subseteq Nat) \/ c1 # r2
             \/ Len(a[2]) # r1 * c1 \/ Len(b[2]) # r2 * c2 THEN Undefined
     ELSE IF a[1] # "INTARR" THEN <<a[1], Copies(r1 * c2, 0)>>
     ELSE IntVector([n \in 1 .. r1 * c2 |-> Checked(product(n))])

\* PopBool accepts booleans and integers.
Truth(v) == IF v[1] = "BOOL" THEN v[2] ELSE v[2] # 0

Logic(op, a, b) ==
  CASE op = "AND" -> BoolVal(Truth(a) /\ Truth(b))
    [] op = "OR" -> BoolVal(Truth(a) \/ Truth(b))
    [] op = "XOR" -> BoolVal(Truth(a) # Truth(b))

IntCompare(op, a, b) ==
  CASE op = "GT" -> a > b [] op = "LT" -> a < b [] op = "GEQU" -> a >= b
    [] op = "LEQU" -> a <= b [] op = "EQU" -> a = b [] op = "NEQU" -> a # b

\* OpComparison.  Strings and arrays are never ordered, real numbers compare
\* in any way, booleans and the other types cannot be compared.
Compare(op, a, b) ==
  IF a[1] # b[1] THEN {Throws}
  ELSE CASE a[1] = "INT" -> {BoolVal(IntCompare(op, a[2], b[2]))}
         [] a[1] = "REAL" -> {BoolVal(TRUE), BoolVal(FALSE)}
         [] a[1] \in {"STR", "INTARR"} ->
              {BoolVal(CASE op = "EQU" -> a[2] = b[2] [] op = "NEQU" -> a[2] # b[2]
                      [] OTHER -> FALSE)}
         [] a[1] = "REALARR" ->
              IF op \in {"EQU", "NEQU"} THEN {BoolVal(TRUE), BoolVal(FALSE)}
                                        ELSE {BoolVal(FALSE)}
         [] OTHER -> {Throws}

\* The integer whose bits are given by Bit(0), Bit(1), ...
Signed(n) == IF n > MaxInt THEN n - Modulus ELSE n
FromBits(Bit(_)) ==
  Signed(Total([k \in 1 .. IntBits |-> IF Bit(k - 1) THEN 2 ^ (k - 1) ELSE 0]))
BitOf(n, k) == (n \div 2 ^ k) % 2 = 1

\* OpBinarySameType.  Shifting by a negative count or by the width of the type
\* is undefined, rotations wrap around.
IntBinary(op, a, b) ==
  LET left == Signed((a * 2 ^ b) % Modulus)
      Rotated(n) == FromBits(LAMBDA k : BitOf(a, (k - n) % IntBits))
  IN CASE op = "BINAND" -> IntVal(FromBits(LAMBDA k : BitOf(a, k) /\ BitOf(b, k)))
       [] op = "BINOR" -> IntVal(FromBits(LAMBDA k : BitOf(a, k) \/ BitOf(b, k)))
       [] op = "BINXOR" -> IntVal(FromBits(LAMBDA k : BitOf(a, k) # BitOf(b, k)))
       [] op \in {"SHL", "SHR"} /\ b \notin 0 .. IntBits - 1 -> Undefined
       [] op = "SHL" /\ b \in 0 .. IntBits - 1 -> IntVal(left)
       [] op = "SHR" /\ b \in 0 .. IntBits - 1 -> IntVal(a \div 2 ^ b)
       [] op = "ROTL" -> IntVal(Rotated(b))
       [] op = "ROTR" -> IntVal(Rotated(-b))

\* OpBinary
Binary(op, a, b) ==
  IF a[1] = "INT" /\ b[1] = "INT" THEN IntBinary(op, a[2], b[2]) ELSE Throws

-----------------------------------------------------------------------------
(* Casts: the set of outcomes.                                             *)

\* Characters that operator>> skips.
Blanks == {" ", "\t", "\n", "\f", "\r"}

\* OpCast.  A boolean is one byte, so an integer loses its upper bytes; what is
\* read into that byte from a text is its first character that is not blank.
Cast(type, v) ==
  CASE v[1] = type \/ v[1] \in AddrTypes -> {v}
    [] v[1] # type /\ type = "STR" /\ v[1] \in DataTypes -> {StrVal(s) : s \in Texts}
    [] v[1] = "INT" /\ type = "BOOL" -> {BoolVal(v[2] % 256 # 0)}
    [] v[1] = "BOOL" /\ type = "INT" -> {IntVal(IF v[2] THEN 1 ELSE 0)}
    [] v[1] = "STR" /\ type = "BOOL" -> {BoolVal(~(Range(v[2]) \subseteq Blanks))}
    [] v[1] = "REAL" /\ type = "BOOL" -> {BoolVal(TRUE), BoolVal(FALSE)}
    [] v[1] \in {"REAL", "STR"} /\ type = "INT" -> {IntVal(n) : n \in SomeInts}
    [] v[1] \in {"REAL", "INT", "BOOL", "STR"} /\ type \in {"REAL", "CPLX", "QUAT"}
         /\ v[1] # type -> {Number(type)}
    [] OTHER -> {Throws}

\* OpCastToArray: a scalar fills all n elements, an array of the same type is
\* left as it is, whatever its length.
CastToArray(type, v, n) ==
  CASE v[1] = type -> {v}
    [] v[1] = "INT" ->
         {<<type, Copies(n, IF type = "INTARR" THEN v[2] ELSE 0)>>}
    [] v[1] = "REAL" ->
         {<<type, Copies(n, x)>> : x \in IF type = "INTARR" THEN SomeInts ELSE {0}}
    [] v[1] \in {"CPLX", "QUAT"} /\ v[1] = Elem[type] -> {<<type, Copies(n, 0)>>}
    [] OTHER -> {Throws}

-----------------------------------------------------------------------------
(* Arrays.                                                                 *)

\* Faulty variant: the bits that are kept are taken for an unsigned number.
ToUnsigned(n) == n % (2 ^ AddrBits)

\* An integer that is converted to a t_vm_addr keeps its lower AddrBits bits.
ToAddr(n) ==
  LET half == 2 ^ (AddrBits - 1) IN ((n + half) % (2 * half)) - half

\* Faulty variant: C++ remainder without the correction for negative indices.
RawIndex(i, n) == IF i < 0 THEN -((-i) % n) ELSE i % n

\* safe_array_index: wraps around at both ends; % by a length of 0 is undefined.
SafeIndex(i, n) == i % n

\* The positions visited from index i to index j of a sequence of length n,
\* backwards if j lies before i.
IndexRange(i, j, n) ==
  LET from == SafeIndex(i, n)  to == SafeIndex(j, n)
  IN IF from <= to THEN [k \in 1 .. to - from + 1 |-> from + k - 1]
                   ELSE [k \in 1 .. from - to + 1 |-> from - k + 1]

\* RDARR and RDARRR; a string yields a string.
ReadElem(v, i) ==
  CASE ~IsSequence(v[1]) -> Throws
    [] IsSequence(v[1]) /\ v[2] = <<>> -> Undefined
    [] IsSequence(v[1]) /\ v[2] # <<>> ->
         LET x == v[2][SafeIndex(i, Len(v[2])) + 1]
         IN IF v[1] = "STR" THEN StrVal(<<x>>) ELSE <<Elem[v[1]], x>>

ReadRange(v, i, j) ==
  CASE ~IsSequence(v[1]) -> Throws
    [] IsSequence(v[1]) /\ v[2] = <<>> -> Undefined
    [] IsSequence(v[1]) /\ v[2] # <<>> ->
         LET r == IndexRange(i, j, Len(v[2]))
         IN <<v[1], [k \in DOMAIN r |-> v[2][r[k] + 1]]>>
=============================================================================
