----------------------------- MODULE VMValuesProofs -----------------------------
(***************************************************************************)
(* Lemmas about the data of the virtual machine: what the instructions     *)
(* compute from values are values again, and a value fits its bytes.       *)
(***************************************************************************)
EXTENDS VMValues, SequenceLemmas, FiniteSetTheorems

-----------------------------------------------------------------------------
(* Sums.                                                                   *)

\* The sum of integers is an integer.
LEMMA TotalInt ==
  ASSUME NEW s \in Seq(Int)
  PROVE  Total(s) \in Int
<1> DEFINE N == Len(s)
           IsSum(f, m) == f = [n \in 0 .. m |-> IF n = 0 THEN 0 ELSE f[n - 1] + s[n]]
           sum == CHOOSE f : IsSum(f, N)
<1>1. Total(s) = sum[N]
  BY DEF Total
<1>2. N \in Nat
  OBVIOUS
<1> DEFINE T == {m \in Nat : m > N \/ \E f : IsSum(f, m)}
<1>3. 0 \in T
  <2>1. IsSum([n \in 0 .. 0 |-> 0], 0)
    OBVIOUS
  <2> QED BY <2>1
<1>4. ASSUME NEW m \in Nat, m \in T
      PROVE  m + 1 \in T
  <2>1. CASE m + 1 > N
    BY <2>1
  <2>2. CASE ~(m + 1 > N)
    <3>1. PICK f : IsSum(f, m)
      BY <1>2, <1>4, <2>2
    <3> DEFINE g == [n \in 0 .. m + 1 |-> IF n = m + 1 THEN f[m] + s[m + 1] ELSE f[n]]
    <3>2. ASSUME NEW n \in 0 .. m + 1
          PROVE  g[n] = IF n = 0 THEN 0 ELSE g[n - 1] + s[n]
      <4>1. CASE n = m + 1
        BY <4>1
      <4>2. CASE n # m + 1
        <5>1. f[n] = IF n = 0 THEN 0 ELSE f[n-1] + s[n]
          BY <3>1, <4>2
        <5> QED BY <4>2, <5>1
      <4> QED BY <4>1, <4>2
    <3>3. IsSum(g, m + 1)
      BY <3>2
    <3> HIDE DEF g, IsSum
    <3>4. \E h : IsSum(h, m + 1)
      BY <3>3
    <3> QED BY <3>4
  <2> QED BY <2>1, <2>2
<1>5. IsSum(sum, N)
  <2>1. Nat \subseteq T
    <3> HIDE DEF T
    <3> QED BY <1>3, <1>4, SetInduction
  <2>2. \E f : IsSum(f, N)
    BY <1>2, <2>1
  <2> HIDE DEF IsSum
  <2> QED BY <2>2
<1> DEFINE U == {m \in Nat : m > N \/ sum[m] \in Int}
<1>6. 0 \in U
  <2> HIDE DEF sum
  <2>1. sum[0] = 0
    BY <1>2, <1>5
  <2> QED BY <2>1
<1>7. ASSUME NEW m \in Nat, m \in U
      PROVE  m + 1 \in U
  <2> HIDE DEF sum
  <2>1. CASE m + 1 > N
    BY <2>1
  <2>2. CASE ~(m + 1 > N)
    <3>1. sum[m + 1] = sum[m] + s[m + 1]
      BY <1>2, <1>5, <2>2
    <3>2. s[m + 1] \in Int
      BY <1>2, <2>2
    <3> QED BY <1>2, <1>7, <2>2, <3>1, <3>2
  <2> QED BY <2>1, <2>2
<1>8. Nat \subseteq U
  <2> HIDE DEF U
  <2> QED BY <1>6, <1>7, SetInduction
<1> HIDE DEF sum
<1> QED BY <1>1, <1>2, <1>8

-----------------------------------------------------------------------------
(* Layout.                                                                 *)

\* What a value that is no sequence or one of another type can be.
ScalarTypes == NumberTypes \cup {"BOOL", "STR"}
AllTypes == DataTypes \cup AddrTypes \cup {"UNKNOWN"}

LEMMA Sizes ==
  /\ \A kind \in DOMAIN RawSize : RawSize[kind] \in Nat \ {0}
  /\ \A type \in DataTypes :
       /\ ElemType(type) \in ScalarTypes /\ ElemSize(type) \in Nat \ {0}
       /\ RawKind[ElemType(type)] \in DOMAIN RawSize \ {"op", "addr", "type"}
       /\ RawCount[ElemType(type)] \in Nat \ {0}
       /\ RawKind[ElemType(type)] = "int" <=> ElemType(type) = "INT"
<1>1. {AddrSize, IntSize, RealSize} \subseteq Nat \ {0}
  BY ValuesAssumption
<1>2. \A kind \in DOMAIN RawSize : RawSize[kind] \in Nat \ {0}
  BY <1>1 DEF RawSize
<1>3. ASSUME NEW type \in DataTypes
      PROVE  ElemType(type) \in ScalarTypes
  BY DEF ElemType, ScalarTypes, DataTypes, ArrayTypes, NumberTypes, Elem
<1>4. ASSUME NEW type \in ScalarTypes
      PROVE  /\ RawKind[type] \in DOMAIN RawSize \ {"op", "addr", "type"}
             /\ RawCount[type] \in Nat \ {0}
             /\ RawKind[type] = "int" <=> type = "INT"
  BY DEF ScalarTypes, NumberTypes, RawKind, RawCount, RawSize
<1>5. ASSUME NEW type \in DataTypes
      PROVE  ElemSize(type) \in Nat \ {0}
  <2> DEFINE n == RawCount[ElemType(type)]
             m == RawSize[RawKind[ElemType(type)]]
  <2>1. n \in Nat \ {0} /\ m \in Nat \ {0}
    BY <1>2, <1>3, <1>4
  <2>2. ElemSize(type) = n * m
    BY DEF ElemSize
  <2> HIDE DEF n, m
  <2>3. n * m \in Nat \ {0}
    BY <2>1
  <2> QED BY <2>2, <2>3
<1> QED BY <1>2, <1>3, <1>4, <1>5

LEMMA Types ==
  /\ AddrTypes \cap DataTypes = {} /\ "UNKNOWN" \notin DataTypes \cup AddrTypes
  /\ ArrayTypes \subseteq DataTypes /\ NumberTypes \subseteq DataTypes
  /\ "STR" \in DataTypes /\ "BOOL" \in DataTypes
  /\ \A type \in AllTypes : type \notin {"throws", "undefined", "ok"}
  /\ \A type \in AddrTypes \cup {"UNKNOWN"} : ~IsSequence(type)
  /\ \A type : IsSequence(type) <=> type \in ArrayTypes \/ type = "STR"
  /\ \A type : IsSequence(type) => type \in DataTypes
BY DEF AddrTypes, DataTypes, ArrayTypes, NumberTypes, AllTypes, IsSequence

\* A value is neither an exception nor undefined.
LEMMA NotBad ==
  ASSUME NEW v, IsValue(v)
  PROVE  v \notin Bad
BY Types DEF IsValue, Bad, Throws, Undefined, AllTypes

\* A value takes room for its descriptor and something more.
LEMMA SizeAtLeast ==
  ASSUME NEW v, IsValue(v)
  PROVE  /\ Size(v) \in Nat /\ Size(v) >= 1
         /\ v[1] \in AddrTypes \cup {"UNKNOWN"} => Size(v) = 1 + AddrSize
         /\ IsSequence(v[1]) => Size(v) = 1 + AddrSize + Len(v[2]) * ElemSize(v[1])
         /\ v[1] \in DataTypes /\ ~IsSequence(v[1]) => Size(v) = 1 + ElemSize(v[1])
<1>1. AddrSize \in Nat \ {0}
  BY ValuesAssumption
<1>2. CASE v[1] \in AddrTypes \cup {"UNKNOWN"}
  BY <1>1, <1>2, Types DEF Size
<1>3. CASE IsSequence(v[1])
  <2>1. Len(v[2]) \in Nat
    BY <1>3, SeqShape DEF IsValue
  <2>2. ElemSize(v[1]) \in Nat
    BY <1>3, Sizes, Types
  <2>3. Len(v[2]) * ElemSize(v[1]) \in Nat
    BY <2>1, <2>2
  <2> QED BY <1>1, <1>3, <2>3, Types DEF Size
<1>4. CASE v[1] \in DataTypes /\ ~IsSequence(v[1])
  BY <1>4, Sizes, Types DEF Size
<1> QED BY <1>2, <1>3, <1>4 DEF IsValue

\* A byte of an element of the type.
LEMMA ElementByte ==
  ASSUME NEW type \in ScalarTypes, NEW x, NEW k, type = "INT" => x \in Int
  PROVE  IsByte(ElemByte(type, x, k))
<1>1. /\ RawKind[type] \notin {"addr", "type"}
      /\ RawKind[type] = "int" => type = "INT"
  BY DEF ScalarTypes, NumberTypes, RawKind
<1> QED BY <1>1 DEF IsByte, ElemByte

\* Division by the size of an element finds the element a byte belongs to.
LEMMA Division ==
  ASSUME NEW m \in Nat \ {0}, NEW n \in Int
  PROVE  /\ n \div m \in Int /\ n % m \in 0 .. m - 1
         /\ n = m * (n \div m) + (n % m)
OBVIOUS

LEMMA Monotone ==
  ASSUME NEW m \in Nat, NEW a \in Int, NEW b \in Int, a <= b
  PROVE  m * a \in Int /\ m * b \in Int /\ m * a <= m * b
<1>1. m * (b - a) >= 0
  OBVIOUS
<1>2. m * (b - a) = m * b - m * a
  OBVIOUS
<1> QED BY <1>1, <1>2

LEMMA ElementOfByte ==
  ASSUME NEW m \in Nat \ {0}, NEW len \in Nat, NEW n \in 0 .. len * m - 1
  PROVE  n \div m \in 0 .. len - 1
<1> DEFINE q == n \div m
<1>1. q \in Int /\ n % m \in 0 .. m - 1 /\ n = m * q + (n % m) /\ len * m \in Int
  BY Division
<1> HIDE DEF q
<1>2. q >= 0
  <2> SUFFICES ASSUME q <= -1 PROVE FALSE
    BY <1>1
  <2>1. m * q <= m * (-1)
    BY <1>1, Monotone
  <2> QED BY <1>1, <2>1
<1>3. q <= len - 1
  <2> SUFFICES ASSUME len <= q PROVE FALSE
    BY <1>1
  <2>1. m * len <= m * q
    BY <1>1, Monotone
  <2> QED BY <1>1, <2>1
<1> QED BY <1>1, <1>2, <1>3 DEF q

\* The bytes of a value are bytes of data.
LEMMA EncodeBytes ==
  ASSUME NEW v, IsValue(v)
  PROVE  DOMAIN Encode(v) = 1 .. Size(v) /\ \A k \in 1 .. Size(v) : IsByte(Encode(v)[k])
<1> DEFINE header == 1 + IF IsSequence(v[1]) THEN AddrSize ELSE 0
           X(n) == IF IsSequence(v[1]) THEN v[2][(n \div ElemSize(v[1])) + 1] ELSE v[2]
           Byte(k) == IF k = 1 THEN <<"type", v[1], 1>>
                      ELSE IF v[1] \in AddrTypes \cup {"UNKNOWN"} THEN <<"addr", v[2], k - 1>>
                      ELSE IF k <= header THEN <<"addr", Len(v[2]), k - 1>>
                      ELSE ElemByte(ElemType(v[1]), X(k - 1 - header), k - 1 - header)
<1>1. Encode(v) = [k \in 1 .. Size(v) |-> Byte(k)]
  BY DEF Encode
<1>2. ASSUME NEW k \in 1 .. Size(v)
      PROVE  IsByte(Byte(k))
  <2>1. CASE k = 1
    BY <2>1 DEF IsByte, IsValue
  <2>2. CASE k # 1 /\ v[1] \in AddrTypes \cup {"UNKNOWN"}
    BY <2>2 DEF IsByte, IsValue
  <2>3. CASE k # 1 /\ v[1] \notin AddrTypes \cup {"UNKNOWN"} /\ k <= header
    <3>1. IsSequence(v[1])
      BY <2>3, SizeAtLeast
    <3>2. Len(v[2]) \in Nat
      BY <3>1, SeqShape DEF IsValue
    <3> QED BY <2>3, <3>2 DEF IsByte
  <2>4. CASE k # 1 /\ v[1] \notin AddrTypes \cup {"UNKNOWN"} /\ ~(k <= header)
    <3>1. v[1] \in DataTypes /\ ElemType(v[1]) \in ScalarTypes
      BY <2>4, Sizes DEF IsValue
    <3>2. ASSUME ElemType(v[1]) = "INT"
          PROVE  X(k - 1 - header) \in Int
      <4>1. v[1] = "INT" \/ v[1] = "INTARR"
        BY <3>1, <3>2 DEF ElemType, ArrayTypes, Elem
      <4>2. CASE v[1] = "INT"
        BY <4>2 DEF IsValue, IsSequence, ArrayTypes
      <4>3. CASE v[1] = "INTARR"
        <5> DEFINE n == k - 1 - header
                   m == ElemSize(v[1])
                   len == Len(v[2])
        <5>1. IsSequence(v[1]) /\ v[2] \in Seq(Int)
          BY <4>3 DEF IsValue, IsSequence, ArrayTypes
        <5>2. m \in Nat \ {0} /\ len \in Nat /\ AddrSize \in Nat
          BY <3>1, <5>1, Sizes, LenProperties, ValuesAssumption
        <5>3. Size(v) = 1 + AddrSize + len * m /\ Size(v) \in Nat
          BY <5>1, SizeAtLeast
        <5>4. header = 1 + AddrSize
          BY <5>1
        <5> HIDE DEF m, len, header
        <5>5. len * m \in Int
          BY <5>2
        <5>6. n \in 0 .. len * m - 1
          BY <2>4, <5>2, <5>3, <5>4, <5>5
        <5> HIDE DEF n
        <5>7. n \div m \in 0 .. len - 1
          BY <5>2, <5>6, ElementOfByte
        <5>8. (n \div m) + 1 \in 1 .. len
          BY <5>2, <5>7
        <5>9. v[2][(n \div m) + 1] \in Int
          BY <5>1, <5>8, ElementOfSeq DEF len
        <5> QED BY <5>1, <5>9 DEF n, m
      <4> QED BY <4>1, <4>2, <4>3
    <3>3. Byte(k) = ElemByte(ElemType(v[1]), X(k - 1 - header), k - 1 - header)
      BY <2>4
    <3> HIDE DEF X, header
    <3>4. IsByte(ElemByte(ElemType(v[1]), X(k - 1 - header), k - 1 - header))
      BY <3>1, <3>2, ElementByte
    <3> QED BY <3>3, <3>4
  <2> QED BY <2>1, <2>2, <2>3, <2>4
<1> HIDE DEF Byte
<1> QED BY <1>1, <1>2

-----------------------------------------------------------------------------
(* Results of operations.                                                  *)

\* A value of a known type: an address may be pushed without its type.
IsData(v) == IsValue(v) /\ v[1] # "UNKNOWN"
IsResult(r) == r \in Bad \/ IsData(r)

LEMMA Literals ==
  /\ \A n \in Int : IsValue(IntVal(n)) /\ IsData(IntVal(n))
  /\ \A b : IsValue(BoolVal(b)) /\ IsData(BoolVal(b))
  /\ \A type \in NumberTypes : IsValue(Number(type)) /\ IsData(Number(type))
  /\ \A s : s \in Seq(Range(s)) => IsValue(StrVal(s)) /\ IsData(StrVal(s))
  /\ \A type \in AddrTypes \cup {"UNKNOWN"}, n \in Int : IsValue(<<type, n>>)
BY DEF IsData, IsValue, IntVal, BoolVal, Number, StrVal, DataTypes, NumberTypes, AddrTypes,
       ArrayTypes, IsSequence

LEMMA ArrayValue ==
  ASSUME NEW type \in ArrayTypes, NEW n \in Nat, NEW s, s = [i \in 1 .. n |-> s[i]],
         type = "INTARR" => \A i \in 1 .. n : s[i] \in Int
  PROVE  IsValue(<<type, s>>) /\ IsData(<<type, s>>)
<1>1. s \in Seq(Range(s)) /\ DOMAIN s = 1 .. n
  BY IsSeq
<1>2. type = "INTARR" => s \in Seq(Int)
  <2>1. CASE type = "INTARR"
    <3>1. s \in [1 .. n -> Int]
      BY <2>1
    <3> QED BY <3>1, SeqDef
  <2> QED BY <2>1
<1>3. type \in DataTypes /\ type \notin {"INT", "UNKNOWN"} \cup AddrTypes
  BY DEF ArrayTypes, DataTypes, AddrTypes
<1> QED BY <1>1, <1>2, <1>3 DEF IsData, IsValue

\* The elements of an array or string.
LEMMA Elements ==
  ASSUME NEW v, IsValue(v), IsSequence(v[1])
  PROVE  /\ Len(v[2]) \in Nat /\ DOMAIN v[2] = 1 .. Len(v[2])
         /\ v[2] = [i \in 1 .. Len(v[2]) |-> v[2][i]]
         /\ v[1] = "INTARR" => \A i \in 1 .. Len(v[2]) : v[2][i] \in Int
<1>1. v[2] \in Seq(Range(v[2]))
  BY DEF IsValue
<1>2. v[1] = "INTARR" => \A i \in 1 .. Len(v[2]) : v[2][i] \in Int
  BY ElementOfSeq DEF IsValue
<1> QED BY <1>1, <1>2, SeqShape

LEMMA CheckedResult ==
  ASSUME NEW n
  PROVE  IsResult(Checked(n)) /\ (Checked(n) # Undefined => Checked(n)[2] \in Int)
         /\ Checked(n) # Throws
<1>1. CASE n \in -MaxInt - 1 .. MaxInt
  <2>1. n \in Int
    BY <1>1
  <2>2. Checked(n) = IntVal(n)
    BY <1>1 DEF Checked
  <2> QED BY <2>1, <2>2, Literals DEF IsResult, IntVal, Throws
<1>2. CASE n \notin -MaxInt - 1 .. MaxInt
  BY <1>2 DEF Checked, IsResult, Bad, Undefined, Throws
<1> QED BY <1>1, <1>2

LEMMA QuotInt ==
  ASSUME NEW a \in Int, NEW b \in Int, b # 0
  PROVE  Quot(a, b) \in Int
<1>1. Magnitude(a) \in Int /\ Magnitude(b) \in Int /\ Magnitude(b) > 0
  BY DEF Magnitude
<1>2. Magnitude(a) \div Magnitude(b) \in Int
  BY <1>1
<1> QED BY <1>2 DEF Quot

ArithNames == {"ADD", "SUB", "MUL", "DIV", "MOD", "POW"}

LEMMA IntArithResult ==
  ASSUME NEW op \in ArithNames, NEW a \in Int, NEW b \in Int
  PROVE  /\ IsResult(IntArith(op, a, b)) /\ IntArith(op, a, b) # Throws
         /\ IntArith(op, a, b) # Undefined => IntArith(op, a, b)[2] \in Int
<1> DEFINE r == IntArith(op, a, b)
<1>1. CASE op \in {"ADD", "SUB", "MUL", "POW"}
  <2>1. \E n : r = Checked(n)
    BY <1>1, Zenon DEF IntArith
  <2> QED BY <2>1, CheckedResult
<1>2. CASE op \in {"DIV", "MOD"} /\ b = 0
  <2>1. r = Undefined
    BY <1>2, Zenon DEF IntArith
  <2> QED BY <2>1 DEF IsResult, Bad, Undefined, Throws
<1>3. CASE op = "DIV" /\ b # 0
  <2>1. r = Checked(Quot(a, b))
    BY <1>3, Zenon DEF IntArith
  <2> QED BY <2>1, CheckedResult
<1>4. CASE op = "MOD" /\ b # 0
  <2>1. r = IntVal(a - b * Quot(a, b))
    BY <1>4, Zenon DEF IntArith
  <2>2. a - b * Quot(a, b) \in Int
    BY <1>4, QuotInt
  <2> QED BY <2>1, <2>2, Literals DEF IsResult, IntVal, Throws
<1> QED BY <1>1, <1>2, <1>3, <1>4 DEF ArithNames

LEMMA UndefinedResult == IsResult(Undefined) /\ IsResult(Throws)
BY DEF IsResult, Bad

LEMMA IntVectorResult ==
  ASSUME NEW n \in Nat, NEW r, r = [i \in 1 .. n |-> r[i]],
         \A i \in 1 .. n : r[i] # Undefined => r[i][2] \in Int
  PROVE  IsResult(IntVector(r))
<1>1. CASE Undefined \in Range(r)
  BY <1>1, UndefinedResult DEF IntVector
<1>2. CASE Undefined \notin Range(r)
  <2> DEFINE xs == [i \in DOMAIN r |-> r[i][2]]
  <2>1. DOMAIN r = 1 .. n
    OBVIOUS
  <2>2. \A i \in 1 .. n : xs[i] \in Int
    BY <1>2, <2>1 DEF Range
  <2>3. xs = [i \in 1 .. n |-> xs[i]]
    BY <2>1
  <2>4. IntVector(r) = <<"INTARR", xs>>
    BY <1>2 DEF IntVector
  <2>5. "INTARR" \in ArrayTypes
    BY DEF ArrayTypes
  <2> HIDE DEF xs
  <2>6. IsData(<<"INTARR", xs>>)
    BY <2>2, <2>3, <2>5, ArrayValue
  <2> QED BY <2>4, <2>6 DEF IsResult
<1> QED BY <1>1, <1>2

LEMMA VecArithResult ==
  ASSUME NEW op \in ArithNames, NEW a, NEW b, IsValue(a), a[1] \in ArrayTypes,
         a[1] = "INTARR" => \A i \in 1 .. Len(b[2]) : b[2][i] \in Int
  PROVE  IsResult(VecArith(op, a, b))
<1>1. IsSequence(a[1])
  BY DEF IsSequence
<1>2. /\ Len(a[2]) \in Nat /\ DOMAIN a[2] = 1 .. Len(a[2])
      /\ a[1] = "INTARR" => \A i \in 1 .. Len(a[2]) : a[2][i] \in Int
  BY <1>1, Elements
<1>3. CASE Len(a[2]) = Len(b[2]) /\ a[1] = "INTARR"
  <2> DEFINE n == Len(a[2])
             r == [i \in DOMAIN a[2] |-> IntArith(op, a[2][i], b[2][i])]
  <2>1. r = [i \in 1 .. n |-> r[i]]
    BY <1>2
  <2>2. \A i \in 1 .. n : r[i] # Undefined => r[i][2] \in Int
    BY <1>2, <1>3, IntArithResult
  <2>3. VecArith(op, a, b) = IntVector(r)
    BY <1>3 DEF VecArith
  <2> HIDE DEF r
  <2> QED BY <1>2, <2>1, <2>2, <2>3, IntVectorResult
<1>4. CASE ~(Len(a[2]) = Len(b[2]) /\ a[1] = "INTARR")
  <2>1. VecArith(op, a, b) \in {Undefined, a}
    BY <1>4 DEF VecArith
  <2>2. IsData(a)
    BY <1>1, Types DEF IsData
  <2> QED BY <2>1, <2>2, UndefinedResult DEF IsResult
<1> QED BY <1>3, <1>4

LEMMA CopiesShape ==
  ASSUME NEW n \in Int, NEW x
  PROVE  /\ \E m \in Nat : /\ Copies(n, x) = [i \in 1 .. m |-> Copies(n, x)[i]]
                           /\ 1 .. m = 1 .. n /\ (n \in Nat => m = n)
         /\ \A i \in 1 .. n : Copies(n, x)[i] = x
<1>1. PICK m \in Nat : 1 .. m = 1 .. n /\ (n \in Nat => m = n)
  <2>1. CASE n \in Nat
    BY <2>1
  <2>2. CASE n \notin Nat
    <3>1. 1 .. 0 = 1 .. n
      BY <2>2
    <3> QED BY <2>2, <3>1
  <2> QED BY <2>1, <2>2
<1>2. Copies(n, x) = [i \in 1 .. m |-> x]
  BY <1>1 DEF Copies
<1> QED BY <1>1, <1>2 DEF Copies

LEMMA ScaleResult ==
  ASSUME NEW v, NEW s, IsValue(v), IsValue(s), v[1] \in ArrayTypes, s[1] = ElemType(v[1])
  PROVE  IsResult(Scale(v, s))
<1> DEFINE n == Len(v[2])
           b == <<v[1], Copies(n, s[2])>>
<1>1. n \in Nat
  BY Elements DEF IsSequence
<1>2. Len(Copies(n, s[2])) = n /\ \A i \in 1 .. n : Copies(n, s[2])[i] = s[2]
  BY <1>1, CopiesShape, IsSeq
<1>3. v[1] = "INTARR" => s[2] \in Int
  BY DEF IsValue, ElemType, Elem, ArrayTypes
<1>4. v[1] = "INTARR" => \A i \in 1 .. Len(b[2]) : b[2][i] \in Int
  BY <1>2, <1>3
<1>5. Scale(v, s) = VecArith("MUL", v, b)
  BY DEF Scale
<1> HIDE DEF b
<1> QED BY <1>4, <1>5, VecArithResult DEF ArithNames

LEMMA DotResult ==
  ASSUME NEW a, NEW b, a[1] \in ArrayTypes
  PROVE  IsResult(Dot(a, b))
<1>1. Number(Elem[a[1]]) = <<Elem[a[1]], 0>> /\ Elem[a[1]] \in NumberTypes
  BY DEF Number, Elem, ArrayTypes, NumberTypes
<1> QED BY <1>1, UndefinedResult, CheckedResult, Literals DEF Dot, IsResult

LEMMA SameTypeArithResult ==
  ASSUME NEW op \in ArithNames, NEW a, NEW b, IsValue(a), IsValue(b), a[1] = b[1]
  PROVE  IsResult(SameTypeArith(op, a, b))
<1> DEFINE r == SameTypeArith(op, a, b)
<1>1. CASE a[1] = "INT"
  <2>1. r = IntArith(op, a[2], b[2])
    BY <1>1, Zenon DEF SameTypeArith, ArrayTypes
  <2>2. a[2] \in Int /\ b[2] \in Int
    BY <1>1 DEF IsValue
  <2> QED BY <2>1, <2>2, IntArithResult
<1>2. CASE a[1] \in {"REAL", "CPLX", "QUAT"}
  <2>1. r = Number(a[1])
    BY <1>2, Zenon DEF SameTypeArith, ArrayTypes
  <2> QED BY <1>2, <2>1, Literals DEF NumberTypes, IsResult
<1>3. CASE a[1] = "STR"
  <2>1. r = StrVal(IF op = "ADD" THEN a[2] \o b[2] ELSE <<>>)
    BY <1>3, Zenon DEF SameTypeArith, ArrayTypes
  <2>2. a[2] \in Seq(Range(a[2])) /\ b[2] \in Seq(Range(b[2]))
    BY <1>3 DEF IsValue, IsSequence
  <2>3. a[2] \o b[2] \in Seq(Range(a[2] \o b[2]))
    BY <2>2, ConcatAny
  <2>4. CASE op = "ADD"
    BY <2>1, <2>3, <2>4, Literals DEF IsResult
  <2>5. CASE op # "ADD"
    BY <2>1, <2>5, EmptyAny, Literals DEF IsResult
  <2> QED BY <2>4, <2>5
<1>4. CASE a[1] \in ArrayTypes
  <2>1. r = IF op \in {"ADD", "SUB"} THEN VecArith(op, a, b) ELSE <<a[1], <<>>>>
    BY <1>4, Zenon DEF SameTypeArith, ArrayTypes
  <2>2. a[1] = "INTARR" => \A i \in 1 .. Len(b[2]) : b[2][i] \in Int
    BY Elements DEF ArrayTypes, IsSequence
  <2>3. IsResult(VecArith(op, a, b))
    BY <1>4, <2>2, VecArithResult
  <2>4. IsData(<<a[1], <<>>>>)
    <3> DEFINE empty == <<>>
    <3>1. empty = [i \in 1 .. 0 |-> empty[i]]
      OBVIOUS
    <3>2. \A i \in 1 .. 0 : empty[i] \in Int
      OBVIOUS
    <3> HIDE DEF empty
    <3>3. IsData(<<a[1], empty>>)
      BY <1>4, <3>1, <3>2, ArrayValue
    <3> QED BY <3>3 DEF empty
  <2> QED BY <2>1, <2>3, <2>4 DEF IsResult
<1>5. CASE a[1] \notin {"INT", "REAL", "CPLX", "QUAT", "STR"} \cup ArrayTypes
  <2>1. r = Throws
    BY <1>5, Zenon DEF SameTypeArith
  <2> QED BY <2>1, UndefinedResult
<1> QED BY <1>1, <1>2, <1>3, <1>4, <1>5

LEMMA ArithResult ==
  ASSUME NEW op \in ArithNames, NEW a, NEW b, IsValue(a), IsValue(b),
         "UNKNOWN" \notin {a[1], b[1]}
  PROVE  IsResult(Arith(op, a, b))
<1>1. CASE op = "MUL" /\ a[1] = b[1] /\ a[1] \in ArrayTypes
  BY <1>1, DotResult DEF Arith
<1>2. CASE op = "MUL" /\ a[1] \in ArrayTypes /\ b[1] = ElemType(a[1]) /\ a[1] # b[1]
  BY <1>2, ScaleResult DEF Arith
<1>3. CASE op = "MUL" /\ b[1] \in ArrayTypes /\ a[1] = ElemType(b[1]) /\ a[1] # b[1]
           /\ ~(a[1] \in ArrayTypes /\ b[1] = ElemType(a[1]))
  BY <1>3, ScaleResult DEF Arith
<1>4. CASE a[1] = b[1] /\ ~(op = "MUL" /\ a[1] \in ArrayTypes)
  <2>1. IsResult(SameTypeArith(op, a, b))
    BY <1>4, SameTypeArithResult
  <2>2. a[1] \notin ArrayTypes => a[1] = ElemType(a[1])
    BY DEF ElemType
  <2>3. Arith(op, a, b) \in {SameTypeArith(op, a, b), a}
    BY <1>4 DEF Arith
  <2> QED BY <2>1, <2>3 DEF IsResult, IsData
<1>5. CASE a[1] # b[1] /\ ~(op = "MUL" /\ a[1] \in ArrayTypes /\ b[1] = ElemType(a[1]))
           /\ ~(op = "MUL" /\ b[1] \in ArrayTypes /\ a[1] = ElemType(b[1]))
  <2>1. Arith(op, a, b) \in {a, b, Undefined, Throws}
    BY <1>5 DEF Arith
  <2> QED BY <2>1, UndefinedResult DEF IsResult, IsData
<1> QED BY <1>1, <1>2, <1>3, <1>4, <1>5

LEMMA NegateResult ==
  ASSUME NEW v, IsValue(v), v[1] # "UNKNOWN"
  PROVE  IsResult(Negate(v))
<1>1. CASE v[1] = "INT"
  <2>1. Negate(v) = Checked(-v[2])
    BY <1>1, Zenon DEF Negate, ArrayTypes
  <2> QED BY <2>1, CheckedResult
<1>2. CASE v[1] = "INTARR"
  <2> DEFINE n == Len(v[2])
             zeros == <<v[1], Copies(n, 0)>>
  <2>1. Negate(v) = VecArith("SUB", zeros, v)
    BY <1>2, Zenon DEF Negate, ArrayTypes
  <2>2. n \in Nat /\ \A i \in 1 .. n : v[2][i] \in Int
    BY <1>2, Elements DEF IsSequence, ArrayTypes
  <2>3. \A i \in 1 .. n : Copies(n, 0)[i] \in Int
    BY <2>2, CopiesShape
  <2>4. Copies(n, 0) = [i \in 1 .. n |-> Copies(n, 0)[i]]
    BY <2>2, CopiesShape
  <2>5. v[1] \in ArrayTypes
    BY <1>2 DEF ArrayTypes
  <2>6. IsValue(zeros)
    BY <2>2, <2>3, <2>4, <2>5, ArrayValue
  <2>7. zeros[1] \in ArrayTypes
    BY <2>5
  <2> HIDE DEF zeros
  <2> QED BY <2>1, <2>2, <2>6, <2>7, VecArithResult DEF ArithNames
<1>3. CASE v[1] \notin {"INT", "INTARR"}
  <2>1. Negate(v) \in {v, Throws}
    <3>1. CASE v[1] \in {"REAL", "CPLX", "QUAT"} \cup (ArrayTypes \ {"INTARR"})
      <4>1. Negate(v) = v
        BY <1>3, <3>1, Zenon DEF Negate
      <4> QED BY <4>1
    <3>2. CASE v[1] \notin {"REAL", "CPLX", "QUAT"} \cup (ArrayTypes \ {"INTARR"})
      <4>1. Negate(v) = Throws
        BY <1>3, <3>2, Zenon DEF Negate
      <4> QED BY <4>1
    <3> QED BY <3>1, <3>2
  <2> QED BY <2>1, UndefinedResult DEF IsResult, IsData
<1> QED BY <1>1, <1>2, <1>3

LEMMA MatMulResult ==
  ASSUME NEW a, NEW b, NEW r1, NEW c1, NEW r2, NEW c2
  PROVE  IsResult(MatMul(a, b, r1, c1, r2, c2))
<1> DEFINE r == MatMul(a, b, r1, c1, r2, c2)
           product(n) ==
             LET row == ((n - 1) \div c2) * c1
                 col == 1 + ((n - 1) % c2)
             IN Total([k \in 1 .. c1 |-> a[2][row + k] * b[2][(k - 1) * c2 + col]])
           proper == /\ ~(a[1] # b[1] \/ a[1] \notin ArrayTypes \ {"QUATARR"})
                     /\ ~(\/ ~({r1, c1, r2, c2} \subseteq Nat) \/ c1 # r2
                          \/ Len(a[2]) # r1 * c1 \/ Len(b[2]) # r2 * c2)
<1>1. CASE ~proper
  <2>1. r \in Bad
    BY <1>1 DEF MatMul, Bad
  <2> QED BY <2>1 DEF IsResult
<1>2. CASE proper
  <2>1. PICK n \in Nat : n = r1 * c2
    BY <1>2
  <2>2. CASE a[1] # "INTARR"
    <3>1. r = <<a[1], Copies(n, 0)>>
      BY <1>2, <2>1, <2>2 DEF MatMul
    <3>2. Copies(n, 0) = [i \in 1 .. n |-> Copies(n, 0)[i]]
      BY CopiesShape
    <3>3. a[1] \in ArrayTypes
      BY <1>2
    <3>4. IsData(<<a[1], Copies(n, 0)>>)
      BY <2>2, <3>2, <3>3, ArrayValue
    <3> QED BY <3>1, <3>4 DEF IsResult
  <2>3. CASE a[1] = "INTARR"
    <3> DEFINE xs == [i \in 1 .. n |-> Checked(product(i))]
    <3>1. r = IntVector(xs)
      BY <1>2, <2>1, <2>3 DEF MatMul
    <3>2. \A i \in 1 .. n : xs[i] # Undefined => xs[i][2] \in Int
      <4> HIDE DEF product
      <4> QED BY CheckedResult
    <3>3. xs = [i \in 1 .. n |-> xs[i]]
      OBVIOUS
    <3> HIDE DEF xs
    <3> QED BY <3>1, <3>2, <3>3, IntVectorResult
  <2> QED BY <2>2, <2>3
<1> QED BY <1>1, <1>2

LEMMA LogicResult ==
  ASSUME NEW op \in {"AND", "OR", "XOR"}, NEW a, NEW b
  PROVE  IsData(Logic(op, a, b))
<1>1. \E c : Logic(op, a, b) = BoolVal(c)
  BY Zenon DEF Logic
<1> QED BY <1>1, Literals

LEMMA CompareResult ==
  ASSUME NEW op, NEW a, NEW b
  PROVE  \A r \in Compare(op, a, b) : IsResult(r)
<1> SUFFICES ASSUME NEW r \in Compare(op, a, b)
             PROVE  r = Throws \/ \E c : r = BoolVal(c)
  BY Literals, UndefinedResult DEF IsResult
<1>1. CASE a[1] # b[1]
  BY <1>1 DEF Compare
<1>2. CASE a[1] = b[1] /\ a[1] = "INT"
  <2>1. Compare(op, a, b) = {BoolVal(IntCompare(op, a[2], b[2]))}
    BY <1>2, Zenon DEF Compare
  <2> QED BY <2>1
<1>3. CASE a[1] = b[1] /\ a[1] = "REAL"
  <2>1. Compare(op, a, b) = {BoolVal(TRUE), BoolVal(FALSE)}
    BY <1>3, Zenon DEF Compare
  <2> QED BY <2>1
<1>4. CASE a[1] = b[1] /\ a[1] \in {"STR", "INTARR"}
  <2>1. \E c : Compare(op, a, b) = {BoolVal(c)}
    BY <1>4, Zenon DEF Compare
  <2> QED BY <2>1
<1>5. CASE a[1] = b[1] /\ a[1] = "REALARR"
  <2>1. Compare(op, a, b) \in {{BoolVal(TRUE), BoolVal(FALSE)}, {BoolVal(FALSE)}}
    <3>1. Compare(op, a, b) = IF op \in {"EQU", "NEQU"} THEN {BoolVal(TRUE), BoolVal(FALSE)}
                                                        ELSE {BoolVal(FALSE)}
      BY <1>5, Zenon DEF Compare
    <3> QED BY <3>1
  <2> QED BY <2>1
<1>6. CASE a[1] = b[1] /\ a[1] \notin {"INT", "REAL", "STR", "INTARR", "REALARR"}
  <2>1. Compare(op, a, b) = {Throws}
    BY <1>6, Zenon DEF Compare
  <2> QED BY <2>1
<1> QED BY <1>1, <1>2, <1>3, <1>4, <1>5, <1>6

\* A power of two is the number of subsets of a set.
LEMMA Powers ==
  ASSUME NEW n \in Nat
  PROVE  2 ^ n \in Nat \ {0}
<1>1. IsFiniteSet(1 .. n) /\ Cardinality(1 .. n) = n
  BY FS_Interval
<1>2. IsFiniteSet(SUBSET (1 .. n)) /\ Cardinality(SUBSET (1 .. n)) = 2 ^ n
  BY <1>1, FS_SUBSET
<1>3. Cardinality(SUBSET (1 .. n)) \in Nat
  BY <1>2, FS_CardinalityType
<1>4. Cardinality(SUBSET (1 .. n)) # 0
  BY <1>2, FS_EmptySet
<1> QED BY <1>2, <1>3, <1>4

LEMMA SignedInt ==
  ASSUME NEW n \in Int
  PROVE  Signed(n) \in Int
<1>1. Modulus \in Int
  BY Powers, ValuesAssumption DEF Modulus
<1> QED BY <1>1 DEF Signed

\* An integer that is narrowed to an address is an integer (safe_array_index
\* <t_addr>, and the frame sizes of CALL and ADDFRAME).
LEMMA AddrInt ==
  ASSUME NEW n \in Int
  PROVE  ToAddr(n) \in Int
<1> DEFINE half == 2 ^ (AddrBits - 1)
<1>1. half \in Nat \ {0}
  <2>1. AddrBits - 1 \in Nat
    BY ValuesAssumption
  <2> QED BY <2>1, Powers
<1>2. ToAddr(n) = ((n + half) % (2 * half)) - half
  BY DEF ToAddr
<1> HIDE DEF half
<1>3. n + half \in Int /\ 2 * half \in Nat \ {0}
  BY <1>1
<1> DEFINE x == n + half
           y == 2 * half
<1>4. x % y \in Int
  <2> HIDE DEF x, y
  <2>1. x \in Int /\ y \in Nat \ {0}
    BY <1>3 DEF x, y
  <2> QED BY <2>1
<1> QED BY <1>1, <1>2, <1>4

LEMMA BitsInt ==
  ASSUME NEW s, s = [k \in 1 .. IntBits |-> s[k]],
         \A k \in 1 .. IntBits : s[k] \in {2 ^ (k - 1), 0}
  PROVE  Signed(Total(s)) \in Int
<1>1. IntBits \in Nat
  BY ValuesAssumption
<1>2. \A k \in 1 .. IntBits : s[k] \in Int
  <2> TAKE k \in 1 .. IntBits
  <2>1. k - 1 \in Nat
    BY <1>1
  <2>2. 2 ^ (k - 1) \in Int
    BY <2>1, Powers
  <2> QED BY <2>2
<1>3. s \in [1 .. IntBits -> Int]
  BY <1>2
<1>4. s \in Seq(Int)
  BY <1>1, <1>3, SeqDef
<1> QED BY <1>4, TotalInt, SignedInt

BinaryNames == {"BINAND", "BINOR", "BINXOR", "SHL", "SHR", "ROTL", "ROTR"}

LEMMA IntBinaryResult ==
  ASSUME NEW op \in BinaryNames, NEW a \in Int, NEW b \in Int
  PROVE  IsResult(IntBinary(op, a, b))
<1> DEFINE r == IntBinary(op, a, b)
           and == FromBits(LAMBDA k : BitOf(a, k) /\ BitOf(b, k))
           or == FromBits(LAMBDA k : BitOf(a, k) \/ BitOf(b, k))
           xor == FromBits(LAMBDA k : BitOf(a, k) # BitOf(b, k))
           rotated(n) == FromBits(LAMBDA k : BitOf(a, (k - n) % IntBits))
<1>1. CASE op = "BINAND"
  <2>1. r = IntVal(and)
    BY <1>1, Zenon DEF IntBinary
  <2>2. and \in Int
    BY BitsInt DEF FromBits
  <2> HIDE DEF and
  <2> QED BY <2>1, <2>2, Literals DEF IsResult
<1>2. CASE op = "BINOR"
  <2>1. r = IntVal(or)
    BY <1>2, Zenon DEF IntBinary
  <2>2. or \in Int
    BY BitsInt DEF FromBits
  <2> HIDE DEF or
  <2> QED BY <2>1, <2>2, Literals DEF IsResult
<1>3. CASE op = "BINXOR"
  <2>1. r = IntVal(xor)
    BY <1>3, Zenon DEF IntBinary
  <2>2. xor \in Int
    BY BitsInt DEF FromBits
  <2> HIDE DEF xor
  <2> QED BY <2>1, <2>2, Literals DEF IsResult
<1>4. CASE op \in {"SHL", "SHR"} /\ b \notin 0 .. IntBits - 1
  <2>1. r = Undefined
    BY <1>4, Zenon DEF IntBinary
  <2> QED BY <2>1, UndefinedResult
<1>5. CASE op = "SHL" /\ b \in 0 .. IntBits - 1
  <2>1. r = IntVal(Signed((a * 2 ^ b) % Modulus))
    BY <1>5, Zenon DEF IntBinary
  <2>2. Modulus \in Nat \ {0} /\ 2 ^ b \in Int
    BY <1>5, Powers, ValuesAssumption DEF Modulus
  <2>3. a * 2 ^ b \in Int
    BY <2>2
  <2>4. (a * 2 ^ b) % Modulus \in Int
    BY <2>2, <2>3
  <2> QED BY <2>1, <2>4, SignedInt, Literals DEF IsResult
<1>6. CASE op = "SHR" /\ b \in 0 .. IntBits - 1
  <2>1. r = IntVal(a \div 2 ^ b)
    BY <1>6, Zenon DEF IntBinary
  <2>2. 2 ^ b \in Nat \ {0}
    BY <1>6, Powers
  <2>3. a \div 2 ^ b \in Int
    BY <2>2, Division
  <2> QED BY <2>1, <2>3, Literals DEF IsResult
<1>7. CASE op \in {"ROTL", "ROTR"}
  <2>1. r = IntVal(rotated(b)) \/ r = IntVal(rotated(-b))
    <3>1. CASE op = "ROTL"
      <4>1. r = IntVal(rotated(b))
        BY <3>1, Zenon DEF IntBinary
      <4> QED BY <4>1
    <3>2. CASE op = "ROTR"
      <4>1. r = IntVal(rotated(-b))
        BY <3>2, Zenon DEF IntBinary
      <4> QED BY <4>1
    <3> QED BY <1>7, <3>1, <3>2
  <2>2. ASSUME NEW n
        PROVE  rotated(n) \in Int
    BY BitsInt DEF FromBits
  <2> HIDE DEF rotated
  <2> QED BY <2>1, <2>2, Literals DEF IsResult
<1> QED BY <1>1, <1>2, <1>3, <1>4, <1>5, <1>6, <1>7 DEF BinaryNames

LEMMA BinaryResult ==
  ASSUME NEW op \in BinaryNames, NEW a, NEW b, IsValue(a), IsValue(b)
  PROVE  IsResult(Binary(op, a, b))
BY IntBinaryResult, UndefinedResult DEF Binary, IsValue

-----------------------------------------------------------------------------
(* Casts and arrays.                                                       *)

LEMMA CastResult ==
  ASSUME NEW type \in ScalarTypes, NEW v, IsValue(v)
  PROVE  \A r \in Cast(type, v) : IsResult(r)
<1> DEFINE C == Cast(type, v)
           others == ~(v[1] = type \/ v[1] \in AddrTypes)
                     /\ ~(v[1] # type /\ type = "STR" /\ v[1] \in DataTypes)
<1>1. CASE v[1] = type \/ v[1] \in AddrTypes
  <2>1. C = {v}
    <3>1. CASE v[1] = type
      BY <3>1, Zenon DEF Cast
    <3>2. CASE v[1] \in AddrTypes
      <4>1. v[1] \notin {"REAL", "INT", "BOOL", "STR"} /\ v[1] \notin DataTypes
        BY <3>2 DEF AddrTypes, DataTypes, NumberTypes, ArrayTypes
      <4>2. v[1] # "INT" /\ v[1] # "BOOL" /\ v[1] # "STR" /\ v[1] # "REAL"
        BY <4>1
      <4> QED BY <3>2, <4>1, <4>2, Zenon DEF Cast
    <3> QED BY <1>1, <3>1, <3>2
  <2> QED BY <1>1, <2>1 DEF IsResult, IsData, ScalarTypes, NumberTypes, AddrTypes
<1>2. CASE v[1] # type /\ type = "STR" /\ v[1] \in DataTypes
  <2>1. C = {StrVal(s) : s \in Texts}
    <3>1. v[1] \notin AddrTypes
      BY <1>2, Types
    <3> QED BY <1>2, <3>1, Zenon DEF Cast
  <2> QED BY <2>1, Literals, ValuesAssumption DEF IsResult
<1>3. CASE others /\ v[1] = "INT" /\ type = "BOOL"
  <2>1. C = {BoolVal(v[2] % 256 # 0)}
    BY <1>3, Zenon DEF Cast
  <2> QED BY <2>1, Literals DEF IsResult
<1>4. CASE others /\ v[1] = "BOOL" /\ type = "INT"
  <2>1. C = {IntVal(IF v[2] THEN 1 ELSE 0)}
    BY <1>4, Zenon DEF Cast
  <2> QED BY <2>1, Literals DEF IsResult
<1>5. CASE others /\ v[1] = "STR" /\ type = "BOOL"
  <2>1. C = {BoolVal(~(Range(v[2]) \subseteq Blanks))}
    BY <1>5, Zenon DEF Cast
  <2> QED BY <2>1, Literals DEF IsResult
<1>6. CASE others /\ v[1] = "REAL" /\ type = "BOOL"
  <2>1. C = {BoolVal(TRUE), BoolVal(FALSE)}
    BY <1>6, Zenon DEF Cast
  <2> QED BY <2>1, Literals DEF IsResult
<1>7. CASE others /\ v[1] \in {"REAL", "STR"} /\ type = "INT"
  <2>1. C = {IntVal(n) : n \in SomeInts}
    BY <1>7, Zenon DEF Cast
  <2>2. \A n \in SomeInts : n \in Int
    BY ValuesAssumption
  <2> QED BY <2>1, <2>2, Literals DEF IsResult
<1>8. CASE others /\ v[1] \in {"REAL", "INT", "BOOL", "STR"} /\ type \in {"REAL", "CPLX", "QUAT"}
  <2>1. C = {Number(type)}
    BY <1>8, Zenon DEF Cast
  <2> QED BY <1>8, <2>1, Literals DEF IsResult, NumberTypes
<1>9. CASE /\ others /\ ~(v[1] = "INT" /\ type = "BOOL") /\ ~(v[1] = "BOOL" /\ type = "INT")
           /\ ~(v[1] = "STR" /\ type = "BOOL") /\ ~(v[1] = "REAL" /\ type = "BOOL")
           /\ ~(v[1] \in {"REAL", "STR"} /\ type = "INT")
           /\ ~(v[1] \in {"REAL", "INT", "BOOL", "STR"} /\ type \in {"REAL", "CPLX", "QUAT"})
  <2>1. C = {Throws}
    BY <1>9, Zenon DEF Cast
  <2> QED BY <2>1, UndefinedResult
<1> QED BY <1>1, <1>2, <1>3, <1>4, <1>5, <1>6, <1>7, <1>8, <1>9

LEMMA CastToArrayResult ==
  ASSUME NEW type \in ArrayTypes, NEW v, IsValue(v), NEW n \in Int
  PROVE  \A r \in CastToArray(type, v, n) : IsResult(r)
<1> DEFINE C == CastToArray(type, v, n)
<1>1. ASSUME NEW x, type = "INTARR" => x \in Int
      PROVE  IsResult(<<type, Copies(n, x)>>)
  <2>1. PICK m \in Nat : /\ Copies(n, x) = [i \in 1 .. m |-> Copies(n, x)[i]]
                         /\ 1 .. m = 1 .. n
    BY CopiesShape
  <2>2. \A i \in 1 .. m : Copies(n, x)[i] = x
    BY <2>1, CopiesShape
  <2>3. IsData(<<type, Copies(n, x)>>)
    BY <1>1, <2>1, <2>2, ArrayValue
  <2> QED BY <2>3 DEF IsResult
<1>2. CASE v[1] = type
  <2>1. C = {v}
    BY <1>2, Zenon DEF CastToArray, ArrayTypes
  <2> QED BY <1>2, <2>1 DEF IsResult, IsData, ArrayTypes
<1>3. CASE v[1] # type /\ v[1] = "INT"
  <2> DEFINE x == IF type = "INTARR" THEN v[2] ELSE 0
  <2>1. C = {<<type, Copies(n, x)>>}
    BY <1>3, Zenon DEF CastToArray, Elem
  <2>2. type = "INTARR" => x \in Int
    BY <1>3 DEF IsValue
  <2> HIDE DEF x
  <2> QED BY <1>1, <2>1, <2>2
<1>4. CASE v[1] # type /\ v[1] = "REAL"
  <2> DEFINE X == IF type = "INTARR" THEN SomeInts ELSE {0}
  <2>1. C = {<<type, Copies(n, x)>> : x \in X}
    BY <1>4, Zenon DEF CastToArray
  <2>2. \A x \in X : x \in Int
    BY ValuesAssumption
  <2> HIDE DEF X
  <2> QED BY <1>1, <2>1, <2>2
<1>5. CASE v[1] # type /\ v[1] \in {"CPLX", "QUAT"} /\ v[1] = Elem[type]
  <2>1. C = {<<type, Copies(n, 0)>>}
    BY <1>5, Zenon DEF CastToArray
  <2> QED BY <1>1, <2>1
<1>6. CASE v[1] # type /\ v[1] \notin {"INT", "REAL"}
           /\ ~(v[1] \in {"CPLX", "QUAT"} /\ v[1] = Elem[type])
  <2>1. C = {Throws}
    BY <1>6, Zenon DEF CastToArray
  <2> QED BY <2>1, UndefinedResult
<1> QED BY <1>2, <1>3, <1>4, <1>5, <1>6

\* An index always lies inside the array, so do the positions of a range.
LEMMA IndexInside ==
  ASSUME NEW i \in Int, NEW n \in Nat \ {0}
  PROVE  SafeIndex(i, n) \in 0 .. n - 1
BY Division DEF SafeIndex

LEMMA RangeInside ==
  ASSUME NEW i \in Int, NEW j \in Int, NEW n \in Nat \ {0}
  PROVE  \E m \in Nat : /\ IndexRange(i, j, n) = [k \in 1 .. m |-> IndexRange(i, j, n)[k]]
                        /\ \A k \in 1 .. m : IndexRange(i, j, n)[k] \in 0 .. n - 1
<1> DEFINE from == SafeIndex(i, n)
           to == SafeIndex(j, n)
<1>1. from \in 0 .. n - 1 /\ to \in 0 .. n - 1
  BY IndexInside
<1>2. IndexRange(i, j, n) = IF from <= to THEN [k \in 1 .. to - from + 1 |-> from + k - 1]
                                         ELSE [k \in 1 .. from - to + 1 |-> from - k + 1]
  BY DEF IndexRange
<1> HIDE DEF from, to
<1>3. CASE from <= to
  <2>1. to - from + 1 \in Nat
    BY <1>1, <1>3
  <2> QED BY <1>1, <1>2, <1>3, <2>1
<1>4. CASE ~(from <= to)
  <2>1. from - to + 1 \in Nat
    BY <1>1, <1>4
  <2> QED BY <1>1, <1>2, <1>4, <2>1
<1> QED BY <1>3, <1>4

\* The positions of a range are all different.
LEMMA RangeDistinct ==
  ASSUME NEW i \in Int, NEW j \in Int, NEW n \in Nat \ {0}
  PROVE  \A k, l \in DOMAIN IndexRange(i, j, n) :
           IndexRange(i, j, n)[k] = IndexRange(i, j, n)[l] => k = l
<1> DEFINE from == SafeIndex(i, n)
           to == SafeIndex(j, n)
<1>1. from \in 0 .. n - 1 /\ to \in 0 .. n - 1
  BY IndexInside
<1>2. IndexRange(i, j, n) = IF from <= to THEN [k \in 1 .. to - from + 1 |-> from + k - 1]
                                         ELSE [k \in 1 .. from - to + 1 |-> from - k + 1]
  BY DEF IndexRange
<1> HIDE DEF from, to
<1>3. CASE from <= to
  BY <1>1, <1>2, <1>3
<1>4. CASE ~(from <= to)
  BY <1>1, <1>2, <1>4
<1> QED BY <1>3, <1>4

LEMMA ReadElemResult ==
  ASSUME NEW v, IsValue(v), NEW i \in Int
  PROVE  IsResult(ReadElem(v, i))
<1>1. CASE ~IsSequence(v[1])
  <2>1. ReadElem(v, i) = Throws
    BY <1>1, Zenon DEF ReadElem
  <2> QED BY <2>1, UndefinedResult
<1>2. CASE IsSequence(v[1]) /\ v[2] = <<>>
  <2>1. ReadElem(v, i) = Undefined
    BY <1>2, Zenon DEF ReadElem
  <2> QED BY <2>1, UndefinedResult
<1>3. CASE IsSequence(v[1]) /\ v[2] # <<>>
  <2> DEFINE n == Len(v[2])
             k == SafeIndex(i, n) + 1
             x == v[2][k]
  <2>1. ReadElem(v, i) = IF v[1] = "STR" THEN StrVal(<<x>>) ELSE <<Elem[v[1]], x>>
    BY <1>3, Zenon DEF ReadElem
  <2>2. /\ n \in Nat /\ v[2] \in Seq(Range(v[2]))
        /\ v[1] = "INTARR" => \A m \in 1 .. n : v[2][m] \in Int
    BY <1>3, Elements DEF IsValue
  <2>3. n # 0
    BY <1>3, <2>2, EmptySeq
  <2>4. k \in 1 .. n
    <3> HIDE DEF n
    <3>1. SafeIndex(i, n) \in 0 .. n - 1
      BY <2>2, <2>3, IndexInside
    <3> QED BY <2>2, <3>1
  <2>5. v[1] = "INTARR" => x \in Int
    BY <2>2, <2>4
  <2> HIDE DEF x
  <2>6. CASE v[1] = "STR"
    <3>1. <<x>> \in Seq(Range(<<x>>))
      <4> DEFINE s == <<x>>
      <4>1. s = [m \in 1 .. 1 |-> s[m]]
        OBVIOUS
      <4> HIDE DEF s
      <4>2. s \in Seq(Range(s))
        BY <4>1, IsSeq
      <4> QED BY <4>2 DEF s
    <3> QED BY <2>1, <2>6, <3>1, Literals DEF IsResult
  <2>7. CASE v[1] # "STR"
    <3>1. v[1] \in ArrayTypes
      BY <1>3, <2>7 DEF IsSequence
    <3>2. Elem[v[1]] \in NumberTypes /\ (Elem[v[1]] = "INT" => v[1] = "INTARR")
      BY <3>1 DEF Elem, ArrayTypes, NumberTypes
    <3>3. IsData(<<Elem[v[1]], x>>)
      BY <2>5, <3>2 DEF IsData, IsValue, DataTypes, NumberTypes, AddrTypes, IsSequence, ArrayTypes
    <3> QED BY <2>1, <2>7, <3>3 DEF IsResult
  <2> QED BY <2>6, <2>7
<1> QED BY <1>1, <1>2, <1>3

LEMMA ReadRangeResult ==
  ASSUME NEW v, IsValue(v), NEW i \in Int, NEW j \in Int
  PROVE  IsResult(ReadRange(v, i, j))
<1>1. CASE ~IsSequence(v[1])
  <2>1. ReadRange(v, i, j) = Throws
    BY <1>1, Zenon DEF ReadRange
  <2> QED BY <2>1, UndefinedResult
<1>2. CASE IsSequence(v[1]) /\ v[2] = <<>>
  <2>1. ReadRange(v, i, j) = Undefined
    BY <1>2, Zenon DEF ReadRange
  <2> QED BY <2>1, UndefinedResult
<1>3. CASE IsSequence(v[1]) /\ v[2] # <<>>
  <2> DEFINE n == Len(v[2])
             r == IndexRange(i, j, n)
             s == [k \in DOMAIN r |-> v[2][r[k] + 1]]
  <2>1. ReadRange(v, i, j) = <<v[1], s>>
    BY <1>3, Zenon DEF ReadRange
  <2>2. /\ n \in Nat /\ v[2] \in Seq(Range(v[2]))
        /\ v[1] = "INTARR" => \A k \in 1 .. n : v[2][k] \in Int
    BY <1>3, Elements DEF IsValue
  <2>3. n \in Nat \ {0}
    BY <1>3, <2>2, EmptySeq
  <2>4. PICK m \in Nat : r = [k \in 1 .. m |-> r[k]] /\ \A k \in 1 .. m : r[k] \in 0 .. n - 1
    BY <2>3, RangeInside
  <2>5. DOMAIN r = 1 .. m
    BY <2>4
  <2> HIDE DEF r
  <2>6. s = [k \in 1 .. m |-> s[k]]
    BY <2>5
  <2>7. v[1] = "INTARR" => \A k \in 1 .. m : s[k] \in Int
    <3> SUFFICES ASSUME v[1] = "INTARR", NEW k \in 1 .. m PROVE s[k] \in Int
      OBVIOUS
    <3>1. r[k] + 1 \in 1 .. n
      BY <2>3, <2>4
    <3> QED BY <2>2, <2>5, <3>1
  <2> HIDE DEF s
  <2>8. CASE v[1] = "STR"
    <3>1. s \in Seq(Range(s))
      BY <2>6, IsSeq
    <3>2. IsData(StrVal(s))
      BY <3>1, Literals
    <3> QED BY <2>1, <2>8, <3>2 DEF StrVal, IsResult
  <2>9. CASE v[1] # "STR"
    <3>1. v[1] \in ArrayTypes
      BY <1>3, <2>9 DEF IsSequence
    <3> QED BY <2>1, <2>6, <2>7, <3>1, ArrayValue DEF IsResult
  <2> QED BY <2>8, <2>9
<1> QED BY <1>1, <1>2, <1>3
=============================================================================
