------------------------------- MODULE VMProofs -------------------------------
(***************************************************************************)
(* Proofs about the virtual machine, for every program: whatever bytes it  *)
(* consists of, the machine's state keeps its types; an instruction that   *)
(* is no store changes nothing below the stack, except for what it writes  *)
(* there and pops again itself; and the code that is run is the one that   *)
(* was loaded.                                                             *)
(***************************************************************************)
EXTENDS VM, VMValuesProofs

-----------------------------------------------------------------------------
(* Reading memory.                                                         *)

\* Every byte is one of data.
Memory(m) == DOMAIN m = Addresses /\ \A a \in Addresses : IsByte(m[a])

LEMMA MemSizeNat == MemSize \in Nat
BY VMAssumption

LEMMA OkNotBad == Ok \notin Bad
BY DEF Ok, Bad, Throws, Undefined

LEMMA RawRead ==
  ASSUME Memory(mem), NEW a \in Int, NEW kind \in DOMAIN RawSize, Raw(a, kind) \notin Bad
  PROVE  /\ a >= 0 /\ a + RawSize[kind] <= MemSize
         /\ kind \in {"int", "addr"} => Raw(a, kind)[2] \in Int
         /\ kind = "type" => Raw(a, kind)[2] \in AllTypes
<1> DEFINE n == RawSize[kind]
<1>1. n \in Nat \ {0}
  BY Sizes
<1>2. Raw(a, kind) = IF ~InBounds(a, n) \/ (kind = "type" /\ mem[a] = Zero) THEN Throws
                     ELSE IF \A k \in 1 .. n : mem[a + k - 1] = <<kind, mem[a][2], k>>
                       THEN <<kind, mem[a][2]>> ELSE Undefined
  BY DEF Raw
<1> HIDE DEF n
<1>3. InBounds(a, n) /\ \A k \in 1 .. n : mem[a + k - 1] = <<kind, mem[a][2], k>>
  BY <1>2 DEF Bad
<1>4. Raw(a, kind) = <<kind, mem[a][2]>>
  BY <1>2, <1>3 DEF Bad
<1>5. a >= 0 /\ a + n <= MemSize /\ a \in Addresses
  BY <1>1, <1>3, MemSizeNat DEF InBounds, Addresses
<1>6. mem[a] = <<kind, mem[a][2], 1>>
  <2>1. mem[a + 1 - 1] = <<kind, mem[a][2], 1>>
    BY <1>1, <1>3
  <2>2. a + 1 - 1 = a
    OBVIOUS
  <2> QED BY <2>1, <2>2
<1>7. mem[a][1] = kind
  BY <1>6
<1>8. IsByte(mem[a])
  BY <1>5 DEF Memory
<1>9. /\ kind \in {"int", "addr"} => mem[a][2] \in Int
      /\ kind = "type" => mem[a][2] \in AllTypes
  BY <1>7, <1>8 DEF IsByte, AllTypes
<1> QED BY <1>4, <1>5, <1>9 DEF n

LEMMA RawOutcome ==
  ASSUME NEW a, NEW kind
  PROVE  Raw(a, kind) \in Bad \/ Raw(a, kind) = <<kind, mem[a][2]>>
BY DEF Raw, Bad

LEMMA ElemRead ==
  ASSUME Memory(mem), NEW a \in Int, NEW type \in ScalarTypes, ElemAt(a, type) \notin Bad
  PROVE  /\ a >= 0 /\ a + ElemSize(type) <= MemSize
         /\ type = "INT" => ElemAt(a, type)[2] \in Int
<1> DEFINE kind == RawKind[type]
           n == RawSize[kind]
           c == RawCount[type]
           items == {Raw(a + k * n, kind) : k \in 0 .. c - 1}
<1>1. /\ kind \in DOMAIN RawSize /\ n \in Nat \ {0} /\ c \in Nat \ {0}
      /\ (kind = "int" <=> type = "INT") /\ ElemSize(type) = c * n
  <2>1. type \in DataTypes /\ ElemType(type) = type
    BY DEF ScalarTypes, DataTypes, ElemType, ArrayTypes, NumberTypes
  <2> QED BY <2>1, Sizes DEF ElemSize
<1>2. ElemAt(a, type) = IF Throws \in items THEN Throws
                        ELSE IF Undefined \in items THEN Undefined
                        ELSE CHOOSE x \in items : TRUE
  BY DEF ElemAt
<1> HIDE DEF kind, n, c
<1>3. \A x \in items : x \notin Bad
  BY <1>2 DEF Bad
<1>4. \A k \in 0 .. c - 1 : a + k * n \in Int /\ Raw(a + k * n, kind) \in items
  BY <1>1
<1>5. \A k \in 0 .. c - 1 :
         /\ a + k * n >= 0 /\ a + k * n + n <= MemSize
         /\ kind = "int" => Raw(a + k * n, kind)[2] \in Int
  <2> TAKE k \in 0 .. c - 1
  <2>1. a + k * n \in Int /\ Raw(a + k * n, kind) \notin Bad
    BY <1>3, <1>4
  <2> QED BY <1>1, <2>1, RawRead DEF n
<1>6. ElemAt(a, type) \in items
  <2>1. 0 \in 0 .. c - 1
    BY <1>1
  <2>2. items # {}
    BY <1>4, <2>1
  <2>3. ElemAt(a, type) = CHOOSE x \in items : TRUE
    BY <1>2, <1>3 DEF Bad
  <2> HIDE DEF items
  <2> QED BY <2>2, <2>3
<1>7. kind = "int" => ElemAt(a, type)[2] \in Int
  BY <1>5, <1>6
<1>8. a >= 0 /\ a + c * n <= MemSize
  <2>1. 0 \in 0 .. c - 1 /\ c - 1 \in 0 .. c - 1
    BY <1>1
  <2>2. a + 0 * n >= 0 /\ a + (c - 1) * n + n <= MemSize
    BY <1>5, <2>1
  <2>3. 0 * n = 0 /\ (c - 1) * n = c * n - n /\ c * n \in Int
    BY <1>1
  <2> QED BY <1>1, <2>2, <2>3
<1> QED BY <1>1, <1>7, <1>8

LEMMA ElemsRead ==
  ASSUME Memory(mem), NEW a \in Int, NEW n \in Int, NEW type, IsSequence(type),
         ElemsAt(a, n, type) \notin Bad
  PROVE  /\ n \in Nat /\ a >= 0 /\ a + n * ElemSize(type) <= MemSize
         /\ IsValue(ElemsAt(a, n, type)) /\ ElemsAt(a, n, type)[1] = type
         /\ Len(ElemsAt(a, n, type)[2]) = n
<1> DEFINE size == ElemSize(type)
           elem(i) == ElemAt(a + (i - 1) * size, ElemType(type))
           elems == [i \in 1 .. n |-> elem(i)]
           xs == [i \in 1 .. n |-> elems[i][2]]
<1>1. ElemsAt(a, n, type) = IF ~InBounds(a, n * size) THEN Throws
                            ELSE IF n < 0 \/ Undefined \in Range(elems) THEN Undefined
                            ELSE <<type, xs>>
  BY DEF ElemsAt
<1>2. type \in DataTypes /\ ElemType(type) \in ScalarTypes /\ size \in Nat \ {0}
  BY Types, Sizes
<1> HIDE DEF size, elem
<1>3. /\ InBounds(a, n * size) /\ n \in Nat /\ Undefined \notin Range(elems)
      /\ ElemsAt(a, n, type) = <<type, xs>>
  <2> HIDE DEF elems, xs
  <2>1. InBounds(a, n * size) /\ ~(n < 0 \/ Undefined \in Range(elems))
    BY <1>1 DEF Bad
  <2> QED BY <1>1, <2>1
<1>4. a >= 0 /\ a + n * size <= MemSize
  <2>1. n * size \in Int
    BY <1>2
  <2> QED BY <1>3, <2>1, MemSizeNat DEF InBounds
<1>5. \A i \in 1 .. n : ElemType(type) = "INT" => elem(i)[2] \in Int
  <2> SUFFICES ASSUME NEW i \in 1 .. n, ElemType(type) = "INT"
               PROVE  elem(i)[2] \in Int
    OBVIOUS
  <2>1. elem(i) # Undefined
    BY <1>3 DEF Range
  <2>2. CASE elem(i) = Throws
    BY <2>2 DEF Throws
  <2>3. CASE elem(i) # Throws
    <3>1. a + (i - 1) * size \in Int
      BY <1>2
    <3>2. elem(i) \notin Bad
      BY <2>1, <2>3 DEF Bad
    <3> QED BY <1>2, <3>1, <3>2, ElemRead DEF elem
  <2> QED BY <2>2, <2>3
<1>6. xs = [i \in 1 .. n |-> xs[i]]
  OBVIOUS
<1>7. type = "INTARR" => \A i \in 1 .. n : xs[i] \in Int
  BY <1>5 DEF ElemType, ArrayTypes, Elem
<1> HIDE DEF xs
<1>8. xs \in Seq(Range(xs)) /\ Len(xs) = n
  BY <1>3, <1>6, IsSeq
<1>9. IsValue(<<type, xs>>)
  <2>1. CASE type \in ArrayTypes
    BY <1>3, <1>6, <1>7, <2>1, ArrayValue
  <2>2. CASE type = "STR"
    BY <1>8, <2>2, Literals DEF StrVal
  <2> QED BY <2>1, <2>2, Types
<1> QED BY <1>3, <1>4, <1>8, <1>9 DEF size

\* What is read in full is a value that lies in memory.
LEMMA DataRead ==
  ASSUME Memory(mem), NEW a \in Int, DataAt(a) \notin Bad
  PROVE  /\ IsValue(DataAt(a)) /\ DataAt(a)[1] \in DataTypes \cup AddrTypes
         /\ a >= 0 /\ a + Size(DataAt(a)) <= MemSize
<1> DEFINE desc == Raw(a, "type")
           type == desc[2]
           addr == Raw(a + 1, "addr")
           elems == ElemsAt(a + 1 + AddrSize, addr[2], type)
           elem == ElemAt(a + 1, type)
           data == IF type = "UNKNOWN" THEN Throws
                   ELSE IF type \in AddrTypes
                     THEN IF addr \in Bad THEN addr ELSE <<type, addr[2]>>
                   ELSE IF IsSequence(type)
                     THEN IF addr \in Bad THEN addr ELSE elems
                   ELSE IF elem \in Bad THEN elem ELSE <<type, elem[2]>>
<1>1. DataAt(a) = IF desc \in Bad THEN desc ELSE data
  BY DEF DataAt, Then
<1>2. /\ {"type", "addr"} \subseteq DOMAIN RawSize /\ a + 1 \in Int
      /\ RawSize["type"] = 1 /\ RawSize["addr"] = AddrSize /\ AddrSize \in Nat \ {0}
  BY ValuesAssumption DEF RawSize
<1>3. desc \notin Bad /\ DataAt(a) = data
  BY <1>1
<1>4. a >= 0 /\ type \in AllTypes
  BY <1>2, <1>3, RawRead
<1>5. addr \notin Bad => addr[2] \in Int /\ a + 1 + AddrSize <= MemSize
  BY <1>2, RawRead
<1> HIDE DEF desc, type, addr
<1>6. type # "UNKNOWN"
  BY <1>3 DEF Bad
<1>7. CASE type \in AddrTypes
  <2>1. addr \notin Bad /\ data = <<type, addr[2]>>
    BY <1>3, <1>6, <1>7
  <2>2. IsValue(data)
    BY <1>5, <1>7, <2>1, Literals
  <2>3. Size(data) = 1 + AddrSize /\ data[1] = type
    BY <1>7, <2>1, <2>2, SizeAtLeast
  <2> QED BY <1>2, <1>3, <1>4, <1>5, <1>7, <2>1, <2>2, <2>3
<1>8. CASE type \notin AddrTypes /\ IsSequence(type)
  <2>1. addr \notin Bad /\ data = elems
    BY <1>3, <1>6, <1>8
  <2>2. elems \notin Bad /\ addr[2] \in Int /\ a + 1 + AddrSize \in Int
    BY <1>2, <1>3, <1>5, <2>1
  <2>3. /\ a + 1 + AddrSize + addr[2] * ElemSize(type) <= MemSize
        /\ IsValue(elems) /\ elems[1] = type /\ Len(elems[2]) = addr[2] /\ addr[2] \in Nat
    BY <1>8, <2>2, ElemsRead
  <2>4. Size(elems) = 1 + AddrSize + addr[2] * ElemSize(type)
    BY <1>8, <2>3, SizeAtLeast
  <2>5. type \in DataTypes /\ ElemSize(type) \in Nat
    BY <1>8, Types, Sizes
  <2> HIDE DEF elems, data
  <2>6. addr[2] * ElemSize(type) \in Int
    BY <2>3, <2>5
  <2> QED BY <1>2, <1>3, <1>4, <2>1, <2>3, <2>4, <2>5, <2>6, SMTT(30)
<1>9. CASE type \notin AddrTypes /\ ~IsSequence(type)
  <2>1. type \in DataTypes /\ type \in ScalarTypes /\ type \in NumberTypes \cup {"BOOL"}
    BY <1>4, <1>6, <1>9 DEF AllTypes, ScalarTypes, DataTypes, IsSequence
  <2>2. elem \notin Bad /\ data = <<type, elem[2]>>
    BY <1>3, <1>6, <1>9
  <2>3. /\ a + 1 + ElemSize(type) <= MemSize
        /\ type = "INT" => elem[2] \in Int
    BY <1>2, <2>1, <2>2, ElemRead
  <2> HIDE DEF elem
  <2>4. IsValue(data)
    <3>1. type \notin AddrTypes \cup {"UNKNOWN"} /\ type # "INTARR"
      BY <2>1 DEF NumberTypes, AddrTypes
    <3> QED BY <1>9, <2>1, <2>2, <2>3, <3>1 DEF IsValue
  <2>5. Size(data) = 1 + ElemSize(type) /\ data[1] = type
    BY <1>9, <2>1, <2>2, <2>4, SizeAtLeast
  <2>6. ElemSize(type) \in Nat
    BY <2>1, Sizes
  <2> QED BY <1>3, <1>4, <2>1, <2>2, <2>3, <2>4, <2>5, <2>6
<1> QED BY <1>7, <1>8, <1>9

-----------------------------------------------------------------------------
(* The stack.                                                              *)

\* p has popped at most n values from address a on, the i-th of types[i].
Pops(p, a, types, n) ==
  /\ p = [vals |-> p.vals, sp |-> p.sp, bad |-> p.bad]
  /\ p.bad \in {Ok} \cup Bad
  /\ p.sp \in Int /\ p.sp >= a /\ (a <= MemSize => p.sp <= MemSize)
  /\ p.vals \in Seq(Range(p.vals)) /\ Len(p.vals) <= n /\ (Len(p.vals) = 0 => p.sp = a)
  /\ \A i \in 1 .. Len(p.vals) :
       /\ IsValue(p.vals[i]) /\ p.vals[i][1] \in types[i]
       /\ p.vals[i][1] \in DataTypes \cup AddrTypes

LEMMA PopOne ==
  ASSUME Memory(mem), NEW a \in Int, NEW p, NEW n \in Nat, NEW types, Pops(p, a, types, n),
         NEW floor, p.bad = Ok => Len(p.vals) = n \/ p.sp >= floor,
         NEW accepted, accepted = types[n + 1]
  PROVE  /\ Pops(PopNext(p, accepted, floor), a, types, n + 1)
         /\ PopNext(p, accepted, floor).bad = Ok =>
              \/ Len(PopNext(p, accepted, floor).vals) = n + 1
              \/ PopNext(p, accepted, floor).sp >= floor
<1> DEFINE q == PopNext(p, accepted, floor)
           v == DataAt(p.sp)
<1>1. Len(p.vals) \in Nat
  BY SeqShape DEF Pops
<1>2. CASE p.bad # Ok \/ p.sp >= floor
  <2>1. q = p
    BY <1>2 DEF PopNext
  <2> QED BY <1>1, <1>2, <2>1 DEF Pops
<1>3. CASE p.bad = Ok /\ ~(p.sp >= floor) /\ v \in Bad
  <2>1. q = [p EXCEPT !.bad = v]
    BY <1>3 DEF PopNext, PopValue
  <2>2. /\ q = [vals |-> q.vals, sp |-> q.sp, bad |-> q.bad]
        /\ q.vals = p.vals /\ q.sp = p.sp /\ q.bad = v
    BY <2>1 DEF Pops
  <2> HIDE DEF q, v
  <2> QED BY <1>1, <1>3, <2>2, OkNotBad DEF Pops, q
<1>4. CASE p.bad = Ok /\ ~(p.sp >= floor) /\ v \notin Bad /\ v[1] \notin accepted
  <2>1. q = [p EXCEPT !.bad = Throws]
    BY <1>4 DEF PopNext, PopValue
  <2>2. /\ q = [vals |-> q.vals, sp |-> q.sp, bad |-> q.bad]
        /\ q.vals = p.vals /\ q.sp = p.sp /\ q.bad = Throws
    BY <2>1 DEF Pops
  <2> HIDE DEF q, v
  <2>3. Throws \in Bad
    BY DEF Bad
  <2> QED BY <1>1, <1>4, <2>2, <2>3, OkNotBad DEF Pops, q
<1>5. CASE p.bad = Ok /\ ~(p.sp >= floor) /\ v \notin Bad /\ v[1] \in accepted
  <2>1. q = [p EXCEPT !.vals = Append(@, v), !.sp = @ + Size(v)]
    BY <1>5 DEF PopNext, PopValue
  <2>2. /\ q = [vals |-> q.vals, sp |-> q.sp, bad |-> q.bad]
        /\ q.vals = Append(p.vals, v) /\ q.sp = p.sp + Size(v) /\ q.bad = Ok
    BY <1>5, <2>1 DEF Pops
  <2>3. p.sp \in Int /\ Len(p.vals) = n
    BY <1>5 DEF Pops
  <2>4. IsValue(v) /\ v[1] \in DataTypes \cup AddrTypes /\ p.sp + Size(v) <= MemSize
    BY <1>5, <2>3, DataRead
  <2>5. Size(v) \in Nat
    BY <2>4, SizeAtLeast
  <2> HIDE DEF q, v
  <2>6. /\ q.vals \in Seq(Range(q.vals)) /\ Len(q.vals) = n + 1
        /\ \A i \in 1 .. n : q.vals[i] = p.vals[i]
        /\ q.vals[n + 1] = v
    BY <2>2, <2>3, AppendAny DEF Pops
  <2>7. \A i \in 1 .. n + 1 : /\ IsValue(q.vals[i]) /\ q.vals[i][1] \in types[i]
                              /\ q.vals[i][1] \in DataTypes \cup AddrTypes
    <3> TAKE i \in 1 .. n + 1
    <3>1. CASE i = n + 1
      BY <1>5, <2>4, <2>6, <3>1
    <3>2. CASE i # n + 1
      <4>1. i \in 1 .. n
        BY <3>2
      <4> QED BY <2>3, <2>6, <4>1 DEF Pops
    <3> QED BY <3>1, <3>2
  <2>8. q.sp \in Int /\ q.sp >= a /\ q.sp <= MemSize
    BY <2>2, <2>3, <2>4, <2>5 DEF Pops
  <2>9. Pops(q, a, types, n + 1)
    BY <2>2, <2>6, <2>7, <2>8 DEF Pops
  <2> QED BY <1>5, <2>2, <2>6, <2>9 DEF q
<1> QED BY <1>2, <1>3, <1>4, <1>5

LEMMA PopAll ==
  ASSUME Memory(mem), NEW a \in Int, NEW types, Len(types) \in Nat, NEW floor
  PROVE  LET p == Popped(a, types, floor)
         IN /\ Pops(p, a, types, Len(types))
            /\ p.bad = Ok => Len(p.vals) = Len(types) \/ p.sp >= floor
<1> DEFINE N == Len(types)
           first == [vals |-> <<>>, sp |-> a, bad |-> Ok]
           IsPop(f, m) == f = [n \in 0 .. m |-> IF n = 0 THEN first
                                               ELSE PopNext(f[n - 1], types[n], floor)]
           pop == CHOOSE f : IsPop(f, N)
           Right(p, n) == /\ Pops(p, a, types, n)
                          /\ p.bad = Ok => Len(p.vals) = n \/ p.sp >= floor
<1>1. Popped(a, types, floor) = pop[N]
  BY DEF Popped
<1>2. N \in Nat
  OBVIOUS
<1> DEFINE T == {m \in Nat : m > N \/ \E f : IsPop(f, m)}
<1>3. 0 \in T
  <2> HIDE DEF first
  <2>1. IsPop([n \in 0 .. 0 |-> first], 0)
    OBVIOUS
  <2> HIDE DEF IsPop
  <2> QED BY <2>1
<1>4. ASSUME NEW m \in Nat, m \in T
      PROVE  m + 1 \in T
  <2> HIDE DEF first
  <2>1. CASE m + 1 > N
    BY <2>1
  <2>2. CASE ~(m + 1 > N)
    <3>1. PICK f : IsPop(f, m)
      BY <1>2, <1>4, <2>2
    <3> DEFINE g == [n \in 0 .. m + 1 |-> IF n = m + 1 THEN PopNext(f[m], types[m + 1], floor)
                                          ELSE f[n]]
    <3>2. ASSUME NEW n \in 0 .. m + 1
          PROVE  g[n] = IF n = 0 THEN first ELSE PopNext(g[n - 1], types[n], floor)
      <4>1. CASE n = m + 1
        BY <4>1
      <4>2. CASE n # m + 1
        <5>1. f[n] = IF n = 0 THEN first ELSE PopNext(f[n - 1], types[n], floor)
          BY <3>1, <4>2
        <5> QED BY <4>2, <5>1
      <4> QED BY <4>1, <4>2
    <3>3. IsPop(g, m + 1)
      BY <3>2
    <3> HIDE DEF g, IsPop
    <3>4. \E h : IsPop(h, m + 1)
      BY <3>3
    <3> QED BY <3>4
  <2> QED BY <2>1, <2>2
<1>5. IsPop(pop, N)
  <2>1. Nat \subseteq T
    <3> HIDE DEF T
    <3> QED BY <1>3, <1>4, SetInduction
  <2>2. \E f : IsPop(f, N)
    BY <1>2, <2>1
  <2> HIDE DEF IsPop
  <2> QED BY <2>2
<1> DEFINE U == {m \in Nat : m > N \/ Right(pop[m], m)}
<1>6. 0 \in U
  <2> HIDE DEF pop
  <2>1. pop[0] = first
    BY <1>2, <1>5
  <2>2. first.vals \in Seq(Range(first.vals)) /\ Len(first.vals) = 0
    BY EmptyAny
  <2>3. /\ first = [vals |-> first.vals, sp |-> first.sp, bad |-> first.bad]
        /\ first.sp = a /\ first.bad = Ok
    OBVIOUS
  <2> HIDE DEF first
  <2>4. Right(first, 0)
    BY <2>2, <2>3 DEF Pops
  <2> QED BY <2>1, <2>4
<1>7. ASSUME NEW m \in Nat, m \in U
      PROVE  m + 1 \in U
  <2> HIDE DEF pop, first
  <2>1. CASE m + 1 > N
    BY <2>1
  <2>2. CASE ~(m + 1 > N)
    <3>1. pop[m + 1] = PopNext(pop[m], types[m + 1], floor)
      BY <1>2, <1>5, <2>2
    <3>2. Right(pop[m], m)
      BY <1>2, <1>7, <2>2
    <3> DEFINE p == pop[m]
               accepted == types[m + 1]
               q == PopNext(p, accepted, floor)
    <3> HIDE DEF p, accepted
    <3>6. Pops(p, a, types, m) /\ (p.bad = Ok => Len(p.vals) = m \/ p.sp >= floor)
      BY <3>2 DEF p
    <3>3. /\ Pops(q, a, types, m + 1)
          /\ q.bad = Ok => Len(q.vals) = m + 1 \/ q.sp >= floor
      <4>1. accepted = types[m + 1]
        BY DEF accepted
      <4> QED BY <3>6, <4>1, PopOne
    <3> HIDE DEF q
    <3>4. Right(q, m + 1)
      BY <3>3
    <3>5. Right(pop[m + 1], m + 1)
      BY <3>1, <3>4 DEF p, accepted, q
    <3> HIDE DEF Right
    <3> QED BY <3>5
  <2> QED BY <2>1, <2>2
<1>8. Nat \subseteq U
  <2> HIDE DEF U
  <2> QED BY <1>6, <1>7, SetInduction
<1> HIDE DEF pop
<1> QED BY <1>1, <1>2, <1>8

\* All operands are popped, or it fails.
LEMMA PopOperands ==
  ASSUME Memory(mem), NEW a \in Int, a <= MemSize, NEW types, Len(types) \in Nat
  PROVE  LET p == Popped(a, types, MemSize + 1)
         IN /\ Pops(p, a, types, Len(types))
            /\ p.bad = Ok => Len(p.vals) = Len(types)
<1> DEFINE p == Popped(a, types, MemSize + 1)
<1>1. /\ Pops(p, a, types, Len(types))
      /\ p.bad = Ok => Len(p.vals) = Len(types) \/ p.sp >= MemSize + 1
  BY PopAll
<1> HIDE DEF p
<1>2. ~(p.sp >= MemSize + 1)
  BY <1>1, MemSizeNat DEF Pops
<1> QED BY <1>1, <1>2 DEF p

\* A value is read from memory, or it fails.
LEMMA PopRead ==
  ASSUME Memory(mem), NEW a \in Int, NEW accepted
  PROVE  LET p == ReadAt(a, accepted)
         IN /\ Pops(p, a, <<accepted>>, 1)
            /\ p.bad = Ok => Len(p.vals) = 1
<1> DEFINE p == Popped(a, <<accepted>>, a + 1)
<1>1. Len(<<accepted>>) = 1
  OBVIOUS
<1>2. /\ Pops(p, a, <<accepted>>, 1)
      /\ p.bad = Ok => Len(p.vals) = 1 \/ p.sp >= a + 1
  BY <1>1, PopAll
<1> HIDE DEF p
<1>3. p.bad = Ok => Len(p.vals) = 1
  <2>1. Len(p.vals) \in Nat
    BY <1>2, SeqShape DEF Pops
  <2> QED BY <1>2, <2>1 DEF Pops
<1> QED BY <1>2, <1>3 DEF p, ReadAt

\* s has pushed n values from the stack pointer top on, into memory m below it.
PushesOn(m, s, top, n) ==
  /\ s = [mem |-> s.mem, sp |-> s.sp, bad |-> s.bad]
  /\ s.bad \in {Ok} \cup Bad
  /\ s.sp \in Int /\ s.sp <= top
  /\ Memory(s.mem)
  /\ \A x \in Addresses : x \notin s.sp .. top - 1 => s.mem[x] = m[x]
  /\ s.bad = Ok /\ n > 0 => s.sp \in Addresses
Pushes(s, top, n) == PushesOn(mem, s, top, n)

LEMMA PushRoom ==
  ASSUME NEW top \in Int, NEW v, IsValue(v), PushOutcome(top, v) = Ok
  PROVE  top - Size(v) \in Addresses
<1> DEFINE n == Size(v)
           block == IF IsSequence(v[1]) THEN n - 1 - AddrSize
                    ELSE IF v[1] \in {"CPLX", "QUAT"} THEN n - 1 ELSE 0
           single == IF IsSequence(v[1]) THEN AddrSize
                     ELSE IF v[1] \in {"CPLX", "QUAT"} THEN 1 ELSE n - 1
<1>1. n \in Nat /\ n >= 1 /\ AddrSize \in Nat
  BY SizeAtLeast, ValuesAssumption
<1>2. PushOutcome(top, v) = IF top - block < 0 \/ top - block + single > MemSize THEN Throws
                            ELSE IF top - n < 0 THEN Undefined ELSE Ok
  BY DEF PushOutcome
<1> HIDE DEF n
<1>3. block \in Int /\ single \in Int /\ block <= n - 1 /\ single >= 0
  BY <1>1
<1> HIDE DEF block, single
<1>4. ~(top - block < 0 \/ top - block + single > MemSize) /\ ~(top - n < 0)
  BY <1>2 DEF Ok, Throws, Undefined
<1>5. top - n \in Addresses
  BY <1>1, <1>3, <1>4, MemSizeNat DEF Addresses
<1> QED BY <1>5 DEF n

LEMMA OverlayMemory ==
  ASSUME NEW m, Memory(m), NEW a \in Int, NEW v, IsValue(v)
  PROVE  /\ Memory(Overlay(m, a, Encode(v)))
         /\ \A x \in Addresses : x \notin a .. a + Size(v) - 1 => Overlay(m, a, Encode(v))[x] = m[x]
<1> DEFINE o == Overlay(m, a, Encode(v))
<1>1. Size(v) \in Nat /\ DOMAIN Encode(v) = 1 .. Size(v)
      /\ \A k \in 1 .. Size(v) : IsByte(Encode(v)[k])
  BY SizeAtLeast, EncodeBytes
<1>2. o = [x \in Addresses |-> IF x - a + 1 \in 1 .. Size(v) THEN Encode(v)[x - a + 1] ELSE m[x]]
  BY <1>1 DEF Overlay
<1>3. \A x \in Addresses : x \in Int
  BY MemSizeNat DEF Addresses
<1> HIDE DEF o
<1>4. Memory(o)
  BY <1>1, <1>2 DEF Memory
<1>5. \A x \in Addresses : x \notin a .. a + Size(v) - 1 => o[x] = m[x]
  BY <1>1, <1>2, <1>3
<1> QED BY <1>4, <1>5 DEF o

LEMMA PushOne ==
  ASSUME NEW m, NEW top \in Int, NEW n \in Nat, NEW s, PushesOn(m, s, top, n),
         NEW v, IsValue(v)
  PROVE  PushesOn(m, PushNext(s, v), top, n + 1)
<1> DEFINE t == PushNext(s, v)
<1>1. CASE s.bad # Ok
  <2>1. t = s
    BY <1>1 DEF PushNext
  <2> QED BY <1>1, <2>1 DEF PushesOn
<1>2. CASE s.bad = Ok /\ PushOutcome(s.sp, v) # Ok
  <2>1. PushOutcome(s.sp, v) \in {Throws, Undefined, Ok}
    BY DEF PushOutcome
  <2>2. PushOutcome(s.sp, v) \in Bad
    BY <1>2, <2>1 DEF Bad
  <2>3. t = [s EXCEPT !.bad = PushOutcome(s.sp, v)]
    BY <1>2 DEF PushNext, PushValue
  <2>4. /\ t = [mem |-> t.mem, sp |-> t.sp, bad |-> t.bad]
        /\ t.mem = s.mem /\ t.sp = s.sp /\ t.bad \in Bad
    BY <2>2, <2>3 DEF PushesOn
  <2> HIDE DEF t
  <2>5. PushesOn(m, t, top, n + 1)
    BY <2>4, OkNotBad DEF PushesOn
  <2> QED BY <2>5 DEF t
<1>3. CASE s.bad = Ok /\ PushOutcome(s.sp, v) = Ok
  <2>1. t = [s EXCEPT !.sp = @ - Size(v), !.mem = Overlay(@, s.sp - Size(v), Encode(v))]
    BY <1>3 DEF PushNext, PushValue
  <2> DEFINE a == s.sp - Size(v)
             o == Overlay(s.mem, a, Encode(v))
  <2>2. /\ t = [mem |-> t.mem, sp |-> t.sp, bad |-> t.bad]
        /\ t.mem = o /\ t.sp = a /\ t.bad = Ok
    BY <1>3, <2>1 DEF PushesOn
  <2>3. Size(v) \in Nat /\ s.sp \in Int /\ s.sp <= top
    BY SizeAtLeast DEF PushesOn
  <2>4. a \in Int /\ a <= top /\ a \in Addresses /\ a + Size(v) - 1 = s.sp - 1
    BY <1>3, <2>3, PushRoom
  <2>5. /\ Memory(o)
        /\ \A x \in Addresses : x \notin a .. s.sp - 1 => o[x] = s.mem[x]
    <3>1. Memory(s.mem) /\ a \in Int
      BY <2>4 DEF PushesOn
    <3> HIDE DEF a
    <3> QED BY <2>4, <3>1, OverlayMemory
  <2> HIDE DEF o, t
  <2>6. \A x \in Addresses : x \notin a .. top - 1 => o[x] = m[x]
    <3> SUFFICES ASSUME NEW x \in Addresses, x \notin a .. top - 1 PROVE o[x] = m[x]
      OBVIOUS
    <3>1. x \in Int
      BY MemSizeNat DEF Addresses
    <3>2. x \notin a .. s.sp - 1 /\ x \notin s.sp .. top - 1
      BY <2>3, <2>4, <3>1
    <3> QED BY <2>5, <3>2 DEF PushesOn
  <2> HIDE DEF a
  <2>7. PushesOn(m, t, top, n + 1)
    BY <2>2, <2>4, <2>5, <2>6 DEF PushesOn
  <2> QED BY <2>7 DEF t
<1> QED BY <1>1, <1>2, <1>3

LEMMA PushAll ==
  ASSUME NEW before, Memory(before), NEW top \in Int, NEW vs, Len(vs) \in Nat,
         \A i \in 1 .. Len(vs) : IsValue(vs[i])
  PROVE  PushesOn(before, PushedOn(before, top, vs), top, Len(vs))
<1> DEFINE N == Len(vs)
           first == Moved(before, top)
           IsPush(f, m) == f = [n \in 0 .. m |-> IF n = 0 THEN first
                                                ELSE PushNext(f[n - 1], vs[n])]
           push == CHOOSE f : IsPush(f, N)
<1>1. PushedOn(before, top, vs) = push[N]
  BY DEF PushedOn
<1>2. N \in Nat
  OBVIOUS
<1> DEFINE T == {m \in Nat : m > N \/ \E f : IsPush(f, m)}
<1>3. 0 \in T
  <2> HIDE DEF first
  <2>1. IsPush([n \in 0 .. 0 |-> first], 0)
    OBVIOUS
  <2> HIDE DEF IsPush
  <2> QED BY <2>1
<1>4. ASSUME NEW m \in Nat, m \in T
      PROVE  m + 1 \in T
  <2> HIDE DEF first
  <2>1. CASE m + 1 > N
    BY <2>1
  <2>2. CASE ~(m + 1 > N)
    <3>1. PICK f : IsPush(f, m)
      BY <1>2, <1>4, <2>2
    <3> DEFINE g == [n \in 0 .. m + 1 |-> IF n = m + 1 THEN PushNext(f[m], vs[m + 1])
                                          ELSE f[n]]
    <3>2. ASSUME NEW n \in 0 .. m + 1
          PROVE  g[n] = IF n = 0 THEN first ELSE PushNext(g[n - 1], vs[n])
      <4>1. CASE n = m + 1
        BY <4>1
      <4>2. CASE n # m + 1
        <5>1. f[n] = IF n = 0 THEN first ELSE PushNext(f[n - 1], vs[n])
          BY <3>1, <4>2
        <5> QED BY <4>2, <5>1
      <4> QED BY <4>1, <4>2
    <3>3. IsPush(g, m + 1)
      BY <3>2
    <3> HIDE DEF g, IsPush
    <3>4. \E h : IsPush(h, m + 1)
      BY <3>3
    <3> QED BY <3>4
  <2> QED BY <2>1, <2>2
<1>5. IsPush(push, N)
  <2>1. Nat \subseteq T
    <3> HIDE DEF T
    <3> QED BY <1>3, <1>4, SetInduction
  <2>2. \E f : IsPush(f, N)
    BY <1>2, <2>1
  <2> HIDE DEF IsPush
  <2> QED BY <2>2
<1> DEFINE U == {m \in Nat : m > N \/ PushesOn(before, push[m], top, m)}
<1>6. 0 \in U
  <2> HIDE DEF push
  <2>1. push[0] = first
    BY <1>2, <1>5
  <2>2. /\ first = [mem |-> first.mem, sp |-> first.sp, bad |-> first.bad]
        /\ first.mem = before /\ first.sp = top /\ first.bad = Ok
    BY DEF Moved
  <2> HIDE DEF first
  <2>3. PushesOn(before, first, top, 0)
    BY <2>2 DEF PushesOn
  <2> QED BY <2>1, <2>3
<1>7. ASSUME NEW m \in Nat, m \in U
      PROVE  m + 1 \in U
  <2> HIDE DEF push, first
  <2>1. CASE m + 1 > N
    BY <2>1
  <2>2. CASE ~(m + 1 > N)
    <3>1. push[m + 1] = PushNext(push[m], vs[m + 1])
      BY <1>2, <1>5, <2>2
    <3>2. PushesOn(before, push[m], top, m) /\ IsValue(vs[m + 1])
      BY <1>2, <1>7, <2>2
    <3>3. PushesOn(before, push[m + 1], top, m + 1)
      BY <3>1, <3>2, PushOne
    <3> QED BY <3>3
  <2> QED BY <2>1, <2>2
<1>8. Nat \subseteq U
  <2> HIDE DEF U
  <2> QED BY <1>6, <1>7, SetInduction
<1> HIDE DEF push
<1> QED BY <1>1, <1>2, <1>8

-----------------------------------------------------------------------------
(* Instructions that compute.                                              *)

LEMMA OpNames ==
  /\ DOMAIN CastTo = {"TOR", "TOI", "TOC", "TOQ", "TOB", "TOS"}
  /\ DOMAIN CastToArr = {"TOREALARR", "TOINTARR", "TOCPLXARR", "TOQUATARR"}
  /\ DOMAIN MakeOps = {"MAKEREALARR", "MAKEINTARR", "MAKECPLXARR", "MAKEQUATARR"}
  /\ \A op \in DOMAIN CastTo : CastTo[op] \in ScalarTypes
  /\ \A op \in DOMAIN CastToArr : CastToArr[op] \in ArrayTypes
  /\ \A op \in DOMAIN MakeOps : MakeOps[op] \in ArrayTypes
BY DEF CastTo, CastToArr, MakeOps, ScalarTypes, NumberTypes, ArrayTypes

LEMMA OperandsOf ==
  ASSUME NEW op
  PROVE  /\ op \in {"USUB", "BINNOT"} \cup DOMAIN CastTo => OperandTypes(op) = <<AnyType>>
         /\ op = "NOT" => OperandTypes(op) = <<{"BOOL", "INT"}>>
         /\ op \in LogicOps => OperandTypes(op) = <<{"BOOL", "INT"}, {"BOOL", "INT"}>>
         /\ op \in ArithOps \cup CompareOps \cup BinaryOps =>
              OperandTypes(op) = <<AnyType, AnyType>>
         /\ op \in DOMAIN CastToArr => OperandTypes(op) = <<AddrTypes, AnyType>>
         /\ op = "RDARR" => OperandTypes(op) = <<{"INT"}, AnyType>>
         /\ op = "RDARRR" => OperandTypes(op) = <<{"INT"}, {"INT"}, AnyType>>
         /\ op = "MATMUL" => OperandTypes(op) =
              <<{"INT"}, {"INT"}, {"INT"}, {"INT"}, AnyType, AnyType>>
<1>1. op \in {"USUB", "BINNOT"} \cup DOMAIN CastTo => OperandTypes(op) = <<AnyType>>
  BY OpNames, Zenon DEF OperandTypes, LogicOps, ArithOps, CompareOps, BinaryOps
<1>2. op = "NOT" => OperandTypes(op) = <<{"BOOL", "INT"}>>
  BY OpNames, Zenon DEF OperandTypes, LogicOps, ArithOps, CompareOps, BinaryOps
<1>3. op \in LogicOps => OperandTypes(op) = <<{"BOOL", "INT"}, {"BOOL", "INT"}>>
  BY OpNames, Zenon DEF OperandTypes, LogicOps, ArithOps, CompareOps, BinaryOps
<1>4. op \in ArithOps \cup CompareOps \cup BinaryOps => OperandTypes(op) = <<AnyType, AnyType>>
  BY OpNames, Zenon DEF OperandTypes, LogicOps, ArithOps, CompareOps, BinaryOps
<1>5. op \in DOMAIN CastToArr => OperandTypes(op) = <<AddrTypes, AnyType>>
  BY OpNames, Zenon DEF OperandTypes, LogicOps, ArithOps, CompareOps, BinaryOps
<1>6. op = "RDARR" => OperandTypes(op) = <<{"INT"}, AnyType>>
  BY OpNames, Zenon DEF OperandTypes, LogicOps, ArithOps, CompareOps, BinaryOps
<1>7. op = "RDARRR" => OperandTypes(op) = <<{"INT"}, {"INT"}, AnyType>>
  BY OpNames, Zenon DEF OperandTypes, LogicOps, ArithOps, CompareOps, BinaryOps
<1>8. op = "MATMUL" => OperandTypes(op) = <<{"INT"}, {"INT"}, {"INT"}, {"INT"}, AnyType, AnyType>>
  BY OpNames, Zenon DEF OperandTypes, LogicOps, ArithOps, CompareOps, BinaryOps
<1> QED BY <1>1, <1>2, <1>3, <1>4, <1>5, <1>6, <1>7, <1>8

LEMMA ResultsOf ==
  ASSUME NEW op, NEW v, NEW top
  PROVE  /\ op = "USUB" =>
              Results(op, v, top) = {Negate(v[1])}
         /\ op = "NOT" =>
              Results(op, v, top) = {BoolVal(~Truth(v[1]))}
         /\ op = "BINNOT" =>
              Results(op, v, top) = {IF v[1][1] = "INT" THEN IntVal(-v[1][2] - 1) ELSE Throws}
         /\ op \in ArithOps =>
              Results(op, v, top) = {Arith(op, v[2], v[1])}
         /\ op \in CompareOps =>
              Results(op, v, top) = Compare(op, v[2], v[1])
         /\ op \in LogicOps =>
              Results(op, v, top) = {Logic(op, v[2], v[1])}
         /\ op \in BinaryOps =>
              Results(op, v, top) = {Binary(op, v[2], v[1])}
         /\ op \in DOMAIN CastTo =>
              Results(op, v, top) = Cast(CastTo[op], v[1])
         /\ op \in DOMAIN CastToArr =>
              Results(op, v, top) = CastToArray(CastToArr[op], v[2], Resolve(v[1], next, top, bp))
         /\ op = "RDARR" =>
              Results(op, v, top) = {ReadElem(v[2], v[1][2])}
         /\ op = "RDARRR" =>
              Results(op, v, top) = {ReadRange(v[3], v[2][2], v[1][2])}
         /\ op = "MATMUL" =>
              Results(op, v, top) = {MatMul(v[6], v[5], v[4][2], v[3][2], v[2][2], v[1][2])}
<1>1. op = "USUB" =>
        Results(op, v, top) = {Negate(v[1])}
  BY OpNames, Zenon DEF Results, LogicOps, ArithOps, CompareOps, BinaryOps
<1>2. op = "NOT" =>
        Results(op, v, top) = {BoolVal(~Truth(v[1]))}
  BY OpNames, Zenon DEF Results, LogicOps, ArithOps, CompareOps, BinaryOps
<1>3. op = "BINNOT" =>
        Results(op, v, top) = {IF v[1][1] = "INT" THEN IntVal(-v[1][2] - 1) ELSE Throws}
  BY OpNames, Zenon DEF Results, LogicOps, ArithOps, CompareOps, BinaryOps
<1>4. op \in ArithOps =>
        Results(op, v, top) = {Arith(op, v[2], v[1])}
  BY OpNames, Zenon DEF Results, LogicOps, ArithOps, CompareOps, BinaryOps
<1>5. op \in CompareOps =>
        Results(op, v, top) = Compare(op, v[2], v[1])
  BY OpNames, Zenon DEF Results, LogicOps, ArithOps, CompareOps, BinaryOps
<1>6. op \in LogicOps =>
        Results(op, v, top) = {Logic(op, v[2], v[1])}
  BY OpNames, Zenon DEF Results, LogicOps, ArithOps, CompareOps, BinaryOps
<1>7. op \in BinaryOps =>
        Results(op, v, top) = {Binary(op, v[2], v[1])}
  BY OpNames, Zenon DEF Results, LogicOps, ArithOps, CompareOps, BinaryOps
<1>8. op \in DOMAIN CastTo =>
        Results(op, v, top) = Cast(CastTo[op], v[1])
  BY OpNames, Zenon DEF Results, LogicOps, ArithOps, CompareOps, BinaryOps
<1>9. op \in DOMAIN CastToArr =>
        Results(op, v, top) = CastToArray(CastToArr[op], v[2], Resolve(v[1], next, top, bp))
  BY OpNames, Zenon DEF Results, LogicOps, ArithOps, CompareOps, BinaryOps
<1>10. op = "RDARR" =>
        Results(op, v, top) = {ReadElem(v[2], v[1][2])}
  BY OpNames, Zenon DEF Results, LogicOps, ArithOps, CompareOps, BinaryOps
<1>11. op = "RDARRR" =>
        Results(op, v, top) = {ReadRange(v[3], v[2][2], v[1][2])}
  BY OpNames, Zenon DEF Results, LogicOps, ArithOps, CompareOps, BinaryOps
<1>12. op = "MATMUL" =>
        Results(op, v, top) = {MatMul(v[6], v[5], v[4][2], v[3][2], v[2][2], v[1][2])}
  BY OpNames, Zenon DEF Results, LogicOps, ArithOps, CompareOps, BinaryOps
<1> QED BY <1>1, <1>2, <1>3, <1>4, <1>5, <1>6, <1>7, <1>8, <1>9, <1>10, <1>11, <1>12

LEMMA ResolveInt ==
  ASSUME NEW v, v[1] \in AddrTypes, IsValue(v),
         NEW n \in Int, NEW top \in Int, NEW base \in Int
  PROVE  Resolve(v, n, top, base) \in Int
<1> DEFINE offset == CASE v[1] = "ADDR_MEM" -> 0 [] v[1] = "ADDR_IP" -> n
                       [] v[1] = "ADDR_SP" -> top [] v[1] = "ADDR_BP" -> base
                       [] v[1] = "ADDR_GBP" -> gbp
<1>1. Resolve(v, n, top, base) = v[2] + offset
  BY DEF Resolve
<1>2. /\ v[1] = "ADDR_MEM" => offset = 0
      /\ v[1] = "ADDR_IP" => offset = n
      /\ v[1] = "ADDR_SP" => offset = top
      /\ v[1] = "ADDR_BP" => offset = base
      /\ v[1] = "ADDR_GBP" => offset = gbp
  <2>1. v[1] = "ADDR_MEM" => offset = 0
    BY Zenon
  <2>2. v[1] = "ADDR_IP" => offset = n
    BY Zenon
  <2>3. v[1] = "ADDR_SP" => offset = top
    BY Zenon
  <2>4. v[1] = "ADDR_BP" => offset = base
    BY Zenon
  <2>5. v[1] = "ADDR_GBP" => offset = gbp
    BY Zenon
  <2> HIDE DEF offset
  <2> QED BY <2>1, <2>2, <2>3, <2>4, <2>5
<1> HIDE DEF offset
<1>3. offset \in Int
  BY <1>2, MemSizeNat DEF AddrTypes, gbp
<1>4. v[2] \in Int
  BY DEF IsValue
<1> QED BY <1>1, <1>3, <1>4

\* v holds the operands of op.
Operand(v, op) ==
  \A i \in 1 .. Len(OperandTypes(op)) : IsValue(v[i]) /\ v[i][1] \in OperandTypes(op)[i]

LEMMA ResultTyped ==
  ASSUME NEW op \in ComputeOps, NEW v, Operand(v, op), NEW top \in Int, ip \in Int, bp \in Int
  PROVE  \A r \in Results(op, v, top) : IsResult(r)
<1>1. CASE op = "USUB"
  <2>1. OperandTypes(op) = <<AnyType>>
    BY <1>1, OperandsOf
  <2>2. IsValue(v[1]) /\ v[1][1] # "UNKNOWN"
    BY <2>1, Types DEF Operand, AnyType
  <2> QED BY <1>1, <2>2, ResultsOf, NegateResult
<1>2. CASE op = "NOT"
  BY <1>2, ResultsOf, Literals DEF IsResult
<1>3. CASE op = "BINNOT"
  <2>1. OperandTypes(op) = <<AnyType>>
    BY <1>3, OperandsOf
  <2>2. IsValue(v[1])
    BY <2>1 DEF Operand
  <2>3. v[1][1] = "INT" => -v[1][2] - 1 \in Int
    BY <2>2 DEF IsValue
  <2>4. IsResult(IF v[1][1] = "INT" THEN IntVal(-v[1][2] - 1) ELSE Throws)
    BY <2>3, Literals, UndefinedResult DEF IsResult
  <2> QED BY <1>3, <2>4, ResultsOf
<1>4. CASE op \in ArithOps \cup CompareOps \cup BinaryOps
  <2>1. OperandTypes(op) = <<AnyType, AnyType>>
    BY <1>4, OperandsOf
  <2>2. IsValue(v[1]) /\ IsValue(v[2]) /\ "UNKNOWN" \notin {v[1][1], v[2][1]}
    BY <2>1, Types DEF Operand, AnyType
  <2>3. CASE op \in ArithOps
    <3>1. IsResult(Arith(op, v[2], v[1]))
      BY <2>2, <2>3, ArithResult DEF ArithOps, ArithNames
    <3> QED BY <2>3, <3>1, ResultsOf
  <2>4. CASE op \in CompareOps
    BY <2>4, ResultsOf, CompareResult
  <2>5. CASE op \in BinaryOps
    <3>1. IsResult(Binary(op, v[2], v[1]))
      BY <2>2, <2>5, BinaryResult DEF BinaryOps, BinaryNames
    <3> QED BY <2>5, <3>1, ResultsOf
  <2> QED BY <1>4, <2>3, <2>4, <2>5
<1>5. CASE op \in LogicOps
  <2>1. IsResult(Logic(op, v[2], v[1]))
    BY <1>5, LogicResult DEF LogicOps, IsResult
  <2> QED BY <1>5, <2>1, ResultsOf
<1>6. CASE op \in DOMAIN CastTo
  <2>1. OperandTypes(op) = <<AnyType>>
    BY <1>6, OperandsOf
  <2>2. IsValue(v[1]) /\ CastTo[op] \in ScalarTypes
    BY <1>6, <2>1, OpNames DEF Operand
  <2> QED BY <1>6, <2>2, ResultsOf, CastResult
<1>7. CASE op \in DOMAIN CastToArr
  <2>1. OperandTypes(op) = <<AddrTypes, AnyType>>
    BY <1>7, OperandsOf
  <2>2. /\ IsValue(v[1]) /\ v[1][1] \in AddrTypes /\ IsValue(v[2])
        /\ CastToArr[op] \in ArrayTypes
    BY <1>7, <2>1, OpNames DEF Operand
  <2>3. next \in Int
    BY DEF next
  <2>4. Resolve(v[1], next, top, bp) \in Int
    BY <2>2, <2>3, ResolveInt
  <2> QED BY <1>7, <2>2, <2>4, ResultsOf, CastToArrayResult
<1>8. CASE op = "RDARR"
  <2>1. OperandTypes(op) = <<{"INT"}, AnyType>>
    BY <1>8, OperandsOf
  <2>2. IsValue(v[1]) /\ v[1][1] = "INT" /\ IsValue(v[2])
    BY <2>1 DEF Operand
  <2>3. v[1][2] \in Int
    BY <2>2 DEF IsValue
  <2>4. IsResult(ReadElem(v[2], v[1][2]))
    BY <2>2, <2>3, ReadElemResult
  <2> QED BY <1>8, <2>4, ResultsOf
<1>9. CASE op = "RDARRR"
  <2>1. OperandTypes(op) = <<{"INT"}, {"INT"}, AnyType>>
    BY <1>9, OperandsOf
  <2>2. IsValue(v[1]) /\ v[1][1] = "INT" /\ IsValue(v[2]) /\ v[2][1] = "INT" /\ IsValue(v[3])
    BY <2>1 DEF Operand
  <2>3. v[1][2] \in Int /\ v[2][2] \in Int
    BY <2>2 DEF IsValue
  <2>4. IsResult(ReadRange(v[3], v[2][2], v[1][2]))
    BY <2>2, <2>3, ReadRangeResult
  <2> QED BY <1>9, <2>4, ResultsOf
<1>10. CASE op = "MATMUL"
  BY <1>10, ResultsOf, MatMulResult
<1> QED BY <1>1, <1>2, <1>3, <1>4, <1>5, <1>6, <1>7, <1>8, <1>9, <1>10 DEF ComputeOps

-----------------------------------------------------------------------------
(* The invariant: the types, and that memory, the addresses of interrupt   *)
(* routines and the history of calls hold numbers where they are used as   *)
(* numbers.  The flags of the interrupts, which each step changes in its   *)
(* own way, are kept apart.                                                *)

Activation == [frame : Addresses, size : Int, ret : Int, bp : Int]

Machine ==
  /\ prog \in DOMAIN Programs /\ codeEnd \in Nat
  /\ ip \in Int /\ sp \in Int /\ bp \in Int /\ ip < MemSize
  /\ Memory(mem)
  /\ status \in Statuses
  /\ DOMAIN isrs \subseteq 0 .. NumInterrupts - 1
  /\ \A n \in DOMAIN isrs : isrs[n] \in Int
  /\ raised \in 0 .. MaxIrqs
  /\ calls \in Seq(Activation)

IInv == Machine /\ irqs \subseteq HostIrqs

LEMMA TypesInvariant == IInv => TypeOK
<1> SUFFICES ASSUME IInv PROVE TypeOK
  OBVIOUS
<1>1. \A i \in DOMAIN calls : calls[i] \in Activation
  BY LenProperties, ElementOfSeq DEF IInv, Machine
<1>2. \A i \in DOMAIN calls : calls[i].frame \in Addresses
  BY <1>1 DEF Activation
<1> QED BY <1>2 DEF IInv, Machine, Memory, TypeOK

\* A step keeps the machine's types, and what lies below the stack.
Step == Machine' /\ KeepsBelow /\ prog' = prog /\ codeEnd' = codeEnd

LEMMA FailStep ==
  ASSUME Machine, NEW b \in Bad, Fail(b)
  PROVE  Step
<1>1. b[1] \in Statuses
  BY DEF Bad, Throws, Undefined, Statuses
<1>2. /\ prog' = prog /\ codeEnd' = codeEnd /\ raised' = raised /\ ip' = ip /\ sp' = sp
      /\ bp' = bp /\ mem' = mem /\ isrs' = isrs /\ calls' = calls /\ status' = b[1]
  BY DEF Fail, env, regs
<1>3. KeepsBelow
  BY <1>2 DEF KeepsBelow
<1> QED BY <1>1, <1>2, <1>3 DEF Machine, Step

LEMMA MemoryNotEmpty ==
  ASSUME prog \in DOMAIN Programs
  PROVE  MemSize \in Nat \ {0}
<1>1. Len(Programs[prog]) \in 1 .. MemSize - Pad
  BY VMAssumption
<1> QED BY <1>1, VMAssumption

LEMMA GoToStep ==
  ASSUME prog \in DOMAIN Programs, NEW addr \in Int, GoTo(addr)
  PROVE  ip' \in Int /\ ip' < MemSize
<1>1. MemSize \in Nat \ {0}
  BY MemoryNotEmpty
<1>2. addr % MemSize \in 0 .. MemSize - 1
  BY <1>1, Division
<1> QED BY <1>1, <1>2 DEF GoTo

LEMMA ContinueStep ==
  ASSUME Machine, NEW s, NEW addr \in Int, Continue(s, addr), s.bad \in {Ok} \cup Bad,
         s.sp \in Int, Memory(s.mem)
  PROVE  /\ Machine' /\ prog' = prog /\ codeEnd' = codeEnd /\ calls' = calls
         /\ mem' = mem \/ (mem' = s.mem /\ sp' = s.sp)
<1>1. IF s.bad # Ok THEN Fail(s.bad)
      ELSE /\ mem' = s.mem /\ sp' = s.sp /\ GoTo(addr)
           /\ UNCHANGED <<env, bp, status, isrs, calls>>
  BY DEF Continue, With
<1>2. CASE s.bad # Ok
  <2>1. s.bad \in Bad /\ Fail(s.bad)
    BY <1>1, <1>2
  <2>2. mem' = mem /\ calls' = calls
    BY <2>1 DEF Fail
  <2> QED BY <2>1, <2>2, FailStep DEF Step
<1>3. CASE s.bad = Ok
  <2>1. /\ mem' = s.mem /\ sp' = s.sp /\ GoTo(addr) /\ prog' = prog /\ codeEnd' = codeEnd
        /\ raised' = raised /\ bp' = bp /\ status' = status /\ isrs' = isrs /\ calls' = calls
    BY <1>1, <1>3 DEF env
  <2>2. ip' \in Int /\ ip' < MemSize
    BY <2>1, GoToStep DEF Machine
  <2> QED BY <2>1, <2>2 DEF Machine
<1> QED BY <1>2, <1>3

\* m is the memory, but for what is written below the stack and popped again.
Scratched(m) == Memory(m) /\ \A a \in Addresses : m[a] # mem[a] => InScratch(a)

\* The instruction has pushed s, or failed to.
LEMMA PushOnStep ==
  ASSUME Machine, NEW m, Scratched(m), NEW top \in Int, NEW n, NEW s, PushesOn(m, s, top, n),
         NEW addr \in Int, Continue(s, addr)
  PROVE  Step
<1>1. /\ Machine' /\ prog' = prog /\ codeEnd' = codeEnd /\ calls' = calls
      /\ mem' = mem \/ (mem' = s.mem /\ sp' = s.sp)
  BY ContinueStep DEF PushesOn
<1>2. KeepsBelow
  <2> SUFFICES ASSUME NEW a \in Addresses, mem'[a] # mem[a] PROVE a >= sp' \/ InScratch(a)
    BY <1>1 DEF KeepsBelow
  <2>1. mem' = s.mem /\ sp' = s.sp
    BY <1>1
  <2>2. CASE m[a] # mem[a]
    BY <2>2 DEF Scratched
  <2>3. CASE m[a] = mem[a]
    <3>1. a \in s.sp .. top - 1
      BY <2>1, <2>3 DEF PushesOn
    <3> QED BY <2>1, <3>1 DEF PushesOn
  <2> QED BY <2>2, <2>3
<1> QED BY <1>1, <1>2 DEF Step

LEMMA PushStep ==
  ASSUME Machine, NEW top \in Int, NEW n, NEW s, Pushes(s, top, n), NEW addr \in Int,
         Continue(s, addr)
  PROVE  Step
<1>1. Scratched(mem)
  BY DEF Scratched, Machine
<1> QED BY <1>1, PushOnStep DEF Pushes

\* The instruction has moved the stack pointer only.
LEMMA MoveStep ==
  ASSUME Machine, NEW top \in Int, NEW addr \in Int, Continue(Moved(mem, top), addr)
  PROVE  Step
<1>1. /\ Moved(mem, top).bad = Ok /\ Moved(mem, top).sp = top /\ Moved(mem, top).mem = mem
      /\ Memory(mem)
  BY DEF Moved, Machine
<1>2. /\ Machine' /\ prog' = prog /\ codeEnd' = codeEnd /\ calls' = calls
      /\ mem' = mem \/ mem' = Moved(mem, top).mem
  BY <1>1, ContinueStep
<1> QED BY <1>1, <1>2 DEF Step, KeepsBelow

-----------------------------------------------------------------------------
(* The instructions.                                                       *)

LEMMA Bounds ==
  ASSUME Machine, Looping
  PROVE  /\ sp \in Int /\ sp <= MemSize /\ bp \in Int /\ bp <= MemSize /\ next \in Int
         /\ sp >= codeEnd /\ bp >= codeEnd /\ Memory(mem) /\ MemSize \in Nat
BY MemSizeNat DEF Machine, Looping, PointersInBounds, next

LEMMA Fetched ==
  ASSUME NEW ops, Fetch(ops)
  PROVE  Looping /\ opcode \in ops /\ irqs' = {}
BY DEF Fetch, opcode

\* The sum of the stack pointer and the size of what was popped first.
LEMMA AfterFirst ==
  ASSUME NEW a \in Int, NEW p, NEW types, NEW n, Pops(p, a, types, n), Len(p.vals) >= 1
  PROVE  sp \in Int => sp + Size(p.vals[1]) \in Int
<1>1. Len(p.vals) \in Nat
  BY SeqShape DEF Pops
<1>2. IsValue(p.vals[1])
  BY <1>1 DEF Pops
<1> QED BY <1>2, SizeAtLeast

LEMMA OperandCount ==
  ASSUME NEW op \in ComputeOps
  PROVE  Len(OperandTypes(op)) \in Nat /\ Len(OperandTypes(op)) >= 1
<1>1. CASE op \in {"USUB", "BINNOT"} \cup DOMAIN CastTo
  BY <1>1, OperandsOf, SMTT(30)
<1>2. CASE op = "NOT"
  <2>1. OperandTypes(op) = <<{"BOOL", "INT"}>>
    BY <1>2, OperandsOf
  <2> QED BY <2>1
<1>3. CASE op \in LogicOps
  <2>1. OperandTypes(op) = <<{"BOOL", "INT"}, {"BOOL", "INT"}>>
    BY <1>3, OperandsOf
  <2> QED BY <2>1
<1>4. CASE op \in ArithOps \cup CompareOps \cup BinaryOps
  BY <1>4, OperandsOf
<1>5. CASE op \in DOMAIN CastToArr
  <2>1. OperandTypes(op) = <<AddrTypes, AnyType>>
    BY <1>5, OperandsOf
  <2> QED BY <2>1
<1>6. CASE op \in {"RDARR", "RDARRR", "MATMUL"}
  <2>1. op = "RDARR" \/ op = "RDARRR" \/ op = "MATMUL"
    BY <1>6
  <2> QED BY <2>1, OperandsOf
<1> QED BY <1>1, <1>2, <1>3, <1>4, <1>5, <1>6 DEF ComputeOps

LEMMA PushedValue ==
  ASSUME NEW m, NEW top, NEW v
  PROVE  PushedOn(m, top, <<v>>) = PushNext(Moved(m, top), v)
<1> DEFINE first == Moved(m, top)
           vs == <<v>>
           IsPush(f) == f = [n \in 0 .. 1 |-> IF n = 0 THEN first ELSE PushNext(f[n - 1], vs[n])]
           push == CHOOSE f : IsPush(f)
           g == [n \in 0 .. 1 |-> IF n = 0 THEN first ELSE PushNext(first, v)]
<1>1. Len(vs) = 1 /\ vs[1] = v
  OBVIOUS
<1>2. PushedOn(m, top, vs) = push[1]
  <2> HIDE DEF first
  <2> QED BY <1>1 DEF PushedOn, first
<1> HIDE DEF vs, first
<1>3. ASSUME NEW n \in 0 .. 1
      PROVE  g[n] = IF n = 0 THEN first ELSE PushNext(g[n - 1], vs[n])
  <2>1. n = 0 \/ n = 1
    OBVIOUS
  <2> QED BY <1>1, <2>1
<1>4. IsPush(g)
  BY <1>3
<1>5. IsPush(push)
  <2> HIDE DEF IsPush, g
  <2> QED BY <1>4
<1> HIDE DEF push, g
<1>6. push[0] = first /\ push[1] = PushNext(push[0], vs[1])
  BY <1>5
<1>7. push[1] = PushNext(first, v)
  BY <1>1, <1>6
<1> QED BY <1>2, <1>7 DEF vs, first

\* It takes up no more than its size.
LEMMA PushedBelow ==
  ASSUME NEW m, Memory(m), NEW top \in Int, NEW v, IsValue(v),
         NEW s, s = PushedOn(m, top, <<v>>)
  PROVE  PushesOn(m, s, top, 1) /\ s.sp >= top - Size(v)
<1> DEFINE vs == <<v>>
           first == Moved(m, top)
<1>1. Len(vs) = 1 /\ \A i \in 1 .. 1 : vs[i] = v
  OBVIOUS
<1> HIDE DEF vs
<1>2. Len(vs) \in Nat /\ \A i \in 1 .. Len(vs) : IsValue(vs[i])
  BY <1>1
<1>3. PushesOn(m, PushedOn(m, top, vs), top, Len(vs))
  BY <1>2, PushAll
<1>4. PushesOn(m, s, top, 1)
  BY <1>1, <1>3 DEF vs
<1>5. s = PushNext(first, v) /\ first.bad = Ok /\ first.sp = top
      /\ first = [mem |-> first.mem, sp |-> first.sp, bad |-> first.bad]
  BY PushedValue DEF Moved
<1> HIDE DEF first
<1>6. s = PushValue(first, v, PushOutcome(top, v))
  BY <1>5 DEF PushNext
<1>7. s.sp = top \/ s.sp = top - Size(v)
  <2>1. CASE PushOutcome(top, v) # Ok
    <3>1. s = [first EXCEPT !.bad = PushOutcome(top, v)]
      BY <1>6, <2>1 DEF PushValue
    <3> QED BY <1>5, <3>1
  <2>2. CASE PushOutcome(top, v) = Ok
    <3>1. s = [first EXCEPT !.sp = @ - Size(v), !.mem = Overlay(@, first.sp - Size(v), Encode(v))]
      BY <1>6, <2>2 DEF PushValue
    <3> QED BY <1>5, <3>1
  <2> QED BY <2>1, <2>2
<1>8. Size(v) \in Nat
  BY SizeAtLeast
<1> QED BY <1>4, <1>7, <1>8

\* A single value is pushed.
LEMMA PushSingle ==
  ASSUME Memory(mem), NEW top \in Int, NEW v, IsValue(v)
  PROVE  Pushes(Pushed(top, <<v>>), top, 1)
<1> DEFINE vs == <<v>>
<1>1. Len(vs) = 1 /\ \A i \in 1 .. 1 : vs[i] = v
  OBVIOUS
<1> HIDE DEF vs
<1>2. Len(vs) \in Nat /\ \A i \in 1 .. Len(vs) : IsValue(vs[i])
  BY <1>1
<1>3. Pushes(Pushed(top, vs), top, Len(vs))
  BY <1>2, PushAll DEF Pushes, Pushed
<1> QED BY <1>1, <1>3 DEF vs

LEMMA ComputeStep ==
  ASSUME Machine, Compute
  PROVE  Step
<1>1. Looping /\ opcode \in ComputeOps
  BY Fetched DEF Compute
<1> DEFINE types == OperandTypes(opcode)
           p == Operands(types)
<1>2. IF p.bad # Ok THEN Fail(p.bad)
      ELSE \E r \in Results(opcode, p.vals, sp + Size(p.vals[1])) :
             IF r \in Bad THEN Fail(r) ELSE Continue(Pushed(p.sp, <<r>>), next)
  BY DEF Compute, With
<1>3. Len(types) \in Nat /\ Len(types) >= 1
  BY <1>1, OperandCount
<1>4. Pops(p, sp, types, Len(types)) /\ (p.bad = Ok => Len(p.vals) = Len(types))
  <2> HIDE DEF types
  <2>1. /\ Pops(Popped(sp, types, MemSize + 1), sp, types, Len(types))
        /\ Popped(sp, types, MemSize + 1).bad = Ok =>
             Len(Popped(sp, types, MemSize + 1).vals) = Len(types)
    BY <1>1, <1>3, Bounds, PopOperands
  <2> QED BY <2>1 DEF Operands
<1> HIDE DEF p
<1>5. CASE p.bad # Ok
  <2>1. p.bad \in Bad
    BY <1>4, <1>5 DEF Pops
  <2> QED BY <1>2, <1>5, <2>1, FailStep
<1>6. CASE p.bad = Ok
  <2>1. PICK r \in Results(opcode, p.vals, sp + Size(p.vals[1])) :
          IF r \in Bad THEN Fail(r) ELSE Continue(Pushed(p.sp, <<r>>), next)
    BY <1>2, <1>6
  <2>2. Operand(p.vals, opcode)
    BY <1>4, <1>6 DEF Operand, Pops
  <2>3. sp + Size(p.vals[1]) \in Int
    BY <1>1, <1>3, <1>4, <1>6, AfterFirst, Bounds
  <2>4. IsResult(r)
    BY <1>1, <2>1, <2>2, <2>3, ResultTyped DEF Machine
  <2>5. CASE r \in Bad
    BY <2>1, <2>5, FailStep
  <2>6. CASE r \notin Bad
    <3>1. IsValue(r) /\ Continue(Pushed(p.sp, <<r>>), next)
      BY <2>1, <2>4, <2>6 DEF IsResult, IsData
    <3>2. p.sp \in Int /\ next \in Int /\ Memory(mem)
      BY <1>1, <1>4, Bounds DEF Pops
    <3>3. Pushes(Pushed(p.sp, <<r>>), p.sp, 1)
      BY <3>1, <3>2, PushSingle
    <3> QED BY <3>1, <3>2, <3>3, PushStep
  <2> QED BY <2>5, <2>6
<1> QED BY <1>5, <1>6

\* The operands of an instruction.
LEMMA OperandsPopped ==
  ASSUME Machine, Looping, NEW types, Len(types) \in Nat
  PROVE  /\ Pops(Operands(types), sp, types, Len(types))
         /\ Operands(types).bad # Ok => Operands(types).bad \in Bad
         /\ Operands(types).bad = Ok =>
              /\ Len(Operands(types).vals) = Len(types)
              /\ Operands(types).sp \in Int /\ Operands(types).sp <= MemSize
              /\ \A i \in 1 .. Len(types) :
                   /\ IsValue(Operands(types).vals[i])
                   /\ Operands(types).vals[i][1] \in types[i]
<1> DEFINE p == Popped(sp, types, MemSize + 1)
<1>1. Pops(p, sp, types, Len(types)) /\ (p.bad = Ok => Len(p.vals) = Len(types))
  BY Bounds, PopOperands
<1>2. sp <= MemSize
  BY Bounds
<1> HIDE DEF p
<1>3. /\ p.bad # Ok => p.bad \in Bad
      /\ p.bad = Ok => /\ p.sp \in Int /\ p.sp <= MemSize
                       /\ \A i \in 1 .. Len(types) :
                            IsValue(p.vals[i]) /\ p.vals[i][1] \in types[i]
  BY <1>1, <1>2 DEF Pops
<1> QED BY <1>1, <1>3 DEF p, Operands

LEMMA MakeFromStep ==
  ASSUME Machine, Looping, NEW top \in Int, top <= MemSize, NEW n \in Int,
         NEW type \in ArrayTypes, MakeFrom(top, n, type)
  PROVE  Step
<1>1. CASE n < 0
  <2>1. Fail(Throws)
    BY <1>1 DEF MakeFrom
  <2> QED BY <2>1, FailStep DEF Bad
<1>2. CASE ~(n < 0)
  <2> DEFINE types == Copies(n, {Elem[type]})
             p == Popped(top, types, MemSize + 1)
             xs == [i \in 1 .. n |-> p.vals[n - i + 1][2]]
  <2>1. IF p.bad # Ok THEN Fail(p.bad) ELSE Continue(Pushed(p.sp, <<<<type, xs>>>>), next)
    BY <1>2 DEF MakeFrom, With
  <2>2. n \in Nat /\ Len(types) = n /\ \A i \in 1 .. n : types[i] = {Elem[type]}
    BY <1>2, CopiesShape, IsSeq
  <2> HIDE DEF types
  <2>3. Pops(p, top, types, n) /\ (p.bad = Ok => Len(p.vals) = n)
    BY <2>2, Bounds, PopOperands
  <2> HIDE DEF p
  <2>4. CASE p.bad # Ok
    <3>1. p.bad \in Bad
      BY <2>3, <2>4 DEF Pops
    <3> QED BY <2>1, <2>4, <3>1, FailStep
  <2>5. CASE p.bad = Ok
    <3>1. type = "INTARR" => \A i \in 1 .. n : xs[i] \in Int
      <4> SUFFICES ASSUME type = "INTARR", NEW i \in 1 .. n PROVE p.vals[n - i + 1][2] \in Int
        OBVIOUS
      <4>1. n - i + 1 \in 1 .. n
        BY <2>2
      <4>2. IsValue(p.vals[n - i + 1]) /\ p.vals[n - i + 1][1] \in types[n - i + 1]
        BY <2>3, <2>5, <4>1 DEF Pops
      <4>3. p.vals[n - i + 1][1] = "INT"
        BY <2>2, <4>1, <4>2 DEF Elem
      <4> QED BY <4>2, <4>3 DEF IsValue
    <3>2. xs = [i \in 1 .. n |-> xs[i]]
      OBVIOUS
    <3> HIDE DEF xs
    <3>3. IsValue(<<type, xs>>)
      BY <2>2, <3>1, <3>2, ArrayValue
    <3>4. p.sp \in Int /\ next \in Int /\ Memory(mem)
      BY <2>3, Bounds DEF Pops
    <3>5. Pushes(Pushed(p.sp, <<<<type, xs>>>>), p.sp, 1)
      BY <3>3, <3>4, PushSingle
    <3> QED BY <2>1, <2>5, <3>4, <3>5, PushStep
  <2> QED BY <2>4, <2>5
<1> QED BY <1>1, <1>2

LEMMA MakeArrStep ==
  ASSUME Machine, MakeArr
  PROVE  Step
<1>1. Looping /\ opcode \in DOMAIN MakeOps
  BY Fetched DEF MakeArr
<1> DEFINE types == <<AddrTypes>>
           p == Operands(types)
<1>2. IF p.bad # Ok THEN Fail(p.bad)
      ELSE MakeFrom(p.sp, Resolve(p.vals[1], next, p.sp, bp), MakeOps[opcode])
  BY DEF MakeArr, With
<1>3. Len(types) = 1 /\ types[1] = AddrTypes
  OBVIOUS
<1> HIDE DEF types
<1>4. /\ p.bad # Ok => p.bad \in Bad
      /\ p.bad = Ok => /\ p.sp \in Int /\ p.sp <= MemSize
                       /\ IsValue(p.vals[1]) /\ p.vals[1][1] \in AddrTypes
  BY <1>1, <1>3, OperandsPopped
<1> HIDE DEF p
<1>5. CASE p.bad # Ok
  BY <1>2, <1>4, <1>5, FailStep
<1>6. CASE p.bad = Ok
  <2>1. Resolve(p.vals[1], next, p.sp, bp) \in Int
    BY <1>1, <1>4, <1>6, Bounds, ResolveInt
  <2>2. MakeOps[opcode] \in ArrayTypes
    BY <1>1, OpNames
  <2> QED BY <1>1, <1>2, <1>4, <1>6, <2>1, <2>2, MakeFromStep
<1> QED BY <1>5, <1>6

\* A value that was read is pushed.
LEMMA ReadAndPushed ==
  ASSUME Machine, Looping, NEW a \in Int, NEW accepted, NEW top \in Int, NEW data,
         data = ReadAt(a, accepted), data.bad = Ok
  PROVE  data.sp \in Int /\ Pushes(Pushed(top, data.vals), top, 1)
<1>1. Memory(mem)
  BY DEF Machine
<1>2. Pops(data, a, <<accepted>>, 1) /\ Len(data.vals) = 1
  BY <1>1, PopRead
<1>3. /\ Len(data.vals) \in Nat /\ \A i \in 1 .. Len(data.vals) : IsValue(data.vals[i])
      /\ data.sp \in Int
  BY <1>2 DEF Pops
<1> QED BY <1>1, <1>2, <1>3, PushAll DEF Pushes, Pushed

LEMMA ReadFails ==
  ASSUME Memory(mem), NEW a \in Int, NEW accepted, ReadAt(a, accepted).bad # Ok
  PROVE  ReadAt(a, accepted).bad \in Bad
BY PopRead DEF Pops

LEMMA InstructionPush ==
  ASSUME Machine, Push
  PROVE  Step
<1>1. Looping
  BY Fetched DEF Push
<1> DEFINE accepted == AnyType \ ArrayTypes
           data == ReadAt(next, accepted)
<1>2. IF data.bad # Ok THEN Fail(data.bad) ELSE Continue(Pushed(sp, data.vals), data.sp)
  BY DEF Push, With
<1>3. next \in Int /\ sp \in Int /\ Memory(mem)
  BY <1>1, Bounds
<1> HIDE DEF accepted
<1>4. data.bad # Ok => data.bad \in Bad
  BY <1>3, ReadFails
<1>5. data.bad = Ok => data.sp \in Int /\ Pushes(Pushed(sp, data.vals), sp, 1)
  BY <1>1, <1>3, ReadAndPushed
<1> HIDE DEF data
<1> QED BY <1>2, <1>3, <1>4, <1>5, FailStep, PushStep

LEMMA RdMemStep ==
  ASSUME Machine, RdMem
  PROVE  Step
<1>1. Looping
  BY Fetched DEF RdMem
<1> DEFINE types == <<AddrTypes>>
           p == Operands(types)
           a == Resolve(p.vals[1], next, p.sp, bp)
           data == ReadAt(a, AnyType)
<1>2. IF p.bad # Ok THEN Fail(p.bad)
      ELSE IF data.bad # Ok THEN Fail(data.bad) ELSE Continue(Pushed(p.sp, data.vals), next)
  BY DEF RdMem, With
<1>3. Len(types) = 1 /\ types[1] = AddrTypes
  OBVIOUS
<1> HIDE DEF types
<1>4. /\ p.bad # Ok => p.bad \in Bad
      /\ p.bad = Ok => /\ p.sp \in Int
                       /\ IsValue(p.vals[1]) /\ p.vals[1][1] \in AddrTypes
  BY <1>1, <1>3, OperandsPopped
<1> HIDE DEF p
<1>5. CASE p.bad # Ok
  BY <1>2, <1>4, <1>5, FailStep
<1>6. CASE p.bad = Ok
  <2>1. a \in Int /\ next \in Int /\ Memory(mem)
    BY <1>1, <1>4, <1>6, Bounds, ResolveInt
  <2> HIDE DEF a
  <2>2. data.bad # Ok => data.bad \in Bad
    BY <2>1, ReadFails
  <2>3. data.bad = Ok => Pushes(Pushed(p.sp, data.vals), p.sp, 1)
    BY <1>1, <1>4, <1>6, <2>1, ReadAndPushed
  <2> HIDE DEF data
  <2> QED BY <1>2, <1>4, <1>6, <2>1, <2>2, <2>3, FailStep, PushStep
<1> QED BY <1>5, <1>6

\* A store keeps the types of memory.
Stored == Machine' /\ prog' = prog /\ codeEnd' = codeEnd

LEMMA StepStored == Step => Stored
BY DEF Step, Stored

LEMMA WriteStep ==
  ASSUME Machine, Looping, NEW a \in Int, NEW v, IsValue(v), NEW top \in Int, Write(a, v, top)
  PROVE  Stored
<1>1. CASE v[1] \in AddrTypes \/ ~InBounds(a, Size(v))
  <2>1. Fail(Throws)
    BY <1>1 DEF Write
  <2> QED BY <2>1, FailStep, StepStored DEF Bad
<1>2. CASE ~(v[1] \in AddrTypes \/ ~InBounds(a, Size(v)))
  <2> DEFINE o == Overlay(mem, a, Encode(v))
             s == Moved(o, top)
  <2>1. Continue(s, next)
    BY <1>2 DEF Write
  <2>2. s.bad = Ok /\ s.sp = top /\ s.mem = o
    BY DEF Moved
  <2>3. Memory(o)
    BY OverlayMemory DEF Machine
  <2> HIDE DEF o, s
  <2> QED BY <2>1, <2>2, <2>3, Bounds, ContinueStep DEF Stored
<1> QED BY <1>1, <1>2

LEMMA WrMemStep ==
  ASSUME Machine, WrMem
  PROVE  Stored
<1>1. Looping
  BY Fetched DEF WrMem
<1> DEFINE types == <<AddrTypes, AnyType>>
           p == Operands(types)
           a == Resolve(p.vals[1], next, sp + Size(p.vals[1]), bp)
<1>2. IF p.bad # Ok THEN Fail(p.bad) ELSE Write(a, p.vals[2], p.sp)
  BY DEF WrMem, With
<1>3. Len(types) = 2 /\ types[1] = AddrTypes
  OBVIOUS
<1> HIDE DEF types
<1>4. /\ p.bad # Ok => p.bad \in Bad
      /\ p.bad = Ok => /\ p.sp \in Int /\ IsValue(p.vals[1]) /\ IsValue(p.vals[2])
                       /\ p.vals[1][1] \in AddrTypes
  BY <1>1, <1>3, OperandsPopped
<1> HIDE DEF p
<1>5. CASE p.bad # Ok
  BY <1>2, <1>4, <1>5, FailStep, StepStored
<1>6. CASE p.bad = Ok
  <2>1. Size(p.vals[1]) \in Nat
    BY <1>4, <1>6, SizeAtLeast
  <2>2. sp + Size(p.vals[1]) \in Int /\ next \in Int /\ bp \in Int
    BY <1>1, <2>1, Bounds
  <2>3. a \in Int
    BY <1>4, <1>6, <2>2, ResolveInt
  <2> HIDE DEF a
  <2> QED BY <1>1, <1>2, <1>4, <1>6, <2>3, WriteStep
<1> QED BY <1>5, <1>6

\* A store into an array or string that does not fail has written elements.
LEMMA WithElemsMemory ==
  ASSUME Memory(mem), NEW first, NEW type, IsSequence(type), NEW positions, NEW xs,
         \A i \in DOMAIN xs : ElemType(type) = "INT" => xs[i] \in Int
  PROVE  Memory(WithElems(first, type, positions, xs))
<1> DEFINE size == ElemSize(type)
           Offset(x, i) == x - first - positions[i] * size
           At(x) == {i \in DOMAIN xs : Offset(x, i) \in 0 .. size - 1}
           Byte(x) == IF At(x) = {} THEN mem[x]
                      ELSE LET i == CHOOSE i \in At(x) : TRUE
                           IN ElemByte(ElemType(type), xs[i], Offset(x, i))
<1>1. WithElems(first, type, positions, xs) = [x \in Addresses |-> Byte(x)]
  BY DEF WithElems
<1>2. ASSUME NEW x \in Addresses
      PROVE  IsByte(Byte(x))
  <2>1. CASE At(x) = {}
    BY <2>1 DEF Memory
  <2>2. CASE At(x) # {}
    <3> DEFINE i == CHOOSE i \in At(x) : TRUE
    <3>1. i \in DOMAIN xs
      BY <2>2
    <3>2. Byte(x) = ElemByte(ElemType(type), xs[i], Offset(x, i))
      BY <2>2
    <3>3. ElemType(type) \in ScalarTypes
      BY Types, Sizes
    <3> HIDE DEF i, Offset, Byte
    <3>4. IsByte(ElemByte(ElemType(type), xs[i], Offset(x, i)))
      BY <3>1, <3>3, ElementByte
    <3> QED BY <3>2, <3>4
  <2> QED BY <2>1, <2>2
<1> HIDE DEF Byte
<1> QED BY <1>1, <1>2 DEF Memory

LEMMA NopStep ==
  ASSUME Machine, Nop
  PROVE  Step
<1>1. Looping /\ Continue(Moved(mem, sp), next)
  BY Fetched DEF Nop
<1> QED BY <1>1, Bounds, MoveStep

LEMMA JmpStep ==
  ASSUME Machine, Jmp
  PROVE  Step
<1>1. Looping
  BY Fetched DEF Jmp
<1> DEFINE types == <<AddrTypes>>
           p == Operands(types)
           a == Resolve(p.vals[1], next, p.sp, bp)
<1>2. IF p.bad # Ok THEN Fail(p.bad) ELSE Continue(Moved(mem, p.sp), a)
  BY DEF Jmp, With
<1>3. Len(types) = 1 /\ types[1] = AddrTypes
  OBVIOUS
<1> HIDE DEF types
<1>4. /\ p.bad # Ok => p.bad \in Bad
      /\ p.bad = Ok => /\ p.sp \in Int
                       /\ IsValue(p.vals[1]) /\ p.vals[1][1] \in AddrTypes
  BY <1>1, <1>3, OperandsPopped
<1> HIDE DEF p
<1>5. p.bad = Ok => a \in Int
  BY <1>1, <1>4, Bounds, ResolveInt
<1> HIDE DEF a
<1> QED BY <1>2, <1>4, <1>5, FailStep, MoveStep

LEMMA TargetInt ==
  ASSUME Machine, Looping, NEW p, IsValue(p.vals[1]), p.vals[1][1] \in AddrTypes
  PROVE  Target(p) \in Int
<1>1. sp + Size(p.vals[1]) \in Int /\ next \in Int /\ bp \in Int
  BY Bounds, SizeAtLeast
<1> QED BY <1>1, ResolveInt DEF Target

LEMMA JmpCndStep ==
  ASSUME Machine, JmpCnd
  PROVE  Step
<1>1. Looping
  BY Fetched DEF JmpCnd
<1> DEFINE types == <<AddrTypes, {"BOOL", "INT"}>>
           p == Operands(types)
           a == IF Truth(p.vals[2]) THEN Target(p) ELSE next
<1>2. IF p.bad # Ok THEN Fail(p.bad) ELSE Continue(Moved(mem, p.sp), a)
  BY DEF JmpCnd, With
<1>3. Len(types) = 2 /\ types[1] = AddrTypes
  OBVIOUS
<1> HIDE DEF types
<1>4. /\ p.bad # Ok => p.bad \in Bad
      /\ p.bad = Ok => /\ p.sp \in Int
                       /\ IsValue(p.vals[1]) /\ p.vals[1][1] \in AddrTypes
  BY <1>1, <1>3, OperandsPopped
<1> HIDE DEF p
<1>5. p.bad = Ok => a \in Int
  BY <1>1, <1>4, Bounds, TargetInt
<1> HIDE DEF a
<1> QED BY <1>2, <1>4, <1>5, FailStep, MoveStep

LEMMA FrameStep ==
  ASSUME Machine, Frame
  PROVE  Step
<1>1. Looping
  BY Fetched DEF Frame
<1> DEFINE types == <<{"INT"}>>
           p == Operands(types)
           n == p.vals[1][2]
           top == IF opcode = "ADDFRAME" THEN p.sp - n ELSE p.sp + n
<1>2. IF p.bad # Ok THEN Fail(p.bad) ELSE Continue(Moved(mem, ToAddr(top)), next)
  BY DEF Frame, With
<1>3. Len(types) = 1 /\ types[1] = {"INT"}
  OBVIOUS
<1> HIDE DEF types
<1>4. /\ p.bad # Ok => p.bad \in Bad
      /\ p.bad = Ok => /\ p.sp \in Int
                       /\ IsValue(p.vals[1]) /\ p.vals[1][1] \in {"INT"}
  BY <1>1, <1>3, OperandsPopped
<1> HIDE DEF p
<1>5. p.bad = Ok => top \in Int
  BY <1>4 DEF IsValue
<1> HIDE DEF top
<1>6. p.bad = Ok => ToAddr(top) \in Int
  BY <1>5, AddrInt
<1> QED BY <1>1, <1>2, <1>4, <1>6, Bounds, FailStep, MoveStep

LEMMA EndStep ==
  ASSUME Machine, Halt \/ Invalid \/ PointerFault
  PROVE  Step
<1>1. CASE PointerFault
  BY <1>1, FailStep DEF PointerFault, Bad
<1>2. CASE Halt \/ Invalid
  <2>1. /\ prog' = prog /\ codeEnd' = codeEnd /\ raised' = raised /\ ip' = ip /\ sp' = sp
        /\ bp' = bp /\ mem' = mem /\ isrs' = isrs /\ calls' = calls
    BY <1>2 DEF Halt, Invalid, env, regs
  <2>2. status' \in Statuses
    BY <1>2 DEF Halt, Invalid, Statuses
  <2>3. KeepsBelow
    BY <2>1 DEF KeepsBelow
  <2> QED BY <2>1, <2>2, <2>3 DEF Machine, Step
<1> QED BY <1>1, <1>2

LEMMA RequestStep ==
  ASSUME Machine, RequestInterrupt
  PROVE  Step
<1>1. /\ prog' = prog /\ codeEnd' = codeEnd /\ raised' = raised + 1 /\ ip' = ip /\ sp' = sp
      /\ bp' = bp /\ mem' = mem /\ isrs' = isrs /\ calls' = calls /\ status' = status
  BY DEF RequestInterrupt, regs
<1>2. raised' \in 0 .. MaxIrqs
  BY <1>1, VMAssumption DEF RequestInterrupt, Machine
<1>3. KeepsBelow
  BY <1>1 DEF KeepsBelow
<1> QED BY <1>1, <1>2, <1>3 DEF Machine, Step

-----------------------------------------------------------------------------
(* Stores into arrays and strings.                                         *)

\* The positions a store visits are a list, lie inside the array, and are all
\* different.
LEMMA PositionsInside ==
  ASSUME NEW idx, Len(idx) = 1 \/ Len(idx) = 2, idx[1][2] \in Int,
         Len(idx) = 2 => idx[2][2] \in Int, NEW n \in Nat \ {0}
  PROVE  LET positions == Positions(idx, n)
         IN /\ \E m \in Nat : positions = [i \in 1 .. m |-> positions[i]]
            /\ \A i \in DOMAIN positions : positions[i] \in 0 .. n - 1
            /\ \A i, j \in DOMAIN positions : positions[i] = positions[j] => i = j
<1> DEFINE positions == Positions(idx, n)
<1>1. CASE Len(idx) = 1
  <2> DEFINE x == SafeIndex(ToAddr(idx[1][2]), n)
  <2>1. positions = <<x>>
    BY <1>1 DEF Positions
  <2>2. x \in 0 .. n - 1
    BY AddrInt, IndexInside
  <2> HIDE DEF positions, x
  <2>3. positions = [i \in 1 .. 1 |-> positions[i]] /\ positions[1] = x
    BY <2>1
  <2> QED BY <2>2, <2>3 DEF positions
<1>2. CASE Len(idx) = 2
  <2> PICK from \in Int, to \in Int : from = ToAddr(idx[2][2]) /\ to = ToAddr(idx[1][2])
    BY <1>2, AddrInt
  <2> DEFINE range == IndexRange(from, to, n)
  <2>1. positions = range
    BY <1>2 DEF Positions
  <2> HIDE DEF positions
  <2>2. PICK m \in Nat : range = [i \in 1 .. m |-> range[i]]
                         /\ \A i \in 1 .. m : range[i] \in 0 .. n - 1
    BY RangeInside
  <2>3. \A i, j \in DOMAIN range : range[i] = range[j] => i = j
    BY RangeDistinct
  <2> HIDE DEF range
  <2> QED BY <2>1, <2>2, <2>3 DEF positions
<1> QED BY <1>1, <1>2

\* In particular, the positions are those of different elements of the array.
LEMMA PositionsDistinct ==
  ASSUME NEW idx, Len(idx) = 1 \/ Len(idx) = 2, idx[1][2] \in Int,
         Len(idx) = 2 => idx[2][2] \in Int, NEW n \in Nat \ {0}
  PROVE  /\ Range(Positions(idx, n)) \subseteq 0 .. n - 1
         /\ IsInjective(Positions(idx, n))
<1>1. \A i \in DOMAIN Positions(idx, n) : Positions(idx, n)[i] \in 0 .. n - 1
  BY PositionsInside, ZenonT(60)
<1>2. IsInjective(Positions(idx, n))
  BY PositionsInside, ZenonT(60) DEF IsInjective
<1> QED BY <1>1, <1>2 DEF Range

\* A store fails, or the elements that it names lie in the memory and become the
\* new ones.
LEMMA StoreElemsOutcome ==
  ASSUME Memory(mem), NEW a \in Int, NEW data, NEW idx
  PROVE  LET s == StoreElems(idx, data, a)
             desc == Raw(a, "type")
             type == desc[2]
             len == Raw(a + 1, "addr")
             n == len[2]
             positions == Positions(idx, n)
             first == a + 1 + AddrSize
         IN \/ s.bad \in Bad
            \/ /\ s.bad = Ok
               /\ s.mem = WithElems(first, type, positions, NewElems(idx, data, type, n))
               /\ desc \notin Bad /\ len \notin Bad /\ n \in Nat \ {0} /\ IsSequence(type)
               /\ \/ IsWhole(idx, data, type) /\ ~(Len(positions) > Len(data[2]))
                  \/ /\ ~IsWhole(idx, data, type)
                     /\ type \in ArrayTypes /\ data[1] = Elem[type]
<1> DEFINE s == StoreElems(idx, data, a)
           desc == Raw(a, "type")
           type == desc[2]
           len == Raw(a + 1, "addr")
           n == len[2]
           positions == Positions(idx, n)
           whole == IsWhole(idx, data, type)
           scalar == type \in ArrayTypes /\ data[1] = Elem[type]
           xs == NewElems(idx, data, type, n)
           first == a + 1 + AddrSize
           outside == \/ whole /\ Len(positions) > Len(data[2])
                      \/ \E i \in DOMAIN positions :
                           ~InBounds(first + positions[i] * ElemSize(type), ElemSize(type))
           store == IF len = Undefined \/ n <= 0
                      THEN [Moved(mem, sp) EXCEPT !.bad = Undefined]
                    ELSE IF outside THEN [Moved(mem, sp) EXCEPT !.bad = Throws]
                    ELSE Moved(WithElems(first, type, positions, xs), sp)
           wrong == ~(whole \/ scalar) \/ ~IsSequence(type) \/ len = Throws
<1>1. CASE desc \in Bad
  <2>1. s = [Moved(mem, sp) EXCEPT !.bad = desc]
    BY <1>1, Zenon DEF StoreElems
  <2> QED BY <1>1, <2>1 DEF Moved
<1>2. CASE desc \notin Bad /\ wrong
  <2>1. s = [Moved(mem, sp) EXCEPT !.bad = Throws]
    BY <1>2, Zenon DEF StoreElems
  <2>2. s.bad = Throws
    BY <2>1 DEF Moved
  <2> QED BY <2>2 DEF Bad
<1>3. CASE desc \notin Bad /\ ~wrong
  <2>1. s = store
    BY <1>3, Zenon DEF StoreElems
  <2> DEFINE written == WithElems(first, type, positions, xs)
  <2>2. \/ s.bad \in Bad
        \/ /\ s.bad = Ok /\ s.mem = written
           /\ len # Undefined /\ ~(n <= 0) /\ ~outside
    <3> HIDE DEF outside, written
    <3>1. store = IF len = Undefined \/ n <= 0
                    THEN [Moved(mem, sp) EXCEPT !.bad = Undefined]
                  ELSE IF outside THEN [Moved(mem, sp) EXCEPT !.bad = Throws]
                  ELSE Moved(written, sp)
      BY DEF written
    <3> HIDE DEF store, len
    <3> QED BY <2>1, <3>1 DEF Moved, Bad
  <2>3. CASE s.bad = Ok /\ s.mem = written /\ len # Undefined /\ ~(n <= 0) /\ ~outside
    <3>1. len \notin Bad /\ (whole \/ scalar) /\ IsSequence(type)
      BY <1>3, <2>3 DEF Bad
    <3>2. n \in Nat \ {0}
      <4>1. "addr" \in DOMAIN RawSize /\ a + 1 \in Int
        BY DEF RawSize
      <4>2. n \in Int
        BY <3>1, <4>1, RawRead
      <4> HIDE DEF len
      <4> QED BY <2>3, <4>2
    <3> QED BY <1>3, <2>3, <3>1, <3>2, Zenon
  <2> QED BY <2>2, <2>3
<1> QED BY <1>1, <1>2, <1>3

LEMMA StoreElemsMemory ==
  ASSUME Memory(mem), NEW a \in Int, NEW data, IsValue(data), NEW idx,
         Len(idx) = 1 \/ Len(idx) = 2, idx[1][2] \in Int, Len(idx) = 2 => idx[2][2] \in Int
  PROVE  LET s == StoreElems(idx, data, a)
         IN s.bad \in {Ok} \cup Bad /\ (s.bad = Ok => Memory(s.mem))
<1> DEFINE s == StoreElems(idx, data, a)
           type == Raw(a, "type")[2]
           n == Raw(a + 1, "addr")[2]
           positions == Positions(idx, n)
           xs == NewElems(idx, data, type, n)
           first == a + 1 + AddrSize
<1>1. \/ s.bad \in Bad
      \/ /\ s.bad = Ok /\ s.mem = WithElems(first, type, positions, xs)
         /\ n \in Nat \ {0} /\ IsSequence(type)
         /\ \/ IsWhole(idx, data, type) /\ ~(Len(positions) > Len(data[2]))
            \/ ~IsWhole(idx, data, type) /\ type \in ArrayTypes /\ data[1] = Elem[type]
  BY StoreElemsOutcome
<1> HIDE DEF s, type, n
<1>2. CASE s.bad \in Bad
  BY <1>2, OkNotBad DEF s
<1>3. CASE s.bad \notin Bad
  <2>0. PICK m \in Nat : positions = [i \in 1 .. m |-> positions[i]]
    BY <1>1, <1>3, PositionsInside
  <2>1. DOMAIN positions = 1 .. m /\ Len(positions) = m
    <3> HIDE DEF positions
    <3> QED BY <2>0, IsSeq
  <2>2. ASSUME ElemType(type) = "INT", NEW i \in DOMAIN xs
        PROVE  xs[i] \in Int
    <3>1. type = "INTARR"
      BY <1>1, <1>3, <2>2 DEF IsSequence, ElemType, Elem, ArrayTypes
    <3>2. i \in 1 .. m
      BY <2>1, <2>2 DEF NewElems
    <3>3. CASE IsWhole(idx, data, type)
      <4>1. data[1] = "INTARR" /\ IsSequence(data[1]) /\ xs[i] = data[2][i]
        BY <2>1, <3>1, <3>2, <3>3 DEF IsSequence, ArrayTypes, IsWhole, NewElems
      <4>2. m <= Len(data[2])
        BY <1>1, <1>3, <2>1, <3>3, <4>1, Elements
      <4>3. i \in 1 .. Len(data[2])
        BY <3>2, <4>1, <4>2, Elements
      <4> QED BY <4>1, <4>3, Elements
    <3>4. CASE ~IsWhole(idx, data, type)
      <4>1. data[1] = "INT" /\ xs[i] = data[2]
        BY <1>1, <1>3, <2>1, <3>1, <3>2, <3>4 DEF Elem, NewElems
      <4> QED BY <4>1 DEF IsValue
    <3> QED BY <3>3, <3>4
  <2> HIDE DEF xs, first, positions
  <2>3. Memory(WithElems(first, type, positions, xs))
    BY <1>1, <1>3, <2>2, WithElemsMemory
  <2> QED BY <1>1, <1>3, <2>3 DEF s
<1> QED BY <1>2, <1>3

\* What WRARR and WRARRR pop: one or two indices, the data and an address.
LEMMA StoreOperands ==
  ASSUME NEW k \in {1, 2}
  PROVE  LET types == Copies(k, {"INT"}) \o <<AnyType, AddrTypes>>
         IN /\ Len(types) = k + 2 /\ types[k + 2] = AddrTypes
            /\ \A i \in 1 .. k : types[i] = {"INT"}
<1> DEFINE S == {{"INT"}, AnyType, AddrTypes}
           one == Copies(k, {"INT"})
           two == <<AnyType, AddrTypes>>
<1>1. one \in Seq(S) /\ Len(one) = k /\ \A i \in 1 .. k : one[i] = {"INT"}
  BY DEF Copies
<1>2. two \in Seq(S) /\ Len(two) = 2 /\ two[2] = AddrTypes
  OBVIOUS
<1> HIDE DEF one, two, S
<1>3. /\ Len(one \o two) = k + 2
      /\ \A i \in 1 .. k + 2 : (one \o two)[i] = IF i <= k THEN one[i] ELSE two[i - k]
  <2>1. one \in Seq(S) /\ two \in Seq(S) /\ Len(one) = k /\ Len(two) = 2
    BY <1>1, <1>2
  <2>2. /\ Len(one \o two) = Len(one) + Len(two)
        /\ \A i \in 1 .. Len(one) + Len(two) :
             (one \o two)[i] = IF i <= Len(one) THEN one[i] ELSE two[i - Len(one)]
    BY <2>1, ConcatProperties, Zenon
  <2> QED BY <2>1, <2>2
<1>4. (one \o two)[k + 2] = AddrTypes
  BY <1>2, <1>3
<1>5. \A i \in 1 .. k : (one \o two)[i] = {"INT"}
  BY <1>1, <1>3
<1> QED BY <1>3, <1>4, <1>5 DEF one, two

LEMMA StorePops ==
  ASSUME Machine, Looping, NEW k \in {1, 2}, NEW p, p = ArrayOperands(k)
  PROVE  /\ p.bad # Ok => p.bad \in Bad
         /\ p.bad = Ok =>
              /\ p.sp \in Int /\ ArrayAddr(k, p) \in Int /\ IsValue(p.vals[k + 1])
              /\ LET idx == SubSeq(p.vals, 1, k)
                 IN /\ Len(idx) = 1 \/ Len(idx) = 2
                    /\ idx[1][2] \in Int /\ (Len(idx) = 2 => idx[2][2] \in Int)
<1> DEFINE types == Copies(k, {"INT"}) \o <<AnyType, AddrTypes>>
           idx == SubSeq(p.vals, 1, k)
           vals == p.vals
<1>1. p = Operands(types) /\ k + 2 \in Nat
  BY DEF ArrayOperands
<1>2. /\ Len(types) = k + 2 /\ types[k + 2] = AddrTypes
      /\ \A i \in 1 .. k : types[i] = {"INT"}
  BY StoreOperands
<1> HIDE DEF types, vals
<1>3. /\ p.bad # Ok => p.bad \in Bad
      /\ p.bad = Ok => /\ p.sp \in Int
                       /\ \A i \in 1 .. k + 2 : IsValue(vals[i]) /\ vals[i][1] \in types[i]
  BY <1>1, <1>2, OperandsPopped DEF vals
<1>4. CASE p.bad = Ok
  <2>1. Len(idx) = k /\ \A i \in 1 .. k : idx[i] = vals[i]
    <3> DEFINE S == {vals[1], vals[2]}
    <3>1. \A i \in 1 .. k : vals[i] \in S
      OBVIOUS
    <3>2. k \in Int /\ 1 <= k /\ k - 1 + 1 = k
      OBVIOUS
    <3> HIDE DEF S
    <3>3. /\ Len(SubSeq(vals, 1, k)) = k - 1 + 1
          /\ \A i \in 1 .. k - 1 + 1 : SubSeq(vals, 1, k)[i] = vals[1 + i - 1]
      BY <3>1, <3>2, SubSeqProperties
    <3>4. \A i \in 1 .. k : 1 + i - 1 = i
      BY <3>2
    <3> HIDE DEF idx
    <3> QED BY <3>2, <3>3, <3>4 DEF idx, vals
  <2> HIDE DEF idx
  <2>2. \A i \in 1 .. k : idx[i][2] \in Int
    <3> SUFFICES ASSUME NEW i \in 1 .. k PROVE vals[i][2] \in Int
      BY <2>1
    <3>1. IsValue(vals[i]) /\ vals[i][1] = "INT"
      BY <1>2, <1>3, <1>4
    <3> QED BY <3>1 DEF IsValue
  <2>3. IsValue(vals[k + 1]) /\ IsValue(vals[k + 2]) /\ vals[k + 2][1] \in AddrTypes
    <3>1. k + 1 \in 1 .. k + 2 /\ k + 2 \in 1 .. k + 2
      OBVIOUS
    <3> QED BY <1>2, <1>3, <1>4, <3>1
  <2>4. ArrayAddr(k, p) \in Int
    BY <1>3, <1>4, <2>3, Bounds, ResolveInt DEF ArrayAddr, vals
  <2> QED BY <1>3, <1>4, <2>1, <2>2, <2>3, <2>4 DEF idx, vals
<1> QED BY <1>3, <1>4

LEMMA WrArrStep ==
  ASSUME Machine, WrArr
  PROVE  Stored
<1>1. Looping
  BY Fetched DEF WrArr
<1> DEFINE k == IF opcode = "WRARR" THEN 1 ELSE 2
           p == ArrayOperands(k)
           idx == SubSeq(p.vals, 1, k)
           a == ArrayAddr(k, p)
           s == StoreElems(idx, p.vals[k + 1], a)
<1>2. IF p.bad # Ok THEN Fail(p.bad)
      ELSE IF s.bad # Ok THEN Fail(s.bad) ELSE Continue(Moved(s.mem, p.sp), next)
  BY DEF WrArr, With
<1>3. k \in {1, 2}
  OBVIOUS
<1> HIDE DEF k
<1>4. /\ p.bad # Ok => p.bad \in Bad
      /\ p.bad = Ok => /\ p.sp \in Int /\ a \in Int /\ IsValue(p.vals[k + 1])
                       /\ Len(idx) = 1 \/ Len(idx) = 2
                       /\ idx[1][2] \in Int /\ (Len(idx) = 2 => idx[2][2] \in Int)
  BY <1>1, <1>3, StorePops
<1> HIDE DEF p, idx, a
<1>5. CASE p.bad # Ok
  BY <1>2, <1>4, <1>5, FailStep, StepStored
<1>6. CASE p.bad = Ok
  <2>1. s.bad \in {Ok} \cup Bad /\ (s.bad = Ok => Memory(s.mem)) /\ next \in Int
    BY <1>1, <1>4, <1>6, Bounds, StoreElemsMemory
  <2> HIDE DEF s
  <2>2. CASE s.bad # Ok
    BY <1>2, <1>6, <2>1, <2>2, FailStep, StepStored
  <2>3. CASE s.bad = Ok
    <3> DEFINE t == Moved(s.mem, p.sp)
    <3>1. t.bad = Ok /\ t.sp = p.sp /\ t.mem = s.mem
      BY DEF Moved
    <3>2. Continue(t, next)
      BY <1>2, <1>6, <2>3
    <3> HIDE DEF t
    <3> QED BY <1>4, <1>6, <2>1, <2>3, <3>1, <3>2, ContinueStep DEF Stored
  <2> QED BY <2>2, <2>3
<1> QED BY <1>5, <1>6

-----------------------------------------------------------------------------
(* Calls and returns.                                                      *)

\* The registers are saved on the stack.
LEMMA PushRegisters ==
  ASSUME NEW m, Memory(m), NEW top \in Int, NEW ret \in Int, NEW base \in Int
  PROVE  PushesOn(m, PushedOn(m, top, <<<<"ADDR_MEM", ret>>, <<"ADDR_MEM", base>>>>), top, 2)
<1> DEFINE v == <<"ADDR_MEM", ret>>
           w == <<"ADDR_MEM", base>>
           vs == <<v, w>>
<1>1. IsValue(v) /\ IsValue(w)
  BY Literals DEF AddrTypes
<1>2. Len(vs) = 2 /\ vs[1] = v /\ vs[2] = w
  OBVIOUS
<1> HIDE DEF v, w, vs
<1>3. Len(vs) \in Nat /\ \A i \in 1 .. Len(vs) : IsValue(vs[i])
  BY <1>1, <1>2
<1>4. PushesOn(m, PushedOn(m, top, vs), top, Len(vs))
  BY <1>3, PushAll
<1> QED BY <1>2, <1>4 DEF v, w, vs

LEMMA EnterStep ==
  ASSUME Machine, Looping, NEW m, Scratched(m), NEW target \in Int, NEW framesize \in Int,
         NEW top \in Int, NEW ret \in Int, Enter(m, target, framesize, top, ret)
  PROVE  Step
<1> DEFINE s == PushedOn(m, top, <<<<"ADDR_MEM", ret>>, <<"ADDR_MEM", bp>>>>)
           entry == [frame |-> s.sp, size |-> framesize, ret |-> ret, bp |-> bp]
<1>1. IF s.bad # Ok THEN Fail(s.bad) ELSE MakeFrame(s, target, framesize, ret)
  BY DEF Enter, With
<1>2. PushesOn(m, s, top, 2)
  BY Bounds, PushRegisters DEF Scratched
<1> HIDE DEF s
<1>3. CASE s.bad # Ok
  <2>1. s.bad \in Bad
    BY <1>2, <1>3 DEF PushesOn
  <2> QED BY <1>1, <1>3, <2>1, FailStep
<1>4. CASE s.bad = Ok
  <2>1. /\ mem' = s.mem /\ bp' = s.sp /\ sp' = ToAddr(s.sp - framesize) /\ GoTo(target)
        /\ calls' = Append(calls, entry)
        /\ prog' = prog /\ codeEnd' = codeEnd /\ raised' = raised
        /\ status' = status /\ isrs' = isrs
    BY <1>1, <1>4 DEF MakeFrame, env
  <2>2. s.sp \in Addresses /\ s.sp \in Int /\ Memory(s.mem)
    BY <1>2, <1>4 DEF PushesOn
  <2>3. entry \in Activation
    BY <2>2 DEF Activation, Machine
  <2> HIDE DEF entry
  <2>4. /\ calls' \in Seq(Activation) /\ Len(calls') = Len(calls) + 1 /\ Len(calls) \in Nat
    BY <2>1, <2>3, LenProperties, AppendProperties DEF Machine
  <2>5. ip' \in Int /\ ip' < MemSize
    BY <2>1, GoToStep DEF Machine
  <2>6. sp' \in Int
    <3>1. s.sp - framesize \in Int
      BY <2>2
    <3> QED BY <2>1, <3>1, AddrInt
  <2>7. Machine'
    BY <2>1, <2>2, <2>4, <2>5, <2>6 DEF Machine
  <2>8. KeepsBelow
    <3>1. ASSUME NEW a \in Addresses, mem'[a] # mem[a] PROVE a >= bp' \/ InScratch(a)
      <4>1. CASE m[a] # mem[a]
        BY <4>1 DEF Scratched
      <4>2. CASE m[a] = mem[a]
        <5>1. a \in s.sp .. top - 1
          BY <1>2, <2>1, <3>1, <4>2 DEF PushesOn
        <5> QED BY <2>1, <2>2, <5>1
      <4> QED BY <4>1, <4>2
    <3> QED BY <2>4, <3>1 DEF KeepsBelow
  <2> QED BY <2>1, <2>7, <2>8 DEF Step
<1> QED BY <1>3, <1>4

LEMMA CallStep ==
  ASSUME Machine, Call
  PROVE  Step
<1>1. Looping
  BY Fetched DEF Call
<1> DEFINE types == <<AddrTypes, {"INT"}>>
           p == Operands(types)
<1>2. IF p.bad # Ok THEN Fail(p.bad) ELSE Enter(mem, Target(p), p.vals[2][2], p.sp, next)
  BY DEF Call, With
<1>3. Len(types) = 2 /\ types[1] = AddrTypes /\ types[2] = {"INT"}
  OBVIOUS
<1> HIDE DEF types
<1>4. /\ p.bad # Ok => p.bad \in Bad
      /\ p.bad = Ok => /\ p.sp \in Int /\ IsValue(p.vals[1]) /\ p.vals[1][1] \in AddrTypes
                       /\ IsValue(p.vals[2]) /\ p.vals[2][1] \in {"INT"}
  BY <1>1, <1>3, OperandsPopped
<1> HIDE DEF p
<1>5. p.bad = Ok => Target(p) \in Int /\ p.vals[2][2] \in Int
  BY <1>1, <1>4, TargetInt DEF IsValue
<1>6. Scratched(mem)
  BY DEF Scratched, Machine
<1> QED BY <1>1, <1>2, <1>4, <1>5, <1>6, Bounds, FailStep, EnterStep

LEMMA CallISRStep ==
  ASSUME Machine, CallISR
  PROVE  Step /\ irqs' \subseteq irqs
<1> DEFINE irq == CHOOSE n \in Pending : \A k \in Pending : n <= k
           target == isrs[irq]
           s == Pushed(sp, <<<<"ADDR_MEM", target>>>>)
           types == <<{"INT"}>>
           p == Operands(types)
<1>1. /\ Looping /\ Pending # {} /\ irqs' = {n \in irqs : n > irq}
      /\ IF s.bad # Ok THEN Fail(s.bad)
         ELSE IF p.bad # Ok THEN Fail(p.bad) ELSE Enter(s.mem, target, p.vals[1][2], p.sp, ip)
  BY DEF CallISR, With
<1>2. target \in Int
  <2>1. PICK n \in Pending : \A k \in Pending : n <= k
    <3>1. Pending \subseteq Nat
      BY DEF Pending, Machine, NumInterrupts
    <3> HIDE DEF irq, s, p
    <3> QED BY <1>1, <3>1, Least
  <2>2. irq \in Pending
    BY <2>1
  <2> QED BY <2>2 DEF Pending, Machine
<1>3. (s.bad # Ok => s.bad \in Bad) /\ (s.bad = Ok => Scratched(s.mem))
  <2>1. IsValue(<<"ADDR_MEM", target>>)
    BY <1>2, Literals DEF AddrTypes
  <2>2. Memory(mem) /\ sp \in Int
    BY <1>1, Bounds
  <2> DEFINE v == <<"ADDR_MEM", target>>
  <2>3. Size(v) = 1 + AddrSize
    BY DEF Size, AddrTypes
  <2>4. s = PushedOn(mem, sp, <<v>>)
    BY DEF Pushed
  <2> HIDE DEF s, v
  <2>5. PushesOn(mem, s, sp, 1) /\ s.sp >= sp - (1 + AddrSize)
    BY <2>1, <2>2, <2>3, <2>4, PushedBelow DEF v
  <2>6. ASSUME NEW x \in Addresses, s.mem[x] # mem[x]
        PROVE  InScratch(x)
    <3>1. x \in s.sp .. sp - 1 /\ s.sp \in Int
      BY <2>5, <2>6 DEF PushesOn
    <3>2. x \in sp - (1 + AddrSize) .. sp - 1
      BY <2>2, <2>5, <3>1, ValuesAssumption
    <3> QED BY <1>1, <3>2 DEF InScratch
  <2> QED BY <2>5, <2>6 DEF PushesOn, Scratched
<1>4. irqs' \subseteq irqs
  BY <1>1
<1> HIDE DEF s, target, irq
<1>5. Len(types) = 1 /\ types[1] = {"INT"}
  OBVIOUS
<1> HIDE DEF types
<1>6. /\ p.bad # Ok => p.bad \in Bad
      /\ p.bad = Ok => p.sp \in Int /\ IsValue(p.vals[1]) /\ p.vals[1][1] \in {"INT"}
  BY <1>1, <1>5, OperandsPopped
<1> HIDE DEF p
<1>7. p.bad = Ok => p.vals[1][2] \in Int
  BY <1>6 DEF IsValue
<1>8. ip \in Int
  BY DEF Machine
<1>9. Step
  BY <1>1, <1>2, <1>3, <1>6, <1>7, <1>8, FailStep, EnterStep
<1> QED BY <1>4, <1>9

LEMMA CopiesLen ==
  ASSUME NEW n \in Int, NEW x
  PROVE  Len(Copies(n, x)) \in Nat /\ (n \in Nat => Len(Copies(n, x)) = n)
<1> DEFINE c == Copies(n, x)
<1>1. PICK m \in Nat : c = [i \in 1 .. m |-> c[i]] /\ 1 .. m = 1 .. n /\ (n \in Nat => m = n)
  BY CopiesShape
<1> HIDE DEF c
<1>2. Len(c) = m
  BY <1>1, IsSeq
<1> QED BY <1>1, <1>2 DEF c

\* Values are popped as long as there are any.
LEMMA ValuesPopped ==
  ASSUME Memory(mem), NEW a \in Int, NEW types, Len(types) \in Nat, NEW floor
  PROVE  LET p == Popped(a, types, floor)
         IN /\ p.bad # Ok => p.bad \in Bad
            /\ p.sp \in Int /\ (a <= MemSize => p.sp <= MemSize)
            /\ p.vals \in Seq(Range(p.vals))
            /\ \A i \in 1 .. Len(p.vals) : IsValue(p.vals[i])
BY PopAll DEF Pops

LEMMA UntypedValue ==
  ASSUME NEW v, IsValue(v)
  PROVE  IsValue(Untyped(v))
BY Literals DEF Untyped, IsValue

LEMMA PushResults ==
  ASSUME Memory(mem), NEW top \in Int, NEW vals, vals \in Seq(Range(vals)),
         \A i \in 1 .. Len(vals) : IsValue(vals[i])
  PROVE  LET vs == [i \in DOMAIN vals |-> Untyped(vals[i])]
         IN Pushes(Pushed(top, vs), top, Len(vs))
<1> DEFINE vs == [i \in DOMAIN vals |-> Untyped(vals[i])]
<1>1. Len(vals) \in Nat /\ DOMAIN vals = 1 .. Len(vals)
  BY SeqShape
<1>2. vs = [i \in 1 .. Len(vals) |-> vs[i]] /\ \A i \in 1 .. Len(vals) : IsValue(vs[i])
  BY <1>1, UntypedValue
<1> HIDE DEF vs
<1>3. Len(vs) = Len(vals)
  BY <1>1, <1>2, IsSeq
<1>4. Pushes(Pushed(top, vs), top, Len(vs))
  BY <1>1, <1>2, <1>3, PushAll DEF Pushes, Pushed
<1> QED BY <1>4 DEF vs

LEMMA CallsPopped ==
  ASSUME calls \in Seq(Activation)
  PROVE  LET rest == SubSeq(calls, 1, Len(calls) - 1)
         IN rest \in Seq(Activation) /\ Len(rest) <= Len(calls)
<1> DEFINE n == Len(calls) - 1
<1>1. Len(calls) \in Nat /\ n \in Int
  BY LenProperties
<1>2. \A i \in 1 .. n : calls[i] \in Activation
  BY <1>1, ElementOfSeq
<1>3. n = Len(calls) - 1
  OBVIOUS
<1> HIDE DEF n
<1>4. SubSeq(calls, 1, n) \in Seq(Activation)
      /\ Len(SubSeq(calls, 1, n)) = IF 1 <= n THEN n - 1 + 1 ELSE 0
  BY <1>1, <1>2, SubSeqProperties
<1> QED BY <1>1, <1>3, <1>4

LEMMA RetStep ==
  ASSUME Machine, Ret
  PROVE  Step
<1>1. Looping
  BY Fetched DEF Ret
<1> DEFINE types == <<{"INT"}, {"INT"}>>
           o == Operands(types)
           rtypes == Copies(bp - o.sp, AnyType)
           r == Popped(o.sp, rtypes, bp - o.vals[2][2])
           btypes == Copies(2, AddrTypes)
           b == Popped(bp, btypes, MemSize + 1)
           atypes == Copies(o.vals[1][2], AnyType)
           a == Popped(b.sp, atypes, MemSize + 1)
           vs == [i \in DOMAIN r.vals |-> Untyped(r.vals[i])]
           s == Pushed(a.sp, vs)
           oldbp == Resolve(b.vals[1], next, bp + 1 + AddrSize, bp)
           target == Resolve(b.vals[2], next, b.sp, oldbp)
<1>2. IF o.bad # Ok THEN Fail(o.bad)
      ELSE IF r.bad # Ok THEN Fail(r.bad)
      ELSE IF b.bad # Ok THEN Fail(b.bad)
      ELSE IF a.bad # Ok THEN Fail(a.bad)
      ELSE IF s.bad # Ok THEN Fail(s.bad)
      ELSE /\ mem' = s.mem /\ sp' = s.sp /\ bp' = oldbp /\ GoTo(target)
           /\ calls' = SubSeq(calls, 1, Len(calls) - 1)
           /\ UNCHANGED <<env, status, isrs>>
  BY ZenonT(60) DEF Ret, With
<1>3. Len(types) = 2 /\ types[1] = {"INT"} /\ types[2] = {"INT"}
  OBVIOUS
<1> HIDE DEF types
<1>4. /\ o.bad # Ok => o.bad \in Bad
      /\ o.bad = Ok => /\ o.sp \in Int
                       /\ IsValue(o.vals[1]) /\ o.vals[1][1] \in {"INT"}
                       /\ IsValue(o.vals[2]) /\ o.vals[2][1] \in {"INT"}
  BY <1>1, <1>3, OperandsPopped
<1>5. bp \in Int /\ bp <= MemSize /\ next \in Int /\ Memory(mem) /\ AddrSize \in Nat
  BY <1>1, Bounds, ValuesAssumption
<1> HIDE DEF o
<1>6. CASE o.bad # Ok
  BY <1>2, <1>4, <1>6, FailStep
<1>7. CASE o.bad = Ok
  <2>1. o.vals[1][2] \in Int /\ bp - o.sp \in Int /\ o.sp \in Int
    BY <1>4, <1>5, <1>7 DEF IsValue
  <2>2. Len(rtypes) \in Nat /\ Len(atypes) \in Nat
    BY <2>1, CopiesLen
  <2>3. Len(btypes) = 2 /\ btypes[1] = AddrTypes /\ btypes[2] = AddrTypes
    <3>1. btypes = <<AddrTypes, AddrTypes>>
      <4>1. btypes = [i \in 1 .. 2 |-> AddrTypes]
        BY DEF Copies
      <4> HIDE DEF btypes
      <4> QED BY <4>1
    <3> HIDE DEF btypes
    <3> QED BY <3>1
  <2> HIDE DEF rtypes, atypes, btypes
  <2>4. /\ r.bad # Ok => r.bad \in Bad
        /\ r.vals \in Seq(Range(r.vals))
        /\ \A i \in 1 .. Len(r.vals) : IsValue(r.vals[i])
    BY <1>5, <2>1, <2>2, ValuesPopped
  <2>5. Pops(b, bp, btypes, 2) /\ (b.bad = Ok => Len(b.vals) = 2)
    <3>1. Len(btypes) \in Nat
      BY <2>3
    <3>2. Pops(b, bp, btypes, Len(btypes)) /\ (b.bad = Ok => Len(b.vals) = Len(btypes))
      BY <1>5, <3>1, PopOperands
    <3> HIDE DEF b
    <3> QED BY <2>3, <3>2
  <2>6. /\ b.bad # Ok => b.bad \in Bad
        /\ b.sp \in Int /\ b.sp <= MemSize
        /\ b.bad = Ok => /\ IsValue(b.vals[1]) /\ b.vals[1][1] \in AddrTypes
                         /\ IsValue(b.vals[2]) /\ b.vals[2][1] \in AddrTypes
    <3> HIDE DEF b
    <3> QED BY <1>5, <2>3, <2>5 DEF Pops
  <2> HIDE DEF r, b
  <2>7. (a.bad # Ok => a.bad \in Bad) /\ a.sp \in Int
    BY <1>5, <2>2, <2>6, ValuesPopped
  <2> HIDE DEF a
  <2>8. Pushes(s, a.sp, Len(vs))
    BY <1>5, <2>4, <2>7, PushResults
  <2> HIDE DEF vs
  <2>9. s.bad # Ok => s.bad \in Bad
    <3> HIDE DEF s
    <3> QED BY <2>8 DEF Pushes, PushesOn
  <2>10. b.bad = Ok => oldbp \in Int
    <3>1. bp + 1 + AddrSize \in Int
      BY <1>5
    <3> QED BY <1>5, <2>6, <3>1, ResolveInt
  <2> HIDE DEF oldbp
  <2>11. b.bad = Ok => target \in Int
    BY <1>5, <2>6, <2>10, ResolveInt
  <2> HIDE DEF target, s
  <2>12. CASE r.bad # Ok \/ b.bad # Ok \/ a.bad # Ok \/ s.bad # Ok
    BY <1>2, <1>7, <2>4, <2>6, <2>7, <2>9, <2>12, FailStep
  <2>13. CASE r.bad = Ok /\ b.bad = Ok /\ a.bad = Ok /\ s.bad = Ok
    <3>1. /\ mem' = s.mem /\ sp' = s.sp /\ bp' = oldbp /\ GoTo(target)
          /\ calls' = SubSeq(calls, 1, Len(calls) - 1)
          /\ prog' = prog /\ codeEnd' = codeEnd /\ raised' = raised
          /\ status' = status /\ isrs' = isrs
      BY <1>2, <1>7, <2>13 DEF env
    <3>2. ip' \in Int /\ ip' < MemSize
      BY <2>11, <2>13, <3>1, GoToStep DEF Machine
    <3>3. calls' \in Seq(Activation) /\ Len(calls') <= Len(calls)
      BY <3>1, CallsPopped DEF Machine
    <3>4. s.sp \in Int /\ Memory(s.mem)
      BY <2>8 DEF Pushes, PushesOn
    <3>5. Machine'
      BY <2>10, <2>13, <3>1, <3>2, <3>3, <3>4 DEF Machine
    <3>6. KeepsBelow
      <4>1. ASSUME NEW x \in Addresses, mem'[x] # mem[x] PROVE x >= sp'
        <5>1. x \in s.sp .. a.sp - 1
          BY <2>8, <3>1, <4>1 DEF Pushes, PushesOn
        <5> QED BY <2>7, <3>1, <3>4, <5>1
      <4>2. ~(Len(calls') > Len(calls))
        BY <3>3, LenProperties DEF Machine
      <4> QED BY <4>1, <4>2 DEF KeepsBelow
    <3> QED BY <3>1, <3>5, <3>6 DEF Step
  <2> QED BY <2>12, <2>13
<1> QED BY <1>6, <1>7

-----------------------------------------------------------------------------
(* External functions.                                                     *)

OneArgument == {"abs", "fabs", "norm"} \cup RealFunctions \cup IntFunctions \cup TextFunctions

LEMMA ExtArgsOf ==
  ASSUME NEW name
  PROVE  /\ Len(ExtArgs(name)) \in Nat
         /\ name \in OneArgument => ExtArgs(name) = <<AnyType>>
         /\ name = "pow" => ExtArgs(name) = <<AnyType, AnyType>>
         /\ name = "set_isr" => ExtArgs(name) = <<AnyType, AddrTypes>>
<1>1. name \in OneArgument => ExtArgs(name) = <<AnyType>>
  <2>1. name \in OneArgument => name # "pow" /\ name # "set_isr"
    BY DEF OneArgument, RealFunctions, IntFunctions, TextFunctions
  <2> QED BY <2>1, Zenon DEF ExtArgs, OneArgument
<1>2. name = "pow" => ExtArgs(name) = <<AnyType, AnyType>>
  BY Zenon DEF ExtArgs, RealFunctions, IntFunctions, TextFunctions
<1>3. name = "set_isr" => ExtArgs(name) = <<AnyType, AddrTypes>>
  BY Zenon DEF ExtArgs, RealFunctions, IntFunctions, TextFunctions
<1>4. name \notin OneArgument \cup {"pow", "set_isr"} => ExtArgs(name) = <<>>
  BY Zenon DEF ExtArgs, OneArgument
<1> HIDE DEF OneArgument
<1>5. Len(ExtArgs(name)) \in Nat
  <2>1. CASE name \in OneArgument
    BY <1>1, <2>1
  <2>2. CASE name = "pow"
    <3>1. ExtArgs(name) = <<AnyType, AnyType>>
      BY <1>2, <2>2
    <3> QED BY <3>1
  <2>3. CASE name = "set_isr"
    <3>1. ExtArgs(name) = <<AnyType, AddrTypes>>
      BY <1>3, <2>3
    <3> QED BY <3>1
  <2>4. CASE name \notin OneArgument \cup {"pow", "set_isr"}
    BY <1>4, <2>4
  <2> QED BY <2>1, <2>2, <2>3, <2>4
<1> QED BY <1>1, <1>2, <1>3, <1>5

LEMMA CastedResult ==
  ASSUME NEW type \in {"INT", "REAL", "STR"}, NEW v, IsValue(v), NEW c \in Casted(type, v)
  PROVE  c \in Bad \/ (IsValue(c) /\ c[1] = type)
<1>1. type \in ScalarTypes /\ type \notin {"throws", "undefined"}
  BY DEF ScalarTypes, NumberTypes
<1>2. PICK x \in Cast(type, v) : c = IF x[1] = type THEN x ELSE Throws
  BY DEF Casted
<1>3. IsResult(x)
  BY <1>1, <1>2, CastResult
<1> QED BY <1>1, <1>2, <1>3 DEF IsResult, IsData, Bad, Throws, Undefined

\* What the arguments of a function are converted to.
LEMMA ConvertsTo ==
  ASSUME NEW name
  PROVE  /\ name \in RealFunctions => Converts(name) = <<"REAL">>
         /\ name = "pow" => Converts(name) = <<"REAL", "REAL">>
         /\ name \in IntFunctions \cup {"set_isr"} => Converts(name) = <<"INT">>
         /\ name \in TextFunctions => Converts(name) = <<"STR">>
         /\ name \notin RealFunctions \cup {"pow", "set_isr"} \cup IntFunctions
                        \cup TextFunctions => Converts(name) = <<>>
<1>1. name \in RealFunctions => Converts(name) = <<"REAL">>
  BY Zenon DEF Converts, RealFunctions, IntFunctions, TextFunctions
<1>2. name = "pow" => Converts(name) = <<"REAL", "REAL">>
  BY Zenon DEF Converts, RealFunctions, IntFunctions, TextFunctions
<1>3. name \in IntFunctions \cup {"set_isr"} => Converts(name) = <<"INT">>
  BY Zenon DEF Converts, RealFunctions, IntFunctions, TextFunctions
<1>4. name \in TextFunctions => Converts(name) = <<"STR">>
  BY Zenon DEF Converts, RealFunctions, IntFunctions, TextFunctions
<1>5. name \notin RealFunctions \cup {"pow", "set_isr"} \cup IntFunctions
                  \cup TextFunctions => Converts(name) = <<>>
  BY Zenon DEF Converts
<1> QED BY <1>1, <1>2, <1>3, <1>4, <1>5

\* Each argument that is converted is one that was popped.
LEMMA ConvertsShape ==
  ASSUME NEW name
  PROVE  /\ Len(Converts(name)) \in 0 .. 2 /\ Len(Converts(name)) <= Len(ExtArgs(name))
         /\ DOMAIN Converts(name) = 1 .. Len(Converts(name))
         /\ \A i \in DOMAIN Converts(name) : Converts(name)[i] \in {"INT", "REAL", "STR"}
<1> DEFINE one == RealFunctions \cup IntFunctions \cup TextFunctions
<1>1. CASE name \in one
  <2>1. \E type \in {"INT", "REAL", "STR"} : Converts(name) = <<type>>
    BY <1>1, ConvertsTo
  <2>2. ExtArgs(name) = <<AnyType>>
    BY <1>1, ExtArgsOf DEF OneArgument
  <2> QED BY <2>1, <2>2
<1>2. CASE name = "pow"
  <2>1. Converts(name) = <<"REAL", "REAL">> /\ ExtArgs(name) = <<AnyType, AnyType>>
    BY <1>2, ConvertsTo, ExtArgsOf
  <2> QED BY <2>1
<1>3. CASE name = "set_isr"
  <2>1. Converts(name) = <<"INT">> /\ ExtArgs(name) = <<AnyType, AddrTypes>>
    BY <1>3, ConvertsTo, ExtArgsOf
  <2> QED BY <2>1
<1>4. CASE name \notin one \cup {"pow", "set_isr"}
  <2>1. Converts(name) = <<>>
    BY <1>4, ConvertsTo
  <2>2. Len(ExtArgs(name)) \in Nat
    BY ExtArgsOf
  <2> QED BY <2>1, <2>2
<1> QED BY <1>1, <1>2, <1>3, <1>4

\* The arguments v start at address a, and may become c.
Converted(name, v, c) ==
  /\ Len(c) = Len(Converts(name)) /\ DOMAIN c = 1 .. Len(c)
  /\ \A i \in 1 .. Len(c) :
       /\ IsValue(v[i])
       /\ c[i] \in Bad \/ (IsValue(c[i]) /\ c[i][1] = Converts(name)[i])

LEMMA ConversionsTyped ==
  ASSUME NEW name, NEW v, \A i \in 1 .. Len(ExtArgs(name)) : IsValue(v[i]),
         NEW c \in Conversions(name, v)
  PROVE  Converted(name, v, c)
<1> DEFINE types == Converts(name)
           n == Len(types)
<1>1. /\ n \in 0 .. 2 /\ n <= Len(ExtArgs(name)) /\ DOMAIN types = 1 .. n
      /\ \A i \in 1 .. n : types[i] \in {"INT", "REAL", "STR"}
  BY ConvertsShape
<1>2. /\ c = [i \in DOMAIN types |-> c[i]]
      /\ \A i \in DOMAIN types : c[i] \in Casted(types[i], v[i])
  BY DEF Conversions
<1>3. Len(ExtArgs(name)) \in Nat
  BY ExtArgsOf
<1> HIDE DEF types, n
<1>4. c = [i \in 1 .. n |-> c[i]] /\ n \in Nat
  BY <1>1, <1>2
<1>5. Len(c) = n /\ DOMAIN c = 1 .. n
  BY <1>4, IsSeq
<1>6. ASSUME NEW i \in 1 .. n
      PROVE  IsValue(v[i]) /\ (c[i] \in Bad \/ (IsValue(c[i]) /\ c[i][1] = types[i]))
  <2>1. i \in 1 .. Len(ExtArgs(name))
    BY <1>1, <1>3
  <2>2. IsValue(v[i])
    BY <2>1
  <2>3. types[i] \in {"INT", "REAL", "STR"} /\ c[i] \in Casted(types[i], v[i])
    BY <1>1, <1>2
  <2> QED BY <2>2, <2>3, CastedResult
<1> QED BY <1>5, <1>6 DEF Converted, n, types

-----------------------------------------------------------------------------
(* Arguments that are converted on the stack.                              *)

\* A machine with some memory and stack pointer, or a failure.
IsMoved(s) ==
  /\ s = [mem |-> s.mem, sp |-> s.sp, bad |-> s.bad]
  /\ s.bad \in {Ok} \cup Bad /\ s.sp \in Int /\ Memory(s.mem)

LEMMA RecastMemory ==
  ASSUME NEW s, IsMoved(s), NEW v, IsValue(v), NEW end \in Int,
         NEW c, c \in Bad \/ IsValue(c)
  PROVE  /\ IsMoved(Recast(s, v, c, end))
         /\ Recast(s, v, c, end).bad = Ok => s.bad = Ok /\ c \notin Bad
         /\ \A x \in Addresses :
              Recast(s, v, c, end).mem[x] # s.mem[x] => x \in end - Size(c) .. end - 1
<1> DEFINE t == Recast(s, v, c, end)
           first == [s EXCEPT !.sp = end]
<1>1. CASE s.bad # Ok \/ (s.bad = Ok /\ c[1] = v[1])
  <2>1. t = s
    BY <1>1 DEF Recast
  <2>2. c[1] = v[1] => c \notin Bad
    BY Types DEF IsValue, Bad, Throws, Undefined, AllTypes
  <2> QED BY <1>1, <2>1, <2>2
<1>2. CASE s.bad = Ok /\ c[1] # v[1] /\ c \in Bad
  <2>1. t = [s EXCEPT !.bad = c]
    BY <1>2 DEF Recast
  <2>2. t = [mem |-> t.mem, sp |-> t.sp, bad |-> t.bad] /\ t.mem = s.mem /\ t.sp = s.sp
        /\ t.bad = c
    BY <2>1 DEF IsMoved
  <2> HIDE DEF t
  <2>3. IsMoved(t)
    BY <1>2, <2>2 DEF IsMoved
  <2> QED BY <1>2, <2>2, <2>3, OkNotBad DEF t
<1>3. CASE s.bad = Ok /\ c[1] # v[1] /\ c \notin Bad
  <2>1. t = PushNext(first, c)
    BY <1>3 DEF Recast
  <2>2. first = Moved(s.mem, end)
    BY <1>3 DEF IsMoved, Moved
  <2>3. IsValue(c) /\ Memory(s.mem)
    BY <1>3 DEF IsMoved
  <2> HIDE DEF t, first
  <2>4. t = PushedOn(s.mem, end, <<c>>)
    BY <2>1, <2>2, PushedValue
  <2>5. PushesOn(s.mem, t, end, 1) /\ t.sp >= end - Size(c)
    BY <2>3, <2>4, PushedBelow
  <2>6. IsMoved(t)
    BY <2>5 DEF PushesOn, IsMoved
  <2>7. ASSUME NEW x \in Addresses, t.mem[x] # s.mem[x]
        PROVE  x \in end - Size(c) .. end - 1
    <3>1. x \in t.sp .. end - 1 /\ t.sp \in Int
      BY <2>5, <2>7 DEF PushesOn
    <3>2. Size(c) \in Nat
      BY <2>3, SizeAtLeast
    <3> QED BY <2>5, <3>1, <3>2
  <2> QED BY <1>3, <2>6, <2>7 DEF t
<1> QED BY <1>1, <1>2, <1>3

\* Converting the arguments changes nothing but the places below them.
LEMMA ConvertMemory ==
  ASSUME Memory(mem), NEW name, NEW v, NEW c, Converted(name, v, c), NEW a \in Int
  PROVE  /\ IsMoved(Convert(a, v, c))
         /\ Convert(a, v, c).bad = Ok => \A i \in 1 .. Len(c) : c[i] \notin Bad
         /\ \A x \in Addresses :
              Convert(a, v, c).mem[x] # mem[x] =>
                \E i \in 1 .. Len(c) :
                  x \in ArgEnd(a, v, i) - Size(c[i]) .. ArgEnd(a, v, i) - 1
<1> DEFINE zero == Moved(mem, a)
           one == IF c = <<>> THEN zero ELSE Recast(zero, v[1], c[1], ArgEnd(a, v, 1))
           two == Convert(a, v, c)
           n == Len(c)
           Below(i, x) == x \in ArgEnd(a, v, i) - Size(c[i]) .. ArgEnd(a, v, i) - 1
<1>1. two = IF n < 2 THEN one ELSE Recast(one, v[2], c[2], ArgEnd(a, v, 2))
  BY DEF Convert
<1>2. n \in 0 .. 2 /\ DOMAIN c = 1 .. n
      /\ \A i \in 1 .. n : IsValue(v[i]) /\ (c[i] \in Bad \/ IsValue(c[i]))
  BY ConvertsShape DEF Converted
<1>3. IsMoved(zero) /\ zero.mem = mem /\ zero.bad = Ok
  BY DEF IsMoved, Moved
<1>4. c = <<>> <=> n = 0
  <2>1. c = <<>> => n = 0
    OBVIOUS
  <2>2. n # 0 => c # <<>>
    BY <2>1
  <2>3. ASSUME n = 0
        PROVE  c = <<>>
    <3>1. c = [i \in 1 .. 0 |-> c[i]]
      BY <1>2, <2>3 DEF Converted
    <3> QED BY <3>1
  <2> QED BY <2>1, <2>3
<1>5. /\ n >= 1 => ArgEnd(a, v, 1) \in Int
      /\ n >= 2 => ArgEnd(a, v, 2) \in Int
  <2>1. \A i \in 1 .. n : Size(v[i]) \in Nat
    BY <1>2, SizeAtLeast
  <2>2. ArgEnd(a, v, 1) = a + Size(v[1]) + 0 /\ ArgEnd(a, v, 2) = a + Size(v[1]) + Size(v[2])
    BY DEF ArgEnd
  <2> HIDE DEF n
  <2>3. n >= 1 => Size(v[1]) \in Nat
    BY <1>2, <2>1
  <2>4. n >= 2 => Size(v[1]) \in Nat /\ Size(v[2]) \in Nat
    BY <1>2, <2>1
  <2> QED BY <2>2, <2>3, <2>4
<1> HIDE DEF zero, two, n
<1>6. /\ IsMoved(one)
      /\ one.bad = Ok => (n >= 1 => c[1] \notin Bad)
      /\ \A x \in Addresses : one.mem[x] # mem[x] => n >= 1 /\ Below(1, x)
  <2>1. CASE n = 0
    BY <1>2, <1>3, <1>4, <2>1
  <2>2. CASE n # 0
    <3>1. one = Recast(zero, v[1], c[1], ArgEnd(a, v, 1)) /\ n >= 1 /\ 1 \in 1 .. n
      BY <1>2, <1>4, <2>2
    <3> HIDE DEF one
    <3>2. IsValue(v[1]) /\ (c[1] \in Bad \/ IsValue(c[1])) /\ ArgEnd(a, v, 1) \in Int
      BY <1>2, <1>5, <3>1
    <3> QED BY <1>3, <3>1, <3>2, RecastMemory
  <2> QED BY <2>1, <2>2
<1> HIDE DEF one
<1>7. CASE n < 2
  <2>1. two = one
    BY <1>1, <1>7
  <2>2. \A i \in 1 .. n : i = 1 /\ n >= 1
    BY <1>2, <1>7
  <2>3. n >= 1 => 1 \in 1 .. n
    BY <1>2
  <2> QED BY <1>6, <2>1, <2>2, <2>3 DEF two, n
<1>8. CASE n >= 2
  <2>1. two = Recast(one, v[2], c[2], ArgEnd(a, v, 2)) /\ 1 \in 1 .. n /\ 2 \in 1 .. n
        /\ \A i \in 1 .. n : i = 1 \/ i = 2
    BY <1>1, <1>2, <1>8
  <2>2. IsValue(v[2]) /\ (c[2] \in Bad \/ IsValue(c[2])) /\ ArgEnd(a, v, 2) \in Int
    BY <1>2, <1>5, <1>8, <2>1
  <2>3. /\ IsMoved(two) /\ (two.bad = Ok => one.bad = Ok /\ c[2] \notin Bad)
        /\ \A x \in Addresses : two.mem[x] # one.mem[x] => Below(2, x)
    BY <1>6, <2>1, <2>2, RecastMemory
  <2>4. two.bad = Ok => \A i \in 1 .. n : c[i] \notin Bad
    BY <1>6, <1>8, <2>1, <2>3
  <2>5. \A x \in Addresses : two.mem[x] # mem[x] => \E i \in 1 .. n : Below(i, x)
    BY <1>6, <2>1, <2>3
  <2> QED BY <2>3, <2>4, <2>5 DEF two, n
<1> QED BY <1>2, <1>7, <1>8

\* A sequence of values.
Pushable(r) == Len(r) \in Nat /\ \A i \in 1 .. Len(r) : IsValue(r[i])

LEMMA PushableShapes ==
  /\ Pushable(<<>>)
  /\ \A v : IsValue(v) => Pushable(<<v>>)
<1>1. Pushable(<<>>)
  BY DEF Pushable
<1>2. ASSUME NEW v, IsValue(v)
      PROVE  Pushable(<<v>>)
  <2> DEFINE r == <<v>>
  <2>1. Len(r) = 1 /\ \A i \in 1 .. 1 : r[i] = v
    OBVIOUS
  <2> HIDE DEF r
  <2>2. Pushable(r)
    BY <1>2, <2>1 DEF Pushable
  <2> QED BY <2>2 DEF r
<1> QED BY <1>1, <1>2

LEMMA AbsoluteResult ==
  ASSUME NEW v, IsValue(v)
  PROVE  Absolute(v) \in Bad \/ Pushable(Absolute(v))
<1>1. CASE v[1] \in {"REAL", "REALARR"}
  <2>1. Absolute(v) = <<Number("REAL")>>
    BY <1>1, Zenon DEF Absolute
  <2> QED BY <2>1, Literals, PushableShapes DEF NumberTypes
<1>2. CASE v[1] = "INT"
  <2>1. Absolute(v) = Throws
    BY <1>2, Zenon DEF Absolute
  <2> QED BY <2>1 DEF Bad
<1>3. CASE v[1] \notin {"REAL", "REALARR", "INT"}
  <2>1. Absolute(v) = <<Untyped(v)>>
    BY <1>3, Zenon DEF Absolute
  <2> QED BY <2>1, UntypedValue, PushableShapes
<1> QED BY <1>1, <1>2, <1>3

\* What a function pushes are values, if it does not fail.
LEMMA ExtResult ==
  ASSUME NEW name, NEW v, \A i \in 1 .. Len(ExtArgs(name)) : IsValue(v[i]),
         NEW c, Converted(name, v, c), \A i \in 1 .. Len(c) : c[i] \notin Bad,
         NEW r \in ExtResults(name, v, c)
  PROVE  r \in Bad \/ Pushable(r)
<1> DEFINE reals == (RealFunctions \ {"set_eps"}) \cup {"pow", "get_eps", "read_real"}
<1>1. CASE name \in {"abs", "fabs", "norm"}
  <2>1. name \notin reals /\ name \notin {"strlen", "read_integer"} /\ name \in OneArgument
    BY <1>1 DEF RealFunctions, OneArgument
  <2>2. ExtResults(name, v, c) = {Absolute(v[1])}
    BY <1>1, <2>1, Zenon DEF ExtResults
  <2>3. IsValue(v[1])
    <3>1. ExtArgs(name) = <<AnyType>>
      BY <2>1, ExtArgsOf
    <3>2. 1 \in 1 .. Len(ExtArgs(name))
      BY <3>1
    <3> QED BY <3>2
  <2> QED BY <2>2, <2>3, AbsoluteResult
<1>2. CASE name \in reals
  <2>1. name \notin {"abs", "fabs", "norm", "strlen", "read_integer"}
    BY <1>2 DEF RealFunctions
  <2>2. ExtResults(name, v, c) = {<<Number("REAL")>>}
    BY <1>2, <2>1, Zenon DEF ExtResults
  <2> QED BY <2>2, Literals, PushableShapes DEF NumberTypes
<1>3. CASE name = "strlen"
  <2>1. name \notin {"abs", "fabs", "norm", "read_integer"} \cup reals
    BY <1>3 DEF RealFunctions
  <2>2. ExtResults(name, v, c) = {<<IntVal(Len(c[1][2]))>>}
    BY <1>3, <2>1, Zenon DEF ExtResults
  <2>3. Converts(name) = <<"STR">>
    BY <1>3, ConvertsTo DEF TextFunctions
  <2>4. Len(Converts(name)) = 1 /\ Converts(name)[1] = "STR"
    BY <2>3
  <2>5. 1 \in 1 .. Len(c)
    BY <2>4 DEF Converted
  <2>6. IsValue(c[1]) /\ c[1][1] = "STR"
    BY <2>4, <2>5 DEF Converted
  <2>7. Len(c[1][2]) \in Int
    BY <2>6, Elements DEF IsSequence
  <2> QED BY <2>2, <2>7, Literals, PushableShapes
<1>4. CASE name = "read_integer"
  <2>1. name \notin {"abs", "fabs", "norm", "strlen"} \cup reals
    BY <1>4 DEF RealFunctions
  <2>2. ExtResults(name, v, c) = {<<IntVal(n)>> : n \in SomeInts}
    BY <1>4, <2>1, Zenon DEF ExtResults
  <2>3. PICK n \in SomeInts : r = <<IntVal(n)>>
    BY <2>2
  <2>4. n \in Int
    BY ValuesAssumption
  <2> QED BY <2>3, <2>4, Literals, PushableShapes
<1>5. CASE name \notin {"abs", "fabs", "norm", "strlen", "read_integer"} \cup reals
  <2>1. ExtResults(name, v, c) = {<<>>}
    BY <1>5, Zenon DEF ExtResults
  <2> QED BY <2>1, PushableShapes
<1> QED BY <1>1, <1>2, <1>3, <1>4, <1>5

LEMMA SetISRStep ==
  ASSUME Machine, Looping, NEW num \in Int, NEW addr \in Int, NEW m, Scratched(m),
         NEW top \in Int, SetISR(num, addr, m, top)
  PROVE  Step
<1>1. CASE num \notin 0 .. NumInterrupts - 1
  <2>1. Fail(Undefined)
    BY <1>1 DEF SetISR
  <2> QED BY <2>1, FailStep DEF Bad
<1>2. CASE num \in 0 .. NumInterrupts - 1
  <2>1. /\ isrs' = [n \in DOMAIN isrs \cup {num} |-> IF n = num THEN addr ELSE isrs[n]]
        /\ sp' = top /\ GoTo(next) /\ bp' = bp /\ mem' = m /\ status' = status
        /\ calls' = calls /\ prog' = prog /\ codeEnd' = codeEnd /\ raised' = raised
    BY <1>2 DEF SetISR, env
  <2>2. /\ DOMAIN isrs' \subseteq 0 .. NumInterrupts - 1
        /\ \A n \in DOMAIN isrs' : isrs'[n] \in Int
    BY <1>2, <2>1 DEF Machine
  <2>3. ip' \in Int /\ ip' < MemSize
    BY <2>1, Bounds, GoToStep DEF Machine
  <2>4. KeepsBelow
    BY <2>1 DEF KeepsBelow, Scratched
  <2> QED BY <2>1, <2>2, <2>3, <2>4 DEF Machine, Step, Scratched
<1> QED BY <1>1, <1>2

\* The function is left.
LEMMA AnswerStep ==
  ASSUME Machine, Looping, NEW name, NEW p, p.sp \in Int,
         \A i \in 1 .. Len(ExtArgs(name)) : IsValue(p.vals[i]),
         name = "set_isr" => IsValue(p.vals[2]) /\ p.vals[2][1] \in AddrTypes,
         NEW c, Converted(name, p.vals, c), \A i \in 1 .. Len(c) : c[i] \notin Bad,
         NEW s, IsMoved(s), Scratched(s.mem), Answer(name, p, c, s)
  PROVE  Step
<1> DEFINE num == ToAddr(c[1][2])
           addr == Resolve(p.vals[2], next, p.sp, bp)
<1>1. next \in Int /\ bp \in Int
  BY Bounds
<1>2. CASE name = "set_isr"
  <2>1. SetISR(num, addr, s.mem, p.sp)
    BY <1>2, Zenon DEF Answer
  <2>2. Converts(name) = <<"INT">>
    BY <1>2, ConvertsTo
  <2>3. Len(Converts(name)) = 1 /\ Converts(name)[1] = "INT"
    BY <2>2
  <2>4. 1 \in 1 .. Len(c)
    BY <2>3 DEF Converted
  <2>5. IsValue(c[1]) /\ c[1][1] = "INT"
    BY <2>3, <2>4 DEF Converted
  <2>6. c[1][2] \in Int
    BY <2>5 DEF IsValue
  <2>7. num \in Int
    BY <2>6, AddrInt
  <2>8. addr \in Int
    BY <1>1, <1>2, ResolveInt
  <2> HIDE DEF num, addr
  <2> QED BY <2>1, <2>7, <2>8, SetISRStep
<1>3. CASE name = "to_string"
  <2>1. Continue(s, next)
    BY <1>3, Zenon DEF Answer
  <2>2. PushesOn(s.mem, s, s.sp, 0) /\ s.sp \in Int
    BY DEF PushesOn, IsMoved
  <2> QED BY <1>1, <2>1, <2>2, PushOnStep
<1>4. CASE name # "set_isr" /\ name # "to_string"
  <2>1. PICK r \in ExtResults(name, p.vals, c) :
          IF r \in Bad THEN Fail(r) ELSE Continue(PushedOn(s.mem, p.sp, r), next)
    BY <1>4, Zenon DEF Answer
  <2>2. r \in Bad \/ Pushable(r)
    BY ExtResult
  <2>3. CASE r \in Bad
    BY <2>1, <2>3, FailStep
  <2>4. CASE r \notin Bad
    <3>1. /\ Continue(PushedOn(s.mem, p.sp, r), next) /\ Len(r) \in Nat
          /\ \A i \in 1 .. Len(r) : IsValue(r[i])
      BY <2>1, <2>2, <2>4 DEF Pushable
    <3>2. Memory(s.mem)
      BY DEF IsMoved
    <3>3. PushesOn(s.mem, PushedOn(s.mem, p.sp, r), p.sp, Len(r))
      BY <3>1, <3>2, PushAll
    <3> QED BY <1>1, <3>1, <3>3, PushOnStep
  <2> QED BY <2>3, <2>4
<1> QED BY <1>2, <1>3, <1>4

LEMMA ExtCallStep ==
  ASSUME Machine, ExtCall
  PROVE  Step
<1>1. Looping /\ Pending = {} /\ opcode = "EXTCALL"
  BY DEF ExtCall, Fetch, opcode
<1> DEFINE ftypes == <<{"STR"}>>
           f == Operands(ftypes)
           name == f.vals[1][2][1]
           types == ExtArgs(name)
           p == Popped(f.sp, types, MemSize + 1)
<1>2. IF f.bad # Ok THEN Fail(f.bad)
      ELSE IF p.bad # Ok THEN Fail(p.bad) ELSE CallExternal(name, f.sp, p)
  BY DEF ExtCall, With
<1>3. Len(ftypes) = 1
  OBVIOUS
<1>4. ASSUME NEW a, NEW c \in Conversions(name, p.vals), NEW i \in DOMAIN c,
             a \in ArgEnd(f.sp, p.vals, i) - Size(c[i]) .. ArgEnd(f.sp, p.vals, i) - 1
      PROVE  InScratch(a)
  BY <1>1, <1>4, Zenon DEF InScratch
<1> HIDE DEF ftypes
<1>5. (f.bad # Ok => f.bad \in Bad) /\ (f.bad = Ok => f.sp \in Int /\ f.sp <= MemSize)
  BY <1>1, <1>3, OperandsPopped
<1> HIDE DEF f, name
<1>6. CASE f.bad # Ok
  BY <1>2, <1>5, <1>6, FailStep
<1>7. CASE f.bad = Ok
  <2>1. Memory(mem) /\ f.sp \in Int /\ f.sp <= MemSize /\ next \in Int /\ bp \in Int
    BY <1>1, <1>5, <1>7, Bounds
  <2>2. Len(types) \in Nat
    BY ExtArgsOf
  <2>3. name = "set_isr" => types = <<AnyType, AddrTypes>>
    BY ExtArgsOf
  <2>4. name = "set_isr" => Len(types) = 2 /\ types[2] = AddrTypes
    BY <2>3
  <2> HIDE DEF types
  <2>5. Pops(p, f.sp, types, Len(types)) /\ (p.bad = Ok => Len(p.vals) = Len(types))
    BY <2>1, <2>2, PopOperands
  <2> HIDE DEF p
  <2>6. /\ p.bad # Ok => p.bad \in Bad
        /\ p.sp \in Int
        /\ p.bad = Ok => /\ Len(p.vals) = Len(types)
                         /\ \A i \in 1 .. Len(types) :
                              IsValue(p.vals[i]) /\ p.vals[i][1] \in types[i]
    BY <2>5 DEF Pops
  <2>7. CASE p.bad # Ok
    BY <1>2, <1>7, <2>6, <2>7, FailStep
  <2>8. CASE p.bad = Ok
    <3>1. PICK c \in Conversions(name, p.vals) :
            With(Convert(f.sp, p.vals, c), LAMBDA s : Answer(name, p, c, s))
      BY <1>2, <1>7, <2>8 DEF CallExternal
    <3> DEFINE s == Convert(f.sp, p.vals, c)
    <3>2. IF s.bad # Ok THEN Fail(s.bad) ELSE Answer(name, p, c, s)
      BY <3>1 DEF With
    <3>3. \A i \in 1 .. Len(ExtArgs(name)) : IsValue(p.vals[i])
      BY <2>6, <2>8 DEF types
    <3>4. Converted(name, p.vals, c)
      BY <3>3, ConversionsTyped
    <3>5. /\ IsMoved(s)
          /\ s.bad = Ok => \A i \in 1 .. Len(c) : c[i] \notin Bad
          /\ \A x \in Addresses :
               s.mem[x] # mem[x] =>
                 \E i \in 1 .. Len(c) :
                   x \in ArgEnd(f.sp, p.vals, i) - Size(c[i]) .. ArgEnd(f.sp, p.vals, i) - 1
      BY <2>1, <3>4, ConvertMemory
    <3> HIDE DEF s
    <3>6. Scratched(s.mem)
      <4>1. DOMAIN c = 1 .. Len(c)
        BY <3>4 DEF Converted
      <4>2. \A x \in Addresses : s.mem[x] # mem[x] => InScratch(x)
        BY <1>4, <3>5, <4>1 DEF p, types
      <4> QED BY <3>5, <4>2 DEF Scratched, IsMoved
    <3>7. CASE s.bad # Ok
      BY <3>2, <3>5, <3>7, FailStep DEF IsMoved
    <3>8. CASE s.bad = Ok
      <4>1. name = "set_isr" => IsValue(p.vals[2]) /\ p.vals[2][1] \in AddrTypes
        BY <2>4, <2>6, <2>8, SMTT(30)
      <4>2. Answer(name, p, c, s) /\ \A i \in 1 .. Len(c) : c[i] \notin Bad
        BY <3>2, <3>5, <3>8
      <4> QED BY <1>1, <2>6, <3>3, <3>4, <3>5, <3>6, <4>1, <4>2, AnswerStep
    <3> QED BY <3>7, <3>8
  <2> QED BY <2>7, <2>8
<1> QED BY <1>6, <1>7

-----------------------------------------------------------------------------
(* The invariant and what it implies.                                      *)

LEMMA StutterStep ==
  ASSUME Machine, UNCHANGED vars
  PROVE  Step
BY DEF vars, Machine, Memory, Step, KeepsBelow

\* A step of the machine changes nothing below the stack, unless it is a store.
LEMMA NextStep ==
  ASSUME Machine, [Next]_vars
  PROVE  Stored /\ (WrMem \/ WrArr \/ KeepsBelow)
<1>1. CASE WrMem
  BY <1>1, WrMemStep
<1>2. CASE WrArr
  BY <1>2, WrArrStep
<1>3. CASE Compute \/ MakeArr \/ Push \/ RdMem
  BY <1>3, ComputeStep, MakeArrStep, InstructionPush, RdMemStep, StepStored DEF Step
<1>4. CASE Nop \/ Jmp \/ JmpCnd \/ Frame
  BY <1>4, NopStep, JmpStep, JmpCndStep, FrameStep, StepStored DEF Step
<1>5. CASE Call \/ CallISR \/ Ret \/ ExtCall
  BY <1>5, CallStep, CallISRStep, RetStep, ExtCallStep, StepStored DEF Step
<1>6. CASE Halt \/ Invalid \/ PointerFault
  BY <1>6, EndStep, StepStored DEF Step
<1>7. CASE RequestInterrupt
  BY <1>7, RequestStep, StepStored DEF Step
<1>8. CASE Stopped \/ UNCHANGED vars
  BY <1>8, StutterStep, StepStored DEF Step, Stopped
<1> QED BY <1>1, <1>2, <1>3, <1>4, <1>5, <1>6, <1>7, <1>8 DEF Next, Run

LEMMA IrqsStep ==
  ASSUME Machine, irqs \subseteq HostIrqs, [Next]_vars
  PROVE  irqs' \subseteq HostIrqs
<1>1. CASE CallISR
  BY <1>1, CallISRStep
<1>2. CASE RequestInterrupt
  BY <1>2 DEF RequestInterrupt
<1>3. CASE PointerFault \/ Stopped \/ UNCHANGED vars
  BY <1>3 DEF PointerFault, Stopped, vars
<1>4. CASE Invalid
  BY <1>4 DEF Invalid
<1>5. CASE \E ops : Fetch(ops)
  BY <1>5, Fetched
<1>6. CASE Run /\ ~CallISR /\ ~PointerFault /\ ~Invalid
  <2>1. \E ops : Fetch(ops)
    BY <1>6 DEF Run, Compute, MakeArr, Push, RdMem, WrMem, WrArr, Nop, Jmp, JmpCnd, Call,
                Ret, Frame, Halt, ExtCall
  <2> QED BY <1>5, <2>1
<1> QED BY <1>1, <1>2, <1>3, <1>4, <1>6 DEF Next

LEMMA IInvInit == Init => IInv
<1> SUFFICES ASSUME Init PROVE IInv
  OBVIOUS
<1> DEFINE code == Programs[prog]
<1>1. prog \in DOMAIN Programs /\ MemSize \in Nat \ {0} /\ Pad \in Nat
  BY MemoryNotEmpty, VMAssumption DEF Init
<1>2. /\ code \in Seq(Range(code)) /\ Len(code) \in 1 .. MemSize - Pad
      /\ \A b \in Range(code) : IsByte(b)
  BY <1>1, VMAssumption
<1>3. /\ ip = 0 /\ sp = InitialSP /\ bp = MemSize /\ codeEnd = Len(code)
      /\ mem = [a \in Addresses |-> IF a < Len(code) THEN code[a + 1] ELSE Zero]
      /\ status = "running" /\ isrs = <<>> /\ irqs = {} /\ raised = 0 /\ calls = <<>>
  BY DEF Init
<1> HIDE DEF code
<1>4. Memory(mem)
  <2>1. \A k \in 1 .. Len(code) : IsByte(code[k])
    BY <1>2, SeqShape DEF Range
  <2>2. IsByte(Zero)
    BY DEF IsByte, Zero
  <2>3. ASSUME NEW a \in Addresses
        PROVE  IsByte(IF a < Len(code) THEN code[a + 1] ELSE Zero)
    <3>1. a < Len(code) => a + 1 \in 1 .. Len(code)
      BY <1>1, <1>2 DEF Addresses
    <3> QED BY <2>1, <2>2, <3>1
  <2> QED BY <1>3, <2>3 DEF Memory
<1>5. DOMAIN isrs = {} /\ calls \in Seq(Activation)
  BY <1>3, EmptySeq
<1>6. ip \in Int /\ sp \in Int /\ bp \in Int /\ ip < MemSize /\ codeEnd \in Nat
  BY <1>1, <1>2, <1>3 DEF InitialSP
<1>7. raised \in 0 .. MaxIrqs
  BY <1>3, VMAssumption
<1> QED BY <1>1, <1>3, <1>4, <1>5, <1>6, <1>7 DEF IInv, Machine, Statuses

LEMMA IInvStep == IInv /\ [Next]_vars => IInv'
<1> SUFFICES ASSUME IInv, [Next]_vars PROVE IInv'
  OBVIOUS
<1>1. Machine /\ irqs \subseteq HostIrqs
  BY DEF IInv
<1> QED BY <1>1, NextStep, IrqsStep DEF IInv, Stored

\* Whatever program is loaded, memory holds bytes of typed data, and what is used
\* as a number, in memory, in a register or in the history of calls, is one.
THEOREM MachineTyped == Spec => []IInv
BY IInvInit, IInvStep, PTL DEF Spec

\* Whatever program is loaded, the machine's registers, memory, interrupt
\* routines and activations keep their types: no instruction leaves a byte that
\* is read as a number but is none, and a jump beyond the end of memory wraps
\* around.  A negative address is left to VM::CheckPointerBounds (VM::Run).
THEOREM VMTypes == Spec => []TypeOK
BY MachineTyped, TypesInvariant, PTL

\* Whatever program is loaded, instructions other than WRMEM, WRARR and WRARRR
\* change memory below the stack in two places only: where EXTCALL converts an
\* argument (VM::OpCast in VM::CallExternal), as far as what it becomes, and where
\* a served interrupt pushes the address of its routine (VM::Run).
THEOREM StackOnlyGrows == Spec => OnlyPushes
<1>1. IInv /\ [Next]_vars => [WrMem \/ WrArr \/ KeepsBelow]_vars
  BY NextStep DEF IInv
<1> QED BY <1>1, MachineTyped, PTL DEF Spec, OnlyPushes

\* A machine that cannot fetch never will again.
LEMMA LoopingStep ==
  ASSUME IInv, [Next]_vars, Looping'
  PROVE  Looping
<1>1. CASE Run /\ ~PointerFault
  BY <1>1 DEF Run, Compute, MakeArr, Push, RdMem, WrMem, WrArr, Nop, Jmp, JmpCnd, Call,
     CallISR, Ret, Frame, Halt, Invalid, ExtCall, Fetch
<1>2. CASE PointerFault
  BY <1>2 DEF PointerFault, Fail, Looping, Throws
<1>3. CASE RequestInterrupt
  BY <1>3 DEF RequestInterrupt, Looping, PointersInBounds, regs, gbp
<1>4. CASE Stopped \/ UNCHANGED vars
  BY <1>4 DEF Stopped, vars, Looping, PointersInBounds, gbp
<1> QED BY <1>1, <1>2, <1>3, <1>4 DEF Next

LEMMA CodeStep == IInv /\ CodeIntact /\ [Next]_vars /\ [OffCode]_vars => CodeIntact'
<1> SUFFICES ASSUME IInv, CodeIntact, [Next]_vars, [OffCode]_vars, Looping',
                    NEW a \in 0 .. codeEnd' - 1
             PROVE  mem'[a] = Programs[prog'][a + 1]
  BY DEF CodeIntact
<1>1. Stored /\ (WrMem \/ WrArr \/ KeepsBelow)
  BY NextStep DEF IInv
<1>2. a \in 0 .. codeEnd - 1 /\ prog' = prog /\ codeEnd' = codeEnd /\ codeEnd \in Nat
  BY <1>1 DEF Stored, IInv, Machine
<1>3. mem[a] = Programs[prog][a + 1]
  BY <1>2, LoopingStep DEF CodeIntact
<1>4. mem'[a] = mem[a]
  <2>1. CASE UNCHANGED vars
    BY <2>1 DEF vars
  <2>2. CASE (WrMem \/ WrArr) /\ OffCode
    BY <1>2, <2>2 DEF OffCode
  <2>3. CASE KeepsBelow
    <3>1. sp' \in codeEnd .. MemSize /\ bp' \in codeEnd .. MemSize
      BY <1>2 DEF Looping, PointersInBounds
    <3>2. MemSize \in Int /\ codeEnd \in Int
      BY <1>2, MemSizeNat
    <3>3. a \in Addresses
      BY <1>2, <3>1, <3>2 DEF Addresses
    <3>4. ~(a >= IF Len(calls') > Len(calls) THEN bp' ELSE sp')
      BY <1>2, <3>1, <3>2
    <3> SUFFICES ASSUME mem'[a] # mem[a] PROVE FALSE
      OBVIOUS
    <3>5. InScratch(a)
      BY <2>3, <3>3, <3>4 DEF KeepsBelow
    <3>6. CASE OffCode
      BY <1>2, <3>5, <3>6 DEF OffCode, Looping
    <3>7. CASE UNCHANGED vars
      BY <3>7 DEF vars
    <3> QED BY <3>6, <3>7
  <2> QED BY <1>1, <2>1, <2>2, <2>3
<1> QED BY <1>2, <1>3, <1>4

\* A program keeps its code as long as the machine fetches from it, if it stores
\* nothing over it, and if no argument is converted and no interrupt served on a
\* stack so full that this overwrites code and the stack is in bounds again after
\* it: what is pushed and stays, by calls however deep, by returns and by results,
\* cannot do so unnoticed (VM::CheckPointerBounds in VM::Run).
THEOREM CodeKept == Spec /\ StoresOffCode => []CodeIntact
<1>1. Init => CodeIntact
  <2> SUFFICES ASSUME Init, NEW a \in 0 .. codeEnd - 1
               PROVE  mem[a] = Programs[prog][a + 1]
    BY DEF CodeIntact
  <2>1. a \in Addresses /\ a < Len(Programs[prog])
    BY VMAssumption DEF Init, Addresses
  <2> QED BY <2>1 DEF Init
<1> QED BY <1>1, CodeStep, MachineTyped, PTL DEF Spec, StoresOffCode
=============================================================================
