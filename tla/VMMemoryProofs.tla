---------------------------- MODULE VMMemoryProofs ----------------------------
(***************************************************************************)
(* Proofs about the data of the virtual machine in its memory: what is     *)
(* written can be read back, so that values arrive unchanged on the stack  *)
(* and in memory (ValuesArrive), and an instruction that stores elements   *)
(* of an array changes those elements only (StoresElements).               *)
(***************************************************************************)
EXTENDS VMProofs

-----------------------------------------------------------------------------
(* Reading what is in memory.                                              *)

LEMMA DivisionUnique ==
  ASSUME NEW m \in Nat \ {0}, NEW q \in Int, NEW r \in 0 .. m - 1
  PROVE  (m * q + r) \div m = q /\ (m * q + r) % m = r
<1> DEFINE n == m * q + r
           p == n \div m
           s == n % m
<1>1. n \in Int /\ m * q \in Int
  OBVIOUS
<1>2. p \in Int /\ s \in 0 .. m - 1 /\ n = m * p + s
  BY <1>1, Division
<1>3. n = m * q + r
  OBVIOUS
<1> HIDE DEF n, p, s
<1>4. ~(p < q)
  <2> SUFFICES ASSUME p + 1 <= q PROVE FALSE
    BY <1>2
  <2>1. m * (p + 1) <= m * q /\ m * (p + 1) = m * p + m
    BY <1>2, Monotone
  <2> QED BY <1>1, <1>2, <1>3, <2>1
<1>5. ~(q < p)
  <2> SUFFICES ASSUME q + 1 <= p PROVE FALSE
    BY <1>2
  <2>1. m * (q + 1) <= m * p /\ m * (q + 1) = m * q + m
    BY <1>2, Monotone
  <2> QED BY <1>1, <1>2, <1>3, <2>1
<1>6. p = q
  BY <1>2, <1>4, <1>5
<1>7. s = r
  BY <1>1, <1>2, <1>3, <1>6
<1> QED BY <1>6, <1>7 DEF n, p, s

\* An item whose bytes are all there.
LEMMA RawStored ==
  ASSUME NEW a \in Int, NEW kind \in DOMAIN RawSize, NEW x, InBounds(a, RawSize[kind]),
         kind # "op", \A k \in 1 .. RawSize[kind] : mem[a + k - 1] = <<kind, x, k>>
  PROVE  Raw(a, kind) = <<kind, x>>
<1> DEFINE n == RawSize[kind]
<1>1. n \in Nat \ {0}
  BY Sizes
<1>2. Raw(a, kind) = IF ~InBounds(a, n) \/ (kind = "type" /\ mem[a] = Zero) THEN Throws
                     ELSE IF \A k \in 1 .. n : mem[a + k - 1] = <<kind, mem[a][2], k>>
                       THEN <<kind, mem[a][2]>> ELSE Undefined
  BY DEF Raw
<1>3. \A k \in 1 .. n : mem[a + k - 1] = <<kind, x, k>>
  OBVIOUS
<1>4. InBounds(a, n)
  OBVIOUS
<1> HIDE DEF n
<1>5. mem[a] = <<kind, x, 1>>
  <2>1. mem[a + 1 - 1] = <<kind, x, 1>>
    BY <1>1, <1>3
  <2>2. a + 1 - 1 = a
    OBVIOUS
  <2> QED BY <2>1, <2>2
<1>6. mem[a][2] = x /\ mem[a] # Zero
  <2>1. mem[a][1] = kind /\ Zero[1] = "op"
    BY <1>5 DEF Zero
  <2> QED BY <1>5, <2>1
<1>7. \A k \in 1 .. n : mem[a + k - 1] = <<kind, mem[a][2], k>>
  BY <1>3, <1>6
<1> QED BY <1>2, <1>4, <1>6, <1>7

\* The bytes of an element x of the type start at address a.
HasElem(a, type, x) ==
  \A k \in 0 .. ElemSize(type) - 1 : mem[a + k] = ElemByte(type, x, k)

LEMMA ElemStored ==
  ASSUME NEW a \in Int, NEW type \in ScalarTypes, NEW x, HasElem(a, type, x),
         InBounds(a, ElemSize(type))
  PROVE  ElemAt(a, type) = <<RawKind[type], x>>
<1> DEFINE kind == RawKind[type]
           n == RawSize[kind]
           c == RawCount[type]
           item(k) == Raw(a + k * n, kind)
           items == {item(k) : k \in 0 .. c - 1}
<1>1. /\ kind \in DOMAIN RawSize /\ kind # "op" /\ n \in Nat \ {0} /\ c \in Nat \ {0}
      /\ ElemSize(type) = c * n
  <2>1. type \in DataTypes /\ ElemType(type) = type
    BY DEF ScalarTypes, DataTypes, ElemType, ArrayTypes, NumberTypes
  <2> QED BY <2>1, Sizes DEF ElemSize
<1>2. ElemAt(a, type) = IF Throws \in items THEN Throws
                        ELSE IF Undefined \in items THEN Undefined
                        ELSE CHOOSE y \in items : TRUE
  BY DEF ElemAt
<1>3. \A k \in 0 .. c * n - 1 : mem[a + k] = <<kind, x, (k % n) + 1>>
  BY <1>1 DEF HasElem, ElemByte
<1>4. InBounds(a, c * n)
  BY <1>1
<1>5. kind \notin {"throws", "undefined"}
  BY <1>1 DEF RawSize
<1> HIDE DEF kind, c
<1>6. ASSUME NEW k \in 0 .. c - 1
      PROVE  item(k) = <<kind, x>>
  <2>1. n \in Nat \ {0} /\ n = RawSize[kind]
    BY <1>1
  <2> HIDE DEF n
  <2>2. k * n \in Int /\ c * n \in Int /\ k * n >= 0 /\ k * n + n <= c * n
    <3>1. n * 0 <= n * k /\ n * (k + 1) <= n * c
      BY <1>1, <2>1, Monotone
    <3> QED BY <1>1, <2>1, <3>1
  <2>3. InBounds(a + k * n, n)
    BY <1>1, <1>4, <2>1, <2>2, MemSizeNat DEF InBounds
  <2>4. ASSUME NEW j \in 1 .. n
        PROVE  mem[(a + k * n) + j - 1] = <<kind, x, j>>
    <3> PICK r \in 0 .. n - 1 : r = j - 1
      BY <2>1
    <3>1. /\ n * k + r \in 0 .. c * n - 1 /\ a + (n * k + r) = (a + k * n) + j - 1
          /\ r + 1 = j
      BY <2>1, <2>2
    <3>2. (n * k + r) % n = r
      BY <1>1, <2>1, DivisionUnique, k \in Int
    <3>3. mem[a + (n * k + r)] = <<kind, x, ((n * k + r) % n) + 1>>
      BY <1>3, <3>1
    <3> QED BY <3>1, <3>2, <3>3
  <2>5. a + k * n \in Int
    BY <2>2
  <2> QED BY <1>1, <2>1, <2>3, <2>4, <2>5, RawStored
<1>7. items = {<<kind, x>>}
  <2>1. 0 \in 0 .. c - 1
    BY <1>1
  <2> HIDE DEF item
  <2> QED BY <1>6, <2>1
<1>8. Throws # <<kind, x>> /\ Undefined # <<kind, x>>
  BY <1>5 DEF Throws, Undefined
<1> HIDE DEF items
<1>9. ElemAt(a, type) = <<kind, x>>
  BY <1>2, <1>7, <1>8
<1> QED BY <1>9 DEF kind

LEMMA ElemTypes ==
  ASSUME NEW type \in DataTypes
  PROVE  /\ ElemType(type) \in ScalarTypes /\ ElemSize(ElemType(type)) = ElemSize(type)
         /\ ElemSize(type) \in Nat \ {0}
         /\ RawKind[ElemType(type)] \notin {"throws", "undefined"}
<1>1. ElemType(type) \in ScalarTypes /\ ElemSize(type) \in Nat \ {0}
      /\ RawKind[ElemType(type)] \in DOMAIN RawSize
  BY Sizes
<1>2. ElemType(ElemType(type)) = ElemType(type)
  BY <1>1 DEF ElemType, ScalarTypes, NumberTypes, ArrayTypes
<1>3. ElemSize(ElemType(type)) = ElemSize(type)
  BY <1>2 DEF ElemSize
<1>4. \A kind \in DOMAIN RawSize : kind \notin {"throws", "undefined"}
  BY DEF RawSize
<1> QED BY <1>1, <1>3, <1>4

\* Where element i of a string or array lies that starts at address b.
Place(b, type, i) == b + (i - 1) * ElemSize(type)

LEMMA PlaceInside ==
  ASSUME NEW b \in Int, NEW n \in Nat, NEW type, IsSequence(type), NEW i \in 1 .. n,
         InBounds(b, n * ElemSize(type))
  PROVE  /\ Place(b, type, i) \in Int /\ InBounds(Place(b, type, i), ElemSize(type))
         /\ Place(b, type, i) >= b
         /\ Place(b, type, i) + ElemSize(type) <= b + n * ElemSize(type)
<1> DEFINE m == ElemSize(type)
<1>1. m \in Nat \ {0} /\ i \in Int /\ i >= 1 /\ i <= n
  BY Types, ElemTypes
<1>2. Place(b, type, i) = b + (i - 1) * m
  BY DEF Place
<1>3. b >= 0 /\ b + n * m \in 0 .. MemSize
  BY DEF InBounds
<1> HIDE DEF m
<1>4. m * 0 <= m * (i - 1) /\ m * i <= m * n
  BY <1>1, Monotone
<1>5. (i - 1) * m \in Int /\ (i - 1) * m >= 0 /\ (i - 1) * m + m <= n * m /\ n * m \in Int
  BY <1>1, <1>4
<1>6. /\ b + (i - 1) * m \in Int /\ b + (i - 1) * m >= b
      /\ b + (i - 1) * m + m <= b + n * m
      /\ b + (i - 1) * m + m \in 0 .. MemSize
  BY <1>1, <1>3, <1>5, MemSizeNat
<1>7. InBounds(b + (i - 1) * m, m)
  BY <1>3, <1>6 DEF InBounds
<1> QED BY <1>2, <1>6, <1>7 DEF m

\* The bytes of an element are numbered from where it starts.
LEMMA ElemByteShift ==
  ASSUME NEW type \in ScalarTypes, NEW x, NEW q \in Int, NEW k \in Int
  PROVE  ElemByte(type, x, ElemSize(type) * q + k) = ElemByte(type, x, k)
<1> DEFINE n == RawSize[RawKind[type]]
           c == RawCount[type]
<1>1. n \in Nat \ {0} /\ c \in Nat \ {0} /\ ElemSize(type) = c * n
  <2>1. type \in DataTypes /\ ElemType(type) = type
    BY DEF ScalarTypes, DataTypes, ElemType, ArrayTypes, NumberTypes
  <2> QED BY <2>1, Sizes DEF ElemSize
<1>2. \A j : ElemByte(type, x, j) = <<RawKind[type], x, (j % n) + 1>>
  BY DEF ElemByte
<1> HIDE DEF n, c
<1> PICK d \in Int, r \in 0 .. n - 1 : k = n * d + r
  BY <1>1, Division
<1> PICK e \in Int : e = c * q + d
  BY <1>1
<1>3. ElemSize(type) * q + k = n * e + r
  <2>1. (c * n) * q = n * (c * q) /\ n * e = n * (c * q) + n * d
    BY <1>1
  <2>2. n * (c * q) \in Int /\ n * d \in Int
    BY <1>1
  <2> QED BY <1>1, <2>1, <2>2
<1>4. (n * e + r) % n = r /\ (n * d + r) % n = r
  BY <1>1, DivisionUnique
<1> QED BY <1>2, <1>3, <1>4

LEMMA ElemsStored ==
  ASSUME NEW b \in Int, NEW n \in Nat, NEW type, IsSequence(type), NEW s,
         s = [i \in 1 .. n |-> s[i]], InBounds(b, n * ElemSize(type)),
         \A i \in 1 .. n : HasElem(Place(b, type, i), ElemType(type), s[i])
  PROVE  ElemsAt(b, n, type) = <<type, s>>
<1> DEFINE kind == RawKind[ElemType(type)]
           elem(i) == ElemAt(b + (i - 1) * ElemSize(type), ElemType(type))
           elems == [i \in 1 .. n |-> elem(i)]
<1>1. /\ type \in DataTypes /\ ElemType(type) \in ScalarTypes
      /\ ElemSize(ElemType(type)) = ElemSize(type) /\ kind # "undefined"
  BY Types, ElemTypes
<1>2. ASSUME NEW i \in 1 .. n
      PROVE  elem(i) = <<kind, s[i]>>
  <2>1. /\ Place(b, type, i) \in Int /\ InBounds(Place(b, type, i), ElemSize(type))
        /\ HasElem(Place(b, type, i), ElemType(type), s[i])
    BY PlaceInside
  <2>2. ElemAt(Place(b, type, i), ElemType(type)) = <<kind, s[i]>>
    BY <1>1, <2>1, ElemStored
  <2> QED BY <2>2 DEF Place
<1> HIDE DEF elem, kind
<1>3. Undefined \notin Range(elems)
  BY <1>1, <1>2 DEF Range, Undefined
<1>4. ElemsAt(b, n, type) = IF ~InBounds(b, n * ElemSize(type)) THEN Throws
                            ELSE IF n < 0 \/ Undefined \in Range(elems) THEN Undefined
                            ELSE <<type, [i \in 1 .. n |-> elems[i][2]]>>
  BY DEF ElemsAt, elem
<1>5. [i \in 1 .. n |-> elems[i][2]] = s
  <2>1. \A i \in 1 .. n : elems[i][2] = s[i]
    BY <1>2
  <2> HIDE DEF elems
  <2>2. [i \in 1 .. n |-> elems[i][2]] = [i \in 1 .. n |-> s[i]]
    BY <2>1
  <2> QED BY <2>2
<1> HIDE DEF elems
<1> QED BY <1>3, <1>4, <1>5, SMTT(30)

\* The bytes of a value, part by part.
LEMMA EncodeParts ==
  ASSUME NEW v, IsValue(v), v[1] \in AnyType
  PROVE  /\ Encode(v)[1] = <<"type", v[1], 1>>
         /\ v[1] \in AddrTypes =>
              \A k \in 1 .. AddrSize : Encode(v)[k + 1] = <<"addr", v[2], k>>
         /\ IsSequence(v[1]) =>
              /\ \A k \in 1 .. AddrSize : Encode(v)[k + 1] = <<"addr", Len(v[2]), k>>
              /\ \A n \in 0 .. Len(v[2]) * ElemSize(v[1]) - 1 :
                   Encode(v)[n + 2 + AddrSize] =
                     ElemByte(ElemType(v[1]), v[2][(n \div ElemSize(v[1])) + 1], n)
         /\ v[1] \notin AddrTypes /\ ~IsSequence(v[1]) =>
              \A n \in 0 .. ElemSize(v[1]) - 1 :
                Encode(v)[n + 2] = ElemByte(v[1], v[2], n)
<1> DEFINE header == 1 + IF IsSequence(v[1]) THEN AddrSize ELSE 0
           X(n) == IF IsSequence(v[1]) THEN v[2][(n \div ElemSize(v[1])) + 1] ELSE v[2]
           Byte(k) == IF k = 1 THEN <<"type", v[1], 1>>
                      ELSE IF v[1] \in AddrTypes \cup {"UNKNOWN"} THEN <<"addr", v[2], k - 1>>
                      ELSE IF k <= header THEN <<"addr", Len(v[2]), k - 1>>
                      ELSE ElemByte(ElemType(v[1]), X(k - 1 - header), k - 1 - header)
<1>1. Encode(v) = [k \in 1 .. Size(v) |-> Byte(k)]
  BY DEF Encode
<1>2. AddrSize \in Nat \ {0} /\ Size(v) \in Nat /\ Size(v) >= 1
  BY ValuesAssumption, SizeAtLeast
<1>3. \A k \in 1 .. Size(v) : Encode(v)[k] = Byte(k)
  <2> HIDE DEF Byte
  <2> QED BY <1>1
<1>4. Encode(v)[1] = <<"type", v[1], 1>>
  <2>1. 1 \in 1 .. Size(v)
    BY <1>2
  <2>2. Byte(1) = <<"type", v[1], 1>>
    OBVIOUS
  <2> HIDE DEF Byte
  <2> QED BY <1>3, <2>1, <2>2
<1>5. CASE v[1] \in AddrTypes
  <2>1. Size(v) = 1 + AddrSize /\ ~IsSequence(v[1])
    BY <1>5, SizeAtLeast, Types
  <2>2. ASSUME NEW k \in 1 .. AddrSize
        PROVE  Encode(v)[k + 1] = <<"addr", v[2], k>>
    <3>1. k + 1 \in 1 .. Size(v) /\ k + 1 # 1 /\ (k + 1) - 1 = k
      BY <1>2, <2>1
    <3>2. Byte(k + 1) = <<"addr", v[2], (k + 1) - 1>>
      BY <1>5, <3>1
    <3> QED BY <1>3, <3>1, <3>2
  <2> QED BY <1>4, <1>5, <2>1, <2>2
<1>6. CASE IsSequence(v[1])
  <2>1. /\ v[1] \notin AddrTypes \cup {"UNKNOWN"} /\ v[1] \in DataTypes
        /\ header = 1 + AddrSize
        /\ Size(v) = 1 + AddrSize + Len(v[2]) * ElemSize(v[1])
    BY <1>6, SizeAtLeast, Types
  <2>2. Len(v[2]) * ElemSize(v[1]) \in Nat
    BY <1>6, <2>1, Elements, Sizes
  <2>3. ASSUME NEW k \in 1 .. AddrSize
        PROVE  Encode(v)[k + 1] = <<"addr", Len(v[2]), k>>
    <3> PICK j \in 1 .. Size(v) : j = k + 1
      BY <1>2, <2>1, <2>2
    <3>1. j # 1 /\ j <= header /\ j - 1 = k
      BY <1>2, <2>1
    <3>2. Byte(j) = <<"addr", Len(v[2]), j - 1>>
      BY <2>1, <3>1
    <3> QED BY <1>3, <3>1, <3>2
  <2>4. ASSUME NEW n \in 0 .. Len(v[2]) * ElemSize(v[1]) - 1
        PROVE  Encode(v)[n + 2 + AddrSize] =
                 ElemByte(ElemType(v[1]), v[2][(n \div ElemSize(v[1])) + 1], n)
    <3> PICK j \in 1 .. Size(v) : j = n + 2 + AddrSize
      BY <1>2, <2>1, <2>2
    <3>1. j # 1 /\ ~(j <= header) /\ j - 1 - header = n
      BY <1>2, <2>1, <2>2
    <3>2. Byte(j) = ElemByte(ElemType(v[1]), X(j - 1 - header), j - 1 - header)
      BY <2>1, <3>1
    <3>3. X(n) = v[2][(n \div ElemSize(v[1])) + 1]
      BY <1>6
    <3> HIDE DEF Byte, X, header
    <3> QED BY <1>3, <3>1, <3>2, <3>3
  <2> QED BY <1>4, <1>6, <2>1, <2>3, <2>4
<1>7. CASE v[1] \notin AddrTypes /\ ~IsSequence(v[1])
  <2>1. /\ v[1] \notin AddrTypes \cup {"UNKNOWN"} /\ v[1] \in DataTypes
        /\ header = 1 /\ ElemType(v[1]) = v[1]
        /\ Size(v) = 1 + ElemSize(v[1])
    BY <1>7, SizeAtLeast, Types DEF AnyType, ElemType, IsSequence
  <2>2. ElemSize(v[1]) \in Nat
    BY <2>1, Sizes
  <2>3. ASSUME NEW n \in 0 .. ElemSize(v[1]) - 1
        PROVE  Encode(v)[n + 2] = ElemByte(v[1], v[2], n)
    <3> PICK j \in 1 .. Size(v) : j = n + 2
      BY <1>2, <2>1, <2>2
    <3>1. j # 1 /\ ~(j <= header) /\ j - 1 - header = n
      BY <1>2, <2>1, <2>2
    <3>2. Byte(j) = ElemByte(ElemType(v[1]), X(j - 1 - header), j - 1 - header)
      BY <2>1, <3>1
    <3>3. X(n) = v[2]
      BY <1>7
    <3> HIDE DEF Byte, X, header
    <3> QED BY <1>3, <2>1, <3>1, <3>2, <3>3
  <2> QED BY <1>4, <1>7, <2>3
<1> QED BY <1>5, <1>6, <1>7

-----------------------------------------------------------------------------
(* A value in memory is read as it was written.                            *)

\* The bytes of the value v start at address a.
Has(a, v) ==
  InBounds(a, Size(v)) /\ \A k \in 1 .. Size(v) : mem[a + k - 1] = Encode(v)[k]

LEMMA DescStored ==
  ASSUME NEW a \in Int, NEW type, InBounds(a, 1), mem[a] = <<"type", type, 1>>
  PROVE  Raw(a, "type") = <<"type", type>>
<1>1. "type" \in DOMAIN RawSize /\ RawSize["type"] = 1
  BY DEF RawSize
<1>2. \A k \in 1 .. 1 : mem[a + k - 1] = <<"type", type, k>>
  <2> TAKE k \in 1 .. 1
  <2>1. k = 1 /\ a + k - 1 = a
    OBVIOUS
  <2> QED BY <2>1
<1> QED BY <1>1, <1>2, RawStored

LEMMA AddrStored ==
  ASSUME NEW a \in Int, NEW n, InBounds(a, AddrSize),
         \A k \in 1 .. AddrSize : mem[a + k - 1] = <<"addr", n, k>>
  PROVE  Raw(a, "addr") = <<"addr", n>>
<1>1. "addr" \in DOMAIN RawSize /\ RawSize["addr"] = AddrSize
  BY DEF RawSize
<1> QED BY <1>1, RawStored

\* What DataAt makes of the three parts, for each kind of value.
LEMMA DataParts ==
  ASSUME NEW a, NEW type \in AnyType, Raw(a, "type") = <<"type", type>>
  PROVE  /\ type \in AddrTypes =>
              \A n : Raw(a + 1, "addr") = <<"addr", n>> => DataAt(a) = <<type, n>>
         /\ IsSequence(type) =>
              \A n : Raw(a + 1, "addr") = <<"addr", n>> =>
                       DataAt(a) = ElemsAt(a + 1 + AddrSize, n, type)
         /\ type \notin AddrTypes /\ ~IsSequence(type) =>
              \A kind, x : ElemAt(a + 1, type) = <<kind, x>> /\ <<kind, x>> \notin Bad =>
                             DataAt(a) = <<type, x>>
<1> DEFINE desc == Raw(a, "type")
           addr == Raw(a + 1, "addr")
           Elems(n) == ElemsAt(a + 1 + AddrSize, n, type)
           elem == ElemAt(a + 1, type)
           Data(t) == IF t = "UNKNOWN" THEN Throws
                      ELSE IF t \in AddrTypes
                        THEN IF addr \in Bad THEN addr ELSE <<t, addr[2]>>
                      ELSE IF IsSequence(t)
                        THEN IF addr \in Bad THEN addr
                             ELSE ElemsAt(a + 1 + AddrSize, addr[2], t)
                      ELSE IF ElemAt(a + 1, t) \in Bad THEN ElemAt(a + 1, t)
                      ELSE <<t, ElemAt(a + 1, t)[2]>>
<1>1. DataAt(a) = IF desc \in Bad THEN desc ELSE Data(desc[2])
  BY DEF DataAt, Then
<1>2. desc \notin Bad /\ desc[2] = type
  BY DEF Bad, Throws, Undefined
<1>3. DataAt(a) = Data(type)
  <2> HIDE DEF desc, Data
  <2> QED BY <1>1, <1>2
<1>4. type # "UNKNOWN" /\ (IsSequence(type) => type \notin AddrTypes)
  BY Types DEF AnyType
<1>5. \A n : <<"addr", n>> \notin Bad
  BY DEF Bad, Throws, Undefined
<1> HIDE DEF addr, elem
<1>6. CASE type \in AddrTypes
  <2>1. Data(type) = IF addr \in Bad THEN addr ELSE <<type, addr[2]>>
    BY <1>4, <1>6 DEF addr
  <2> HIDE DEF Data
  <2> QED BY <1>3, <1>4, <1>5, <1>6, <2>1 DEF addr
<1>7. CASE IsSequence(type)
  <2>1. Data(type) = IF addr \in Bad THEN addr ELSE Elems(addr[2])
    BY <1>4, <1>7 DEF addr
  <2>2. \A n : Elems(n) = ElemsAt(a + 1 + AddrSize, n, type)
    OBVIOUS
  <2> HIDE DEF Data, Elems
  <2> QED BY <1>3, <1>4, <1>5, <1>7, <2>1, <2>2 DEF addr
<1>8. CASE type \notin AddrTypes /\ ~IsSequence(type)
  <2>1. Data(type) = IF elem \in Bad THEN elem ELSE <<type, elem[2]>>
    BY <1>4, <1>8 DEF elem
  <2> HIDE DEF Data
  <2> QED BY <1>3, <1>8, <2>1 DEF elem
<1> QED BY <1>6, <1>7, <1>8

LEMMA DataStored ==
  ASSUME NEW v, IsValue(v), v[1] \in AnyType, NEW a \in Int, Has(a, v)
  PROVE  DataAt(a) = <<v[1], v[2]>>
<1> DEFINE type == v[1]
           size == Size(v)
           m == ElemSize(type)
<1>1. AddrSize \in Nat \ {0} /\ size \in Nat /\ size >= 1 /\ a >= 0 /\ a + size <= MemSize
  BY ValuesAssumption, SizeAtLeast, MemSizeNat DEF Has, InBounds
<1>2. \A k \in 1 .. size : mem[a + k - 1] = Encode(v)[k]
  BY DEF Has
<1>3. Raw(a, "type") = <<"type", type>>
  <2>1. mem[a + 1 - 1] = Encode(v)[1] /\ a + 1 - 1 = a
    BY <1>1, <1>2
  <2>2. mem[a] = <<"type", type, 1>>
    BY <2>1, EncodeParts
  <2>3. InBounds(a, 1)
    BY <1>1, MemSizeNat DEF InBounds
  <2> QED BY <2>2, <2>3, DescStored
<1>4. ASSUME NEW n, \A k \in 1 .. AddrSize : Encode(v)[k + 1] = <<"addr", n, k>>,
             1 + AddrSize <= size
      PROVE  Raw(a + 1, "addr") = <<"addr", n>>
  <2> HIDE DEF size
  <2> PICK b \in Int : b = a + 1
    OBVIOUS
  <2>1. InBounds(b, AddrSize)
    BY <1>1, <1>4, MemSizeNat DEF InBounds
  <2>2. ASSUME NEW k \in 1 .. AddrSize
        PROVE  mem[b + k - 1] = <<"addr", n, k>>
    <3> PICK j \in 1 .. size : j = k + 1
      BY <1>1, <1>4
    <3>1. mem[a + j - 1] = Encode(v)[j] /\ b + k - 1 = a + j - 1
      BY <1>1, <1>2
    <3> QED BY <1>4, <3>1
  <2>3. Raw(b, "addr") = <<"addr", n>>
    BY <2>1, <2>2, AddrStored
  <2> QED BY <2>3
<1>5. CASE type \in AddrTypes
  <2>1. size = 1 + AddrSize
    BY <1>5, SizeAtLeast
  <2>2. \A k \in 1 .. AddrSize : Encode(v)[k + 1] = <<"addr", v[2], k>>
    BY <1>5, EncodeParts
  <2>3. Raw(a + 1, "addr") = <<"addr", v[2]>>
    <3>1. 1 + AddrSize <= size
      BY <1>1, <2>1
    <3> HIDE DEF size
    <3> QED BY <1>4, <2>2, <3>1
  <2> QED BY <1>3, <1>5, <2>3, DataParts
<1>6. CASE IsSequence(type)
  <2> DEFINE len == Len(v[2])
             b == a + 1 + AddrSize
  <2>1. /\ len \in Nat /\ v[2] = [i \in 1 .. len |-> v[2][i]]
        /\ size = 1 + AddrSize + len * m
        /\ m \in Nat \ {0} /\ ElemSize(ElemType(type)) = m
    BY <1>6, Elements, SizeAtLeast, Types, ElemTypes
  <2>2. \A k \in 1 .. AddrSize : Encode(v)[k + 1] = <<"addr", len, k>>
    BY <1>6, EncodeParts
  <2>3. \A n \in 0 .. len * m - 1 :
           Encode(v)[n + 2 + AddrSize] = ElemByte(ElemType(type), v[2][(n \div m) + 1], n)
    BY <1>6, EncodeParts
  <2> HIDE DEF size, len, m
  <2>4. len * m \in Nat
    BY <2>1
  <2>5. Raw(a + 1, "addr") = <<"addr", len>>
    <3>1. 1 + AddrSize <= size
      BY <1>1, <2>1, <2>4
    <3> QED BY <1>4, <2>2, <3>1
  <2>6. b \in Int /\ InBounds(b, len * m)
    BY <1>1, <2>1, <2>4, MemSizeNat DEF InBounds
  <2>7. ASSUME NEW i \in 1 .. len
        PROVE  HasElem(Place(b, type, i), ElemType(type), v[2][i])
    <3>1. ASSUME NEW k \in 0 .. m - 1
          PROVE  mem[Place(b, type, i) + k] = ElemByte(ElemType(type), v[2][i], k)
      <4> PICK q \in Int : q = i - 1
        OBVIOUS
      <4> PICK n \in Int : n = m * q + k
        BY <2>1
      <4>1. n \div m = q
        BY <2>1, DivisionUnique
      <4>2. n \in 0 .. len * m - 1
        <5>1. m * 0 <= m * q /\ m * (q + 1) <= m * len
          BY <2>1, Monotone
        <5> QED BY <2>1, <2>4, <5>1
      <4> PICK j \in 1 .. size : j = n + 2 + AddrSize
        BY <1>1, <2>1, <2>4, <4>2
      <4>3. Place(b, type, i) + k = a + j - 1
        <5>1. Place(b, type, i) = b + q * m
          BY DEF Place, m
        <5>2. q * m \in Int /\ m * q = q * m
          BY <2>1
        <5> QED BY <1>1, <5>1, <5>2
      <4>4. mem[a + j - 1] = ElemByte(ElemType(type), v[2][i], n)
        BY <1>2, <2>3, <4>1, <4>2
      <4>5. ElemByte(ElemType(type), v[2][i], n) = ElemByte(ElemType(type), v[2][i], k)
        <5> PICK t \in ScalarTypes : t = ElemType(type)
          BY <1>6, Types, ElemTypes
        <5>1. ElemByte(t, v[2][i], ElemSize(t) * q + k) = ElemByte(t, v[2][i], k)
          <6>1. k \in Int
            BY <2>1
          <6> QED BY <6>1, ElemByteShift, ZenonT(60)
        <5> QED BY <2>1, <5>1
      <4> QED BY <4>3, <4>4, <4>5
    <3> QED BY <2>1, <3>1 DEF HasElem
  <2>8. ElemsAt(b, len, type) = <<type, v[2]>>
    BY <1>6, <2>1, <2>6, <2>7, ElemsStored DEF m
  <2> QED BY <1>3, <1>6, <2>5, <2>8, DataParts
<1>7. CASE type \notin AddrTypes /\ ~IsSequence(type)
  <2>1. type \in DataTypes /\ type \in ScalarTypes /\ ElemType(type) = type
    BY <1>7 DEF AnyType, ScalarTypes, DataTypes, IsSequence, ElemType
  <2>2. size = 1 + m /\ m \in Nat \ {0}
    BY <1>7, <2>1, SizeAtLeast, Sizes
  <2>3. \A n \in 0 .. m - 1 : Encode(v)[n + 2] = ElemByte(type, v[2], n)
    BY <1>7, EncodeParts
  <2> HIDE DEF size, m
  <2>4. InBounds(a + 1, m) /\ a + 1 \in Int
    BY <1>1, <2>2, MemSizeNat DEF InBounds
  <2>5. ASSUME NEW n \in 0 .. m - 1
        PROVE  mem[(a + 1) + n] = ElemByte(type, v[2], n)
    <3> PICK j \in 1 .. size : j = n + 2
      BY <1>1, <2>2
    <3>1. mem[a + j - 1] = Encode(v)[j] /\ (a + 1) + n = a + j - 1
      BY <1>2
    <3> QED BY <2>3, <3>1
  <2>6. ElemAt(a + 1, type) = <<RawKind[type], v[2]>>
    BY <2>1, <2>4, <2>5, ElemStored DEF HasElem, m
  <2>7. <<RawKind[type], v[2]>> \notin Bad
    BY <2>1, ElemTypes DEF Bad, Throws, Undefined
  <2> QED BY <1>3, <1>7, <2>6, <2>7, DataParts
<1> QED BY <1>5, <1>6, <1>7

\* What is written can be read back: no descriptor, length or element is lost,
\* and none is taken for another.
ReadsWritten ==
  \A a \in Int : \A v : IsValue(v) /\ v[1] \in AnyType /\ Has(a, v) => DataAt(a) = <<v[1], v[2]>>

LEMMA RoundTrip == ReadsWritten
BY DataStored DEF ReadsWritten

LEMMA RoundTripNext == ReadsWritten'
BY RoundTrip, PTL

-----------------------------------------------------------------------------
(* Values arrive as they were.                                             *)

\* A step that writes a value.
LEMMA WrittenHolds ==
  ASSUME NEW a \in Int, NEW v, IsValue(v), v[1] \in AnyType, InBounds(a, Size(v)),
         mem' = Overlay(mem, a, Encode(v))
  PROVE  Holds(a, v)
<1>1. Size(v) \in Nat /\ DOMAIN Encode(v) = 1 .. Size(v)
  BY SizeAtLeast, EncodeBytes
<1>2. mem' = [x \in Addresses |-> IF x - a + 1 \in 1 .. Size(v) THEN Encode(v)[x - a + 1]
                                  ELSE mem[x]]
  BY <1>1 DEF Overlay
<1>3. \A x \in Addresses : x \in Int
  BY MemSizeNat DEF Addresses
<1>4. \A x \in Addresses \ (a .. a + Size(v) - 1) : mem'[x] = mem[x]
  BY <1>1, <1>2, <1>3
<1>5. ASSUME NEW k \in 1 .. Size(v)
      PROVE  mem'[a + k - 1] = Encode(v)[k]
  <2>1. a + k - 1 \in Addresses
    BY <1>1, MemSizeNat DEF InBounds, Addresses
  <2>2. (a + k - 1) - a + 1 = k
    OBVIOUS
  <2> QED BY <1>2, <2>1, <2>2
<1>6. Has(a, v)'
  BY <1>5 DEF Has, InBounds
<1>7. DataAt(a)' = <<v[1], v[2]>>
  BY <1>6, RoundTripNext DEF ReadsWritten
<1> QED BY <1>4, <1>7 DEF Holds

\* A step that goes on has done what it was to do.
LEMMA GoesOn ==
  ASSUME status' = "running"
  PROVE  /\ \A b \in Bad : ~Fail(b)
         /\ \A s, addr : s.bad \in {Ok} \cup Bad /\ Continue(s, addr) =>
                           s.bad = Ok /\ mem' = s.mem /\ sp' = s.sp
<1>1. \A b \in Bad : ~Fail(b)
  BY DEF Fail, Bad, Throws, Undefined
<1>2. ASSUME NEW s, NEW addr, s.bad \in {Ok} \cup Bad, Continue(s, addr)
      PROVE  s.bad = Ok /\ mem' = s.mem /\ sp' = s.sp
  <2>1. IF s.bad # Ok THEN Fail(s.bad)
        ELSE /\ mem' = s.mem /\ sp' = s.sp /\ GoTo(addr)
             /\ UNCHANGED <<env, bp, status, isrs, calls>>
    BY <1>2 DEF Continue, With
  <2> QED BY <1>1, <1>2, <2>1
<1> QED BY <1>1, <1>2

LEMMA ArrivesOnTop ==
  ASSUME Memory(mem), NEW top \in Int, NEW v, IsValue(v), v[1] \in AnyType, top <= MemSize,
         NEW addr, Continue(Pushed(top, <<v>>), addr), status' = "running"
  PROVE  OnTop(top, v)
<1> DEFINE first == [mem |-> mem, sp |-> top, bad |-> Ok]
           s == Pushed(top, <<v>>)
           a == top - Size(v)
<1>1. s.bad \in {Ok} \cup Bad
  BY PushSingle DEF Pushes, PushesOn
<1>2. s.bad = Ok /\ mem' = s.mem /\ sp' = s.sp
  <2> HIDE DEF s
  <2> QED BY <1>1, GoesOn DEF s
<1>3. s = PushNext(first, v)
  BY PushedValue DEF Pushed, Moved
<1>4. s = IF PushOutcome(top, v) # Ok THEN [first EXCEPT !.bad = PushOutcome(top, v)]
          ELSE [first EXCEPT !.sp = @ - Size(v), !.mem = Overlay(@, top - Size(v), Encode(v))]
  BY <1>3 DEF PushNext, PushValue
<1>5. PushOutcome(top, v) = Ok
  <2>1. CASE PushOutcome(top, v) # Ok
    <3>1. s = [first EXCEPT !.bad = PushOutcome(top, v)]
      BY <1>4, <2>1
    <3>2. s.bad = PushOutcome(top, v)
      BY <3>1
    <3> QED BY <1>2, <3>2
  <2> QED BY <2>1
<1>6. s.sp = a /\ s.mem = Overlay(mem, a, Encode(v))
  BY <1>4, <1>5
<1>7. a \in Int /\ InBounds(a, Size(v))
  <2>1. Size(v) \in Nat /\ a \in Addresses
    BY <1>5, SizeAtLeast, PushRoom
  <2> QED BY <2>1, MemSizeNat DEF InBounds, Addresses
<1> HIDE DEF a, s
<1>8. sp' = a /\ mem' = Overlay(mem, a, Encode(v))
  BY <1>2, <1>6
<1>9. Holds(a, v)
  BY <1>7, <1>8, WrittenHolds
<1>10. Holds(sp', v)
  BY <1>8, <1>9 DEF Holds
<1> QED BY <1>8, <1>10 DEF OnTop, a

LEMMA PoppedValue ==
  ASSUME NEW a, NEW S, NEW floor
  PROVE  Popped(a, <<S>>, floor) = PopNext([vals |-> <<>>, sp |-> a, bad |-> Ok], S, floor)
<1> DEFINE first == [vals |-> <<>>, sp |-> a, bad |-> Ok]
           types == <<S>>
           IsPop(f) == f = [n \in 0 .. 1 |-> IF n = 0 THEN first
                                            ELSE PopNext(f[n - 1], types[n], floor)]
           pop == CHOOSE f : IsPop(f)
           g == [n \in 0 .. 1 |-> IF n = 0 THEN first ELSE PopNext(first, S, floor)]
<1>1. Len(types) = 1 /\ types[1] = S
  OBVIOUS
<1>2. Popped(a, types, floor) = pop[1]
  <2> HIDE DEF first
  <2> QED BY <1>1 DEF Popped, first
<1> HIDE DEF types, first
<1>3. ASSUME NEW n \in 0 .. 1
      PROVE  g[n] = IF n = 0 THEN first ELSE PopNext(g[n - 1], types[n], floor)
  <2>1. n = 0 \/ n = 1
    OBVIOUS
  <2> QED BY <1>1, <2>1
<1>4. IsPop(g)
  BY <1>3
<1>5. IsPop(pop)
  <2> HIDE DEF IsPop, g
  <2> QED BY <1>4
<1> HIDE DEF pop, g
<1>6. pop[0] = first /\ pop[1] = PopNext(pop[0], types[1], floor)
  BY <1>5
<1>7. pop[1] = PopNext(first, S, floor)
  BY <1>1, <1>6
<1> QED BY <1>2, <1>7 DEF types, first

\* What a read that does not fail has found.
LEMMA ReadValue ==
  ASSUME Memory(mem), NEW a \in Int, NEW accepted, ReadAt(a, accepted).bad = Ok
  PROVE  /\ ReadAt(a, accepted).vals = <<DataAt(a)>>
         /\ IsValue(DataAt(a)) /\ DataAt(a)[1] \in AnyType
<1> DEFINE first == [vals |-> <<>>, sp |-> a, bad |-> Ok]
           v == DataAt(a)
           p == ReadAt(a, accepted)
<1>1. p = PopNext(first, accepted, a + 1)
  BY PoppedValue DEF ReadAt
<1>2. p = IF v \in Bad THEN [first EXCEPT !.bad = v]
          ELSE IF v[1] \notin accepted THEN [first EXCEPT !.bad = Throws]
          ELSE [first EXCEPT !.vals = Append(@, v), !.sp = @ + Size(v)]
  BY <1>1 DEF PopNext, PopValue
<1> HIDE DEF v, p
<1>3. v \notin Bad
  <2>1. v \in Bad => p = [first EXCEPT !.bad = v]
    BY <1>2
  <2>2. v \in Bad => p.bad = v
    BY <2>1
  <2> QED BY <2>2, OkNotBad DEF p
<1>4. v[1] \in accepted
  <2>1. v[1] \notin accepted => p = [first EXCEPT !.bad = Throws]
    BY <1>2, <1>3
  <2>2. v[1] \notin accepted => p.bad = Throws
    BY <2>1
  <2> QED BY <2>2, OkNotBad DEF p, Bad
<1>5. p.vals = <<v>>
  BY <1>2, <1>3, <1>4
<1>6. IsValue(v) /\ v[1] \in AnyType
  BY <1>3, DataRead DEF v, AnyType
<1> QED BY <1>5, <1>6 DEF p, v

LEMMA PushArrives ==
  ASSUME Machine, Push, status' = "running"
  PROVE  OnTop(sp, DataAt(next))
<1>1. Looping
  BY Fetched DEF Push
<1> DEFINE accepted == AnyType \ ArrayTypes
           data == ReadAt(next, accepted)
<1>2. IF data.bad # Ok THEN Fail(data.bad) ELSE Continue(Pushed(sp, data.vals), data.sp)
  BY DEF Push, With
<1>3. next \in Int /\ sp \in Int /\ sp <= MemSize /\ Memory(mem)
  BY <1>1, Bounds
<1> HIDE DEF accepted
<1>4. data.bad = Ok
  BY <1>2, <1>3, ReadFails, GoesOn
<1>5. data.vals = <<DataAt(next)>> /\ IsValue(DataAt(next)) /\ DataAt(next)[1] \in AnyType
  BY <1>3, <1>4, ReadValue
<1> PICK v : v = DataAt(next)
  OBVIOUS
<1> PICK top \in Int : top = sp
  BY <1>3
<1> HIDE DEF data
<1>6. Continue(Pushed(top, <<v>>), data.sp)
  BY <1>2, <1>4, <1>5
<1>7. OnTop(top, v)
  BY <1>3, <1>5, <1>6, ArrivesOnTop
<1> QED BY <1>7

LEMMA RdMemArrives ==
  ASSUME Machine, RdMem, status' = "running"
  PROVE  \E p \in {Operands(<<AddrTypes>>)} :
           OnTop(p.sp, DataAt(Resolve(p.vals[1], next, p.sp, bp)))
<1>1. Looping
  BY Fetched DEF RdMem
<1> DEFINE types == <<AddrTypes>>
<1> PICK p : p = Operands(types)
  OBVIOUS
<1> PICK a : a = Resolve(p.vals[1], next, p.sp, bp)
  OBVIOUS
<1> DEFINE data == ReadAt(a, AnyType)
<1>2. IF p.bad # Ok THEN Fail(p.bad)
      ELSE IF data.bad # Ok THEN Fail(data.bad) ELSE Continue(Pushed(p.sp, data.vals), next)
  BY DEF RdMem, With
<1>3. Len(types) = 1 /\ types[1] = AddrTypes
  OBVIOUS
<1> HIDE DEF types
<1>4. /\ p.bad # Ok => p.bad \in Bad
      /\ p.bad = Ok => /\ p.sp \in Int /\ p.sp <= MemSize
                       /\ IsValue(p.vals[1]) /\ p.vals[1][1] \in AddrTypes
  BY <1>1, <1>3, OperandsPopped
<1>5. p.bad = Ok
  <2> HIDE DEF data
  <2> QED BY <1>2, <1>4, GoesOn
<1>6. a \in Int /\ next \in Int /\ Memory(mem)
  BY <1>1, <1>4, <1>5, Bounds, ResolveInt
<1>7. data.bad = Ok
  BY <1>2, <1>5, <1>6, ReadFails, GoesOn
<1>8. data.vals = <<DataAt(a)>> /\ IsValue(DataAt(a)) /\ DataAt(a)[1] \in AnyType
  BY <1>6, <1>7, ReadValue
<1> PICK v : v = DataAt(a)
  OBVIOUS
<1> HIDE DEF data
<1>9. Continue(Pushed(p.sp, <<v>>), next)
  BY <1>2, <1>5, <1>7, <1>8
<1>10. OnTop(p.sp, v)
  BY <1>4, <1>5, <1>6, <1>8, <1>9, ArrivesOnTop
<1>11. OnTop(p.sp, DataAt(Resolve(p.vals[1], next, p.sp, bp)))
  BY <1>10
<1> QED BY <1>11 DEF types

LEMMA WrMemArrives ==
  ASSUME Machine, WrMem, status' = "running"
  PROVE  \E p \in {Operands(<<AddrTypes, AnyType>>)} :
           /\ sp' = p.sp
           /\ Holds(Resolve(p.vals[1], next, sp + Size(p.vals[1]), bp), p.vals[2])
<1>1. Looping
  BY Fetched DEF WrMem
<1> DEFINE types == <<AddrTypes, AnyType>>
<1> PICK p : p = Operands(types)
  OBVIOUS
<1> PICK a : a = Resolve(p.vals[1], next, sp + Size(p.vals[1]), bp)
  OBVIOUS
<1> PICK v : v = p.vals[2]
  OBVIOUS
<1>2. IF p.bad # Ok THEN Fail(p.bad) ELSE Write(a, v, p.sp)
  BY DEF WrMem, With
<1>3. Len(types) = 2 /\ types[1] = AddrTypes /\ types[2] = AnyType
  OBVIOUS
<1> HIDE DEF types
<1>4. /\ p.bad # Ok => p.bad \in Bad
      /\ p.bad = Ok => /\ p.sp \in Int /\ IsValue(p.vals[1]) /\ IsValue(v)
                       /\ p.vals[1][1] \in AddrTypes /\ v[1] \in AnyType
  BY <1>1, <1>3, OperandsPopped
<1>5. p.bad = Ok
  BY <1>2, <1>4, GoesOn
<1>6. a \in Int
  <2>1. Size(p.vals[1]) \in Nat
    BY <1>4, <1>5, SizeAtLeast
  <2>2. sp + Size(p.vals[1]) \in Int /\ next \in Int /\ bp \in Int
    BY <1>1, <2>1, Bounds
  <2> QED BY <1>4, <1>5, <2>2, ResolveInt
<1> DEFINE s == Moved(Overlay(mem, a, Encode(v)), p.sp)
<1>7. InBounds(a, Size(v)) /\ Continue(s, next)
  <2>1. ~Fail(Throws)
    BY GoesOn DEF Bad
  <2> QED BY <1>2, <1>5, <2>1 DEF Write
<1>8. s.bad = Ok /\ s.sp = p.sp /\ s.mem = Overlay(mem, a, Encode(v))
  BY DEF Moved
<1> HIDE DEF s
<1>9. sp' = p.sp /\ mem' = Overlay(mem, a, Encode(v))
  BY <1>7, <1>8, GoesOn
<1>10. Holds(a, v)
  BY <1>4, <1>5, <1>6, <1>7, <1>9, WrittenHolds
<1> QED BY <1>9, <1>10 DEF types

LEMMA ComputeArrives ==
  ASSUME Machine, Compute, status' = "running"
  PROVE  \E p \in {Operands(OperandTypes(opcode))} :
           \E r \in Results(opcode, p.vals, sp + Size(p.vals[1])) : OnTop(p.sp, r)
<1>1. Looping /\ opcode \in ComputeOps
  BY Fetched DEF Compute
<1> DEFINE types == OperandTypes(opcode)
<1> PICK p : p = Operands(types)
  OBVIOUS
<1>2. IF p.bad # Ok THEN Fail(p.bad)
      ELSE \E r \in Results(opcode, p.vals, sp + Size(p.vals[1])) :
             IF r \in Bad THEN Fail(r) ELSE Continue(Pushed(p.sp, <<r>>), next)
  BY DEF Compute, With
<1>3. Len(types) \in Nat /\ Len(types) >= 1
  BY <1>1, OperandCount
<1>4. /\ Pops(p, sp, types, Len(types))
      /\ p.bad # Ok => p.bad \in Bad
      /\ p.bad = Ok => /\ Len(p.vals) = Len(types)
                       /\ p.sp \in Int /\ p.sp <= MemSize
                       /\ \A i \in 1 .. Len(types) : IsValue(p.vals[i]) /\ p.vals[i][1] \in types[i]
  <2> HIDE DEF types
  <2> QED BY <1>1, <1>3, OperandsPopped
<1>5. p.bad = Ok
  BY <1>2, <1>4, GoesOn
<1>6. PICK r \in Results(opcode, p.vals, sp + Size(p.vals[1])) :
        IF r \in Bad THEN Fail(r) ELSE Continue(Pushed(p.sp, <<r>>), next)
  BY <1>2, <1>5
<1>7. r \notin Bad /\ Continue(Pushed(p.sp, <<r>>), next)
  BY <1>6, GoesOn
<1>8. IsResult(r)
  <2>1. Operand(p.vals, opcode)
    BY <1>4, <1>5 DEF Operand
  <2>2. sp + Size(p.vals[1]) \in Int
    <3> HIDE DEF types
    <3> QED BY <1>1, <1>3, <1>4, <1>5, AfterFirst, Bounds
  <2> QED BY <1>1, <1>6, <2>1, <2>2, ResultTyped DEF Machine
<1>9. IsValue(r) /\ r[1] \in AnyType
  BY <1>7, <1>8 DEF IsResult, IsData, IsValue, AnyType
<1>10. OnTop(p.sp, r)
  BY <1>1, <1>4, <1>5, <1>7, <1>9, Bounds, ArrivesOnTop
<1> QED BY <1>6, <1>10

LEMMA ArriveStep == Machine /\ [Next]_vars => [Arrive]_vars
<1> SUFFICES ASSUME Machine, status' = "running"
             PROVE  /\ Push => OnTop(sp, DataAt(next))
                    /\ RdMem => \E p \in {Operands(<<AddrTypes>>)} :
                         OnTop(p.sp, DataAt(Resolve(p.vals[1], next, p.sp, bp)))
                    /\ Compute => \E p \in {Operands(OperandTypes(opcode))} :
                         \E r \in Results(opcode, p.vals, sp + Size(p.vals[1])) : OnTop(p.sp, r)
                    /\ WrMem => \E p \in {Operands(<<AddrTypes, AnyType>>)} :
                         /\ sp' = p.sp
                         /\ Holds(Resolve(p.vals[1], next, sp + Size(p.vals[1]), bp), p.vals[2])
  BY DEF Arrive
<1> QED BY PushArrives, RdMemArrives, ComputeArrives, WrMemArrives

\* In every program, a value that PUSH or RDMEM has read, or an operator has
\* computed, is the one that can be read on top of the stack afterwards, and one
\* that WRMEM stores the one at its address, whatever was there before; no other
\* memory is touched (VM::PushData, VM::PopData, VM::ReadMemData and
\* VM::WriteMemData).
THEOREM ValuesKept == Spec => ValuesArrive
<1>1. Machine /\ [Next]_vars => [Arrive]_vars
  BY ArriveStep
<1>2. IInv => Machine
  BY DEF IInv
<1> QED BY <1>1, <1>2, MachineTyped, PTL DEF Spec, ValuesArrive

-----------------------------------------------------------------------------
(* Elements of arrays and strings are stored.                              *)

\* Items and elements whose bytes a step leaves alone.
LEMMA RawKept ==
  ASSUME NEW a \in Int, NEW kind \in DOMAIN RawSize,
         \A k \in 1 .. RawSize[kind] : mem'[a + k - 1] = mem[a + k - 1]
  PROVE  Raw(a, kind)' = Raw(a, kind)
<1> DEFINE n == RawSize[kind]
<1>1. n \in Nat \ {0} /\ \A k \in 1 .. n : mem'[a + k - 1] = mem[a + k - 1]
  BY Sizes
<1>2. Raw(a, kind) = IF ~InBounds(a, n) \/ (kind = "type" /\ mem[a] = Zero) THEN Throws
                     ELSE IF \A k \in 1 .. n : mem[a + k - 1] = <<kind, mem[a][2], k>>
                       THEN <<kind, mem[a][2]>> ELSE Undefined
  BY DEF Raw
<1>3. Raw(a, kind)' = IF ~InBounds(a, n) \/ (kind = "type" /\ mem'[a] = Zero) THEN Throws
                      ELSE IF \A k \in 1 .. n : mem'[a + k - 1] = <<kind, mem'[a][2], k>>
                        THEN <<kind, mem'[a][2]>> ELSE Undefined
  BY DEF Raw, InBounds, Zero, Throws, Undefined
<1> HIDE DEF n
<1>4. mem'[a] = mem[a]
  <2>1. mem'[a + 1 - 1] = mem[a + 1 - 1] /\ a + 1 - 1 = a
    BY <1>1
  <2> QED BY <2>1
<1>5. (\A k \in 1 .. n : mem'[a + k - 1] = <<kind, mem'[a][2], k>>)
      <=> \A k \in 1 .. n : mem[a + k - 1] = <<kind, mem[a][2], k>>
  BY <1>1, <1>4
<1> QED BY <1>2, <1>3, <1>4, <1>5

LEMMA ElemKept ==
  ASSUME NEW a \in Int, NEW type \in ScalarTypes,
         \A k \in 0 .. ElemSize(type) - 1 : mem'[a + k] = mem[a + k]
  PROVE  ElemAt(a, type)' = ElemAt(a, type)
<1> DEFINE kind == RawKind[type]
           n == RawSize[kind]
           c == RawCount[type]
           Items == {Raw(a + k * n, kind) : k \in 0 .. c - 1}
           NewItems == {Raw(a + k * n, kind)' : k \in 0 .. c - 1}
<1>1. /\ kind \in DOMAIN RawSize /\ n \in Nat \ {0} /\ c \in Nat \ {0}
      /\ ElemSize(type) = c * n
  <2>1. type \in DataTypes /\ ElemType(type) = type
    BY DEF ScalarTypes, DataTypes, ElemType, ArrayTypes, NumberTypes
  <2> QED BY <2>1, Sizes DEF ElemSize
<1>2. ElemAt(a, type) = IF Throws \in Items THEN Throws
                        ELSE IF Undefined \in Items THEN Undefined
                        ELSE CHOOSE y \in Items : TRUE
  BY DEF ElemAt
<1>3. ElemAt(a, type)' = IF Throws \in NewItems THEN Throws
                         ELSE IF Undefined \in NewItems THEN Undefined
                         ELSE CHOOSE y \in NewItems : TRUE
  BY DEF ElemAt, Throws, Undefined
<1>4. \A k \in 0 .. c * n - 1 : mem'[a + k] = mem[a + k]
  BY <1>1
<1> HIDE DEF kind, c
<1>5. ASSUME NEW k \in 0 .. c - 1
      PROVE  Raw(a + k * n, kind)' = Raw(a + k * n, kind)
  <2>1. n \in Nat \ {0} /\ n = RawSize[kind]
    BY <1>1
  <2> HIDE DEF n
  <2>2. k * n \in Int /\ c * n \in Int /\ k * n >= 0 /\ k * n + n <= c * n
    <3>1. n * 0 <= n * k /\ n * (k + 1) <= n * c
      BY <1>1, <2>1, Monotone
    <3> QED BY <1>1, <2>1, <3>1
  <2> PICK b \in Int : b = a + k * n
    BY <2>2
  <2>3. ASSUME NEW j \in 1 .. n
        PROVE  mem'[b + j - 1] = mem[b + j - 1]
    <3> PICK r \in 0 .. c * n - 1 : r = k * n + j - 1
      BY <2>1, <2>2
    <3>1. a + r = b + j - 1
      BY <2>2
    <3> QED BY <1>4, <3>1
  <2>4. Raw(b, kind)' = Raw(b, kind)
    BY <1>1, <2>1, <2>3, RawKept
  <2> QED BY <2>4
<1>6. NewItems = Items
  BY <1>5
<1> HIDE DEF Items, NewItems
<1> QED BY <1>2, <1>3, <1>6

\* Elements, strings and arrays are made of what lies in memory.
ElemsInMemory ==
  /\ \A a \in Int, type \in ScalarTypes : \A x :
       HasElem(a, type, x) /\ InBounds(a, ElemSize(type)) => ElemAt(a, type) = <<RawKind[type], x>>
  /\ \A b \in Int, n \in Nat : \A type :
       /\ InBounds(b, n * ElemSize(type))
       /\ \A i \in 1 .. n : ElemAt(Place(b, type, i), ElemType(type)) # Undefined
       => ElemsAt(b, n, type) =
            <<type, [i \in 1 .. n |-> ElemAt(Place(b, type, i), ElemType(type))[2]]>>
  /\ \A a \in Int, type \in AnyType : \A n :
       /\ IsSequence(type)
       /\ Raw(a, "type") = <<"type", type>> /\ Raw(a + 1, "addr") = <<"addr", n>>
       => DataAt(a) = ElemsAt(a + 1 + AddrSize, n, type)

LEMMA ElemsMade == ElemsInMemory
<1>1. ASSUME NEW a \in Int, NEW type \in ScalarTypes, NEW x,
             HasElem(a, type, x), InBounds(a, ElemSize(type))
      PROVE  ElemAt(a, type) = <<RawKind[type], x>>
  BY <1>1, ElemStored
<1>2. ASSUME NEW b \in Int, NEW n \in Nat, NEW type, InBounds(b, n * ElemSize(type)),
             \A i \in 1 .. n : ElemAt(Place(b, type, i), ElemType(type)) # Undefined
      PROVE  ElemsAt(b, n, type) =
               <<type, [i \in 1 .. n |-> ElemAt(Place(b, type, i), ElemType(type))[2]]>>
  <2> DEFINE elem(i) == ElemAt(b + (i - 1) * ElemSize(type), ElemType(type))
             elems == [i \in 1 .. n |-> elem(i)]
             xs == [i \in 1 .. n |-> elems[i][2]]
             ys == [i \in 1 .. n |-> ElemAt(Place(b, type, i), ElemType(type))[2]]
  <2>1. \A i \in 1 .. n : elem(i) # Undefined
    BY <1>2 DEF Place
  <2>2. xs = ys
    BY DEF Place
  <2>3. ElemsAt(b, n, type) = IF ~InBounds(b, n * ElemSize(type)) THEN Throws
                              ELSE IF n < 0 \/ Undefined \in Range(elems) THEN Undefined
                              ELSE <<type, xs>>
    BY DEF ElemsAt
  <2> HIDE DEF elem, xs, ys
  <2>4. Undefined \notin Range(elems)
    BY <2>1 DEF Range
  <2> HIDE DEF elems
  <2>5. ElemsAt(b, n, type) = <<type, ys>>
    BY <1>2, <2>2, <2>3, <2>4
  <2> QED BY <2>5 DEF ys
<1>3. ASSUME NEW a \in Int, NEW type \in AnyType, NEW n, IsSequence(type),
             Raw(a, "type") = <<"type", type>>, Raw(a + 1, "addr") = <<"addr", n>>
      PROVE  DataAt(a) = ElemsAt(a + 1 + AddrSize, n, type)
  BY <1>3, DataParts
<1> QED BY <1>1, <1>2, <1>3 DEF ElemsInMemory

LEMMA ElemsMadeNext == ElemsInMemory'
BY ElemsMade, PTL

\* A byte belongs to one element only.
LEMMA SameElement ==
  ASSUME NEW m \in Nat \ {0}, NEW p \in Int, NEW q \in Int, NEW k \in 0 .. m - 1,
         (q * m + k) - p * m \in 0 .. m - 1
  PROVE  p = q
<1> PICK r \in 0 .. m - 1 : r = (q * m + k) - p * m
  OBVIOUS
<1>1. m * q + k = m * p + r
  OBVIOUS
<1>2. (m * q + k) \div m = q /\ (m * p + r) \div m = p
  BY DivisionUnique
<1> QED BY <1>1, <1>2

\* A store into elements reaches no other memory, and each element that is named
\* is the new one, whose place in the list of positions is the only one.
LEMMA ElementsChanged ==
  ASSUME NEW first \in Int, first >= 0, NEW type, IsSequence(type), NEW n \in Nat \ {0},
         NEW positions, NEW xs, DOMAIN xs = DOMAIN positions,
         \A i \in DOMAIN positions : positions[i] \in 0 .. n - 1,
         \A i, j \in DOMAIN positions : positions[i] = positions[j] => i = j,
         mem' = WithElems(first, type, positions, xs)
  PROVE  /\ \A x \in Addresses :
              mem'[x] # mem[x] => x - first \in 0 .. n * ElemSize(type) - 1
         /\ \A j \in 1 .. n, k \in 0 .. ElemSize(type) - 1 :
              Place(first, type, j) + k \in Addresses =>
                /\ \A i \in DOMAIN positions :
                     positions[i] = j - 1 =>
                       mem'[Place(first, type, j) + k] = ElemByte(ElemType(type), xs[i], k)
                /\ (\A i \in DOMAIN positions : positions[i] # j - 1) =>
                     mem'[Place(first, type, j) + k] = mem[Place(first, type, j) + k]
<1> DEFINE size == ElemSize(type)
           Offset(x, i) == x - first - positions[i] * size
           At(x) == {i \in DOMAIN xs : Offset(x, i) \in 0 .. size - 1}
<1>1. size \in Nat \ {0}
  BY Types, ElemTypes
<1>2. mem' = [x \in Addresses |->
                IF At(x) = {} THEN mem[x]
                ELSE LET i == CHOOSE i \in At(x) : TRUE
                     IN ElemByte(ElemType(type), xs[i], Offset(x, i))]
  BY DEF WithElems
<1>3. \A x \in Addresses :
         /\ At(x) = {} => mem'[x] = mem[x]
         /\ At(x) # {} => \E i \in At(x) : mem'[x] = ElemByte(ElemType(type), xs[i], Offset(x, i))
  <2> SUFFICES ASSUME NEW x \in Addresses
               PROVE  /\ At(x) = {} => mem'[x] = mem[x]
                      /\ At(x) # {} => \E i \in At(x) :
                           mem'[x] = ElemByte(ElemType(type), xs[i], Offset(x, i))
    OBVIOUS
  <2> DEFINE i == CHOOSE i \in At(x) : TRUE
  <2>1. mem'[x] = IF At(x) = {} THEN mem[x] ELSE ElemByte(ElemType(type), xs[i], Offset(x, i))
    BY <1>2
  <2>2. At(x) # {} => i \in At(x)
    <3> HIDE DEF At
    <3> QED OBVIOUS
  <2> HIDE DEF At, i, Offset
  <2> QED BY <2>1, <2>2
<1> HIDE DEF size
<1>4. \A x \in Addresses : x \in Int /\ x >= 0
  BY MemSizeNat DEF Addresses
<1>5. ASSUME NEW x \in Addresses, mem'[x] # mem[x]
      PROVE  x - first \in 0 .. n * size - 1
  <2>1. PICK i \in DOMAIN positions : Offset(x, i) \in 0 .. size - 1
    BY <1>3, <1>5
  <2> PICK q \in 0 .. n - 1 : q = positions[i]
    OBVIOUS
  <2>2. size * 0 <= size * q /\ size * (q + 1) <= size * n
    BY <1>1, Monotone
  <2>3. q * size \in Int /\ q * size >= 0 /\ q * size + size <= n * size /\ n * size \in Int
    BY <1>1, <2>2
  <2>4. x - first - q * size \in 0 .. size - 1
    BY <2>1
  <2> QED BY <1>1, <1>4, <2>3, <2>4
<1>6. ASSUME NEW j \in 1 .. n, NEW k \in 0 .. size - 1, NEW x \in Addresses,
             x = Place(first, type, j) + k
      PROVE  /\ \A i \in DOMAIN positions :
                  positions[i] = j - 1 => mem'[x] = ElemByte(ElemType(type), xs[i], k)
             /\ (\A i \in DOMAIN positions : positions[i] # j - 1) => mem'[x] = mem[x]
  <2> PICK q \in Int : q = j - 1
    OBVIOUS
  <2>1. x = first + q * size + k /\ q * size \in Int
    BY <1>1, <1>6 DEF Place, size
  <2>2. ASSUME NEW i \in At(x)
        PROVE  i \in DOMAIN positions /\ positions[i] = q
    <3> PICK p \in Int : p = positions[i]
      OBVIOUS
    <3>1. p * size \in Int
      BY <1>1
    <3>2. (q * size + k) - p * size \in 0 .. size - 1
      <4>1. x - first - p * size \in 0 .. size - 1
        BY <2>2
      <4>2. x - first - p * size = (q * size + k) - p * size
        BY <1>1, <2>1, <3>1
      <4> QED BY <4>1, <4>2
    <3>3. p = q
      BY <1>1, <3>2, SameElement
    <3> QED BY <3>3
  <2>3. ASSUME NEW i \in DOMAIN positions, positions[i] = q
        PROVE  i \in At(x) /\ Offset(x, i) = k
    <3>1. Offset(x, i) = x - first - q * size
      BY <2>3
    <3>2. x - first - q * size = k
      BY <1>1, <2>1
    <3> QED BY <3>1, <3>2
  <2> HIDE DEF At, Offset
  <2>4. ASSUME NEW i \in DOMAIN positions, positions[i] = q
        PROVE  mem'[x] = ElemByte(ElemType(type), xs[i], k)
    <3>1. PICK h \in At(x) : mem'[x] = ElemByte(ElemType(type), xs[h], Offset(x, h))
      BY <1>3, <2>3, <2>4
    <3>2. h \in DOMAIN positions /\ positions[h] = q
      BY <2>2
    <3>3. h = i
      BY <2>4, <3>2
    <3> QED BY <2>3, <2>4, <3>1, <3>3
  <2>5. (\A i \in DOMAIN positions : positions[i] # q) => mem'[x] = mem[x]
    BY <1>3, <2>2
  <2> QED BY <2>4, <2>5
<1> QED BY <1>5, <1>6 DEF size

\* In particular, no memory outside the array changes.
LEMMA ElementsInside ==
  ASSUME NEW first \in Int, first >= 0, NEW type, IsSequence(type), NEW n \in Nat \ {0},
         NEW positions, NEW xs, DOMAIN xs = DOMAIN positions,
         \A i \in DOMAIN positions : positions[i] \in 0 .. n - 1,
         \A i, j \in DOMAIN positions : positions[i] = positions[j] => i = j,
         mem' = WithElems(first, type, positions, xs)
  PROVE  \A x \in Addresses :
           mem'[x] # mem[x] => x - first \in 0 .. n * ElemSize(type) - 1
<1> QED BY ElementsChanged, SMTT(60)

LEMMA ElemsFound ==
  ASSUME NEW b \in Int, NEW n \in Nat, NEW type, ElemsAt(b, n, type) \notin Bad
  PROVE  /\ InBounds(b, n * ElemSize(type))
         /\ \A i \in 1 .. n : ElemAt(Place(b, type, i), ElemType(type)) # Undefined
         /\ ElemsAt(b, n, type) =
              <<type, [i \in 1 .. n |-> ElemAt(Place(b, type, i), ElemType(type))[2]]>>
<1> DEFINE elems == [i \in 1 .. n |-> ElemAt(b + (i - 1) * ElemSize(type), ElemType(type))]
           xs == [i \in 1 .. n |-> elems[i][2]]
<1>1. ElemsAt(b, n, type) = IF ~InBounds(b, n * ElemSize(type)) THEN Throws
                            ELSE IF n < 0 \/ Undefined \in Range(elems) THEN Undefined
                            ELSE <<type, xs>>
  BY DEF ElemsAt
<1>2. \A i \in 1 .. n : elems[i] = ElemAt(Place(b, type, i), ElemType(type))
  BY DEF Place
<1>3. DOMAIN elems = 1 .. n
  OBVIOUS
<1> HIDE DEF elems, xs
<1>4. InBounds(b, n * ElemSize(type)) /\ Undefined \notin Range(elems)
  BY <1>1 DEF Bad
<1>5. \A i \in 1 .. n : elems[i] # Undefined
  BY <1>3, <1>4 DEF Range
<1> QED BY <1>2, <1>4, <1>5, ElemsMade DEF ElemsInMemory

\* The array or string that a store has written to.
LEMMA ArrayUpdated ==
  ASSUME NEW a \in Int, a >= 0, NEW type \in AnyType, IsSequence(type), NEW n \in Nat \ {0},
         Raw(a, "type") = <<"type", type>>, Raw(a + 1, "addr") = <<"addr", n>>,
         a + 1 + AddrSize <= MemSize, DataAt(a) \notin Bad,
         NEW positions, NEW xs, DOMAIN xs = DOMAIN positions,
         \A i \in DOMAIN positions : positions[i] \in 0 .. n - 1,
         \A i, j \in DOMAIN positions : positions[i] = positions[j] => i = j,
         mem' = WithElems(a + 1 + AddrSize, type, positions, xs)
  PROVE  DataAt(a)' = Updated(DataAt(a), positions, xs)
<1> DEFINE size == ElemSize(type)
           kind == ElemType(type)
<1> PICK first \in Int : first = a + 1 + AddrSize
  BY ValuesAssumption
<1> DEFINE Elem1(i) == ElemAt(Place(first, type, i), kind)
           Named(i) == {h \in DOMAIN positions : positions[h] = i - 1}
<1>1. /\ kind \in ScalarTypes /\ ElemSize(kind) = size /\ size \in Nat \ {0}
      /\ RawKind[kind] # "undefined" /\ AddrSize \in Nat \ {0} /\ first >= 0
  BY Types, ElemTypes, ValuesAssumption
<1>2. DataAt(a) = ElemsAt(first, n, type)
  BY ElemsMade DEF ElemsInMemory
<1>3. /\ InBounds(first, n * size) /\ \A i \in 1 .. n : Elem1(i) # Undefined
      /\ DataAt(a) = <<type, [i \in 1 .. n |-> Elem1(i)[2]]>>
  BY <1>2, ElemsFound
<1>4. /\ \A x \in Addresses : mem'[x] # mem[x] => x - first \in 0 .. n * size - 1
      /\ \A j \in 1 .. n, k \in 0 .. size - 1 :
           Place(first, type, j) + k \in Addresses =>
             /\ \A i \in DOMAIN positions :
                  positions[i] = j - 1 =>
                    mem'[Place(first, type, j) + k] = ElemByte(kind, xs[i], k)
             /\ (\A i \in DOMAIN positions : positions[i] # j - 1) =>
                  mem'[Place(first, type, j) + k] = mem[Place(first, type, j) + k]
  BY <1>1, ElementsChanged
<1>5. \A i \in 1 .. n : /\ Place(first, type, i) \in Int /\ InBounds(Place(first, type, i), size)
                        /\ \A k \in 0 .. size - 1 : Place(first, type, i) + k \in Addresses
  <2> TAKE i \in 1 .. n
  <2>1. Place(first, type, i) \in Int /\ InBounds(Place(first, type, i), size)
    BY <1>3, PlaceInside
  <2> HIDE DEF size
  <2> QED BY <1>1, <2>1, MemSizeNat DEF InBounds, Addresses
<1> HIDE DEF size, kind
<1>6. DataAt(a)' = ElemsAt(first, n, type)'
  <2>1. \A x \in a .. first - 1 : mem'[x] = mem[x]
    <3> SUFFICES ASSUME NEW x \in a .. first - 1 PROVE mem'[x] = mem[x]
      OBVIOUS
    <3>1. x \in Addresses /\ ~(x - first >= 0)
      BY MemSizeNat DEF Addresses
    <3> QED BY <1>4, <3>1
  <2>2. Raw(a, "type")' = Raw(a, "type")
    <3>1. "type" \in DOMAIN RawSize /\ RawSize["type"] = 1
      BY DEF RawSize
    <3>2. \A k \in 1 .. 1 : mem'[a + k - 1] = mem[a + k - 1]
      BY <1>1, <2>1
    <3> QED BY <3>1, <3>2, RawKept
  <2> PICK b \in Int : b = a + 1
    OBVIOUS
  <2>3. Raw(b, "addr")' = Raw(b, "addr")
    <3>1. "addr" \in DOMAIN RawSize /\ RawSize["addr"] = AddrSize
      BY DEF RawSize
    <3>2. \A k \in 1 .. AddrSize : mem'[b + k - 1] = mem[b + k - 1]
      BY <1>1, <2>1
    <3> QED BY <3>1, <3>2, RawKept
  <2>4. Raw(a, "type")' = <<"type", type>> /\ Raw(a + 1, "addr")' = <<"addr", n>>
    BY <2>2, <2>3
  <2> QED BY <2>4, ElemsMadeNext DEF ElemsInMemory
<1> DEFINE Chosen(i) == CHOOSE h \in DOMAIN positions : positions[h] = i - 1
           New(i) == IF \E h \in DOMAIN positions : positions[h] = i - 1
                       THEN xs[Chosen(i)] ELSE Elem1(i)[2]
<1>7. ASSUME NEW i \in 1 .. n
      PROVE  /\ ElemAt(Place(first, type, i), kind)' # Undefined
             /\ ElemAt(Place(first, type, i), kind)'[2] = New(i)
  <2> PICK x \in Int : x = Place(first, type, i)
    BY <1>5
  <2>1. InBounds(x, size) /\ \A k \in 0 .. size - 1 : x + k \in Addresses
    BY <1>5
  <2>2. CASE \E h \in DOMAIN positions : positions[h] = i - 1
    <3> PICK h : h = Chosen(i)
      OBVIOUS
    <3>1. h \in DOMAIN positions /\ positions[h] = i - 1
      BY <2>2
    <3>2. \A k \in 0 .. size - 1 : mem'[x + k] = ElemByte(kind, xs[h], k)
      BY <1>4, <2>1, <3>1
    <3>3. HasElem(x, kind, xs[h])'
      BY <1>1, <3>2 DEF HasElem
    <3>4. ElemAt(x, kind)' = <<RawKind[kind], xs[h]>>
      BY <1>1, <2>1, <3>3, ElemsMadeNext DEF ElemsInMemory, InBounds
    <3>5. New(i) = xs[h]
      BY <2>2
    <3> HIDE DEF New
    <3> QED BY <1>1, <3>4, <3>5 DEF Undefined
  <2>3. CASE ~\E h \in DOMAIN positions : positions[h] = i - 1
    <3>1. \A k \in 0 .. size - 1 : mem'[x + k] = mem[x + k]
      BY <1>4, <2>1, <2>3
    <3>2. ElemAt(x, kind)' = ElemAt(x, kind)
      BY <1>1, <3>1, ElemKept
    <3>3. New(i) = ElemAt(x, kind)[2] /\ ElemAt(x, kind) # Undefined
      BY <1>3, <2>3
    <3> HIDE DEF New
    <3> QED BY <3>2, <3>3
  <2> QED BY <2>2, <2>3
<1>8. ElemsAt(first, n, type)' =
        <<type, [i \in 1 .. n |-> ElemAt(Place(first, type, i), kind)'[2]]>>
  <2>1. \A i \in 1 .. n : ElemAt(Place(first, type, i), ElemType(type))' # Undefined
    BY <1>7 DEF kind
  <2>2. InBounds(first, n * ElemSize(type))
    BY <1>3 DEF size
  <2>3. \A c \in Int, m \in Nat : \A t :
          /\ InBounds(c, m * ElemSize(t))
          /\ \A i \in 1 .. m : ElemAt(Place(c, t, i), ElemType(t))' # Undefined
          => ElemsAt(c, m, t)' =
               <<t, [i \in 1 .. m |-> ElemAt(Place(c, t, i), ElemType(t))'[2]]>>
    BY ElemsMadeNext DEF ElemsInMemory
  <2>4. ElemsAt(first, n, type)' =
          <<type, [i \in 1 .. n |-> ElemAt(Place(first, type, i), ElemType(type))'[2]]>>
    BY <2>1, <2>2, <2>3, n \in Nat, Zenon
  <2> QED BY <2>4 DEF kind
<1>9. Updated(DataAt(a), positions, xs) = <<type, [i \in 1 .. n |-> New(i)]>>
  <2> DEFINE ys == [i \in 1 .. n |-> Elem1(i)[2]]
  <2>1. DOMAIN ys = 1 .. n /\ \A i \in 1 .. n : ys[i] = Elem1(i)[2]
    OBVIOUS
  <2> HIDE DEF ys, Elem1
  <2>2. DataAt(a)[1] = type /\ DataAt(a)[2] = ys
    BY <1>3 DEF ys
  <2> QED BY <2>1, <2>2 DEF Updated
<1> HIDE DEF New
<1>10. [i \in 1 .. n |-> ElemAt(Place(first, type, i), kind)'[2]] = [i \in 1 .. n |-> New(i)]
  BY <1>7
<1> QED BY <1>6, <1>8, <1>9, <1>10

LEMMA WrArrStores ==
  ASSUME Machine, WrArr, status' = "running", NEW k, k = IF opcode = "WRARR" THEN 1 ELSE 2
  PROVE  \E p \in {ArrayOperands(k)} :
           LET a == ArrayAddr(k, p)
               type == Raw(a, "type")[2]
               n == Raw(a + 1, "addr")[2]
               idx == SubSeq(p.vals, 1, k)
           IN /\ \A x \in Addresses :
                   mem'[x] # mem[x] =>
                     x - (a + 1 + AddrSize) \in 0 .. n * ElemSize(type) - 1
              /\ DataAt(a) \notin Bad =>
                   \A x \in {a} : DataAt(x)' =
                     Updated(DataAt(a), Positions(idx, n), NewElems(idx, p.vals[k + 1], type, n))
<1>1. Looping /\ Memory(mem) /\ k \in {1, 2}
  BY Fetched DEF WrArr, Machine
<1> PICK p : p = ArrayOperands(k)
  OBVIOUS
<1> PICK a, idx, data : a = ArrayAddr(k, p) /\ idx = SubSeq(p.vals, 1, k) /\ data = p.vals[k + 1]
  OBVIOUS
<1> PICK type, n : type = Raw(a, "type")[2] /\ n = Raw(a + 1, "addr")[2]
  OBVIOUS
<1> PICK positions, xs : positions = Positions(idx, n) /\ xs = NewElems(idx, data, type, n)
  OBVIOUS
<1> DEFINE s == StoreElems(idx, data, a)
<1>2. IF p.bad # Ok THEN Fail(p.bad)
      ELSE IF s.bad # Ok THEN Fail(s.bad) ELSE Continue(Moved(s.mem, p.sp), next)
  BY DEF WrArr, With
<1>3. /\ p.bad # Ok => p.bad \in Bad
      /\ p.bad = Ok => /\ p.sp \in Int /\ a \in Int
                       /\ Len(idx) = 1 \/ Len(idx) = 2
                       /\ idx[1][2] \in Int /\ (Len(idx) = 2 => idx[2][2] \in Int)
  BY <1>1, StorePops
<1>4. p.bad = Ok
  <2> HIDE DEF s
  <2> QED BY <1>2, <1>3, GoesOn
<1>5. \/ s.bad \in Bad
      \/ /\ s.bad = Ok /\ s.mem = WithElems(a + 1 + AddrSize, type, positions, xs)
         /\ Raw(a, "type") \notin Bad /\ Raw(a + 1, "addr") \notin Bad
         /\ n \in Nat \ {0} /\ IsSequence(type)
  BY <1>1, <1>3, <1>4, StoreElemsOutcome
<1> HIDE DEF s
<1>6. s.bad = Ok /\ Continue(Moved(s.mem, p.sp), next)
  BY <1>2, <1>4, <1>5, GoesOn
<1>7. /\ s.mem = WithElems(a + 1 + AddrSize, type, positions, xs)
      /\ Raw(a, "type") \notin Bad /\ Raw(a + 1, "addr") \notin Bad
      /\ n \in Nat \ {0} /\ IsSequence(type)
  BY <1>5, <1>6, OkNotBad
<1>8. mem' = WithElems(a + 1 + AddrSize, type, positions, xs)
  <2> DEFINE t == Moved(s.mem, p.sp)
  <2>1. t.bad = Ok /\ t.mem = s.mem
    BY DEF Moved
  <2>2. Continue(t, next)
    BY <1>6
  <2> HIDE DEF t
  <2> QED BY <1>7, <2>1, <2>2, GoesOn
<1>9. /\ a \in Int /\ a >= 0 /\ a + 1 + AddrSize <= MemSize /\ AddrSize \in Nat
      /\ Raw(a, "type") = <<"type", type>> /\ Raw(a + 1, "addr") = <<"addr", n>>
  <2> PICK b \in Int : b = a + 1
    BY <1>3, <1>4
  <2>1. {"type", "addr"} \subseteq DOMAIN RawSize /\ RawSize["addr"] = AddrSize
    BY DEF RawSize
  <2>2. a \in Int /\ a >= 0 /\ b + AddrSize <= MemSize
    BY <1>1, <1>3, <1>4, <1>7, <2>1, RawRead
  <2>3. Raw(a, "type") = <<"type", mem[a][2]>> /\ Raw(b, "addr") = <<"addr", mem[b][2]>>
    BY <1>7, RawOutcome
  <2>4. <<"type", mem[a][2]>>[2] = mem[a][2] /\ <<"addr", mem[b][2]>>[2] = mem[b][2]
    OBVIOUS
  <2> QED BY <2>2, <2>3, <2>4, ValuesAssumption
<1>10. /\ DOMAIN xs = DOMAIN positions
       /\ \A i \in DOMAIN positions : positions[i] \in 0 .. n - 1
       /\ \A i, j \in DOMAIN positions : positions[i] = positions[j] => i = j
  <2>1. DOMAIN xs = DOMAIN positions
    BY DEF NewElems
  <2> HIDE DEF s
  <2>2. /\ \A i \in DOMAIN Positions(idx, n) : Positions(idx, n)[i] \in 0 .. n - 1
        /\ \A i, j \in DOMAIN Positions(idx, n) :
             Positions(idx, n)[i] = Positions(idx, n)[j] => i = j
    <3> PICK m : m = n
      OBVIOUS
    <3>1. m \in Nat \ {0}
      BY <1>7
    <3>2. Len(idx) = 1 \/ Len(idx) = 2
      BY <1>3, <1>4
    <3>3. idx[1][2] \in Int
      BY <1>3, <1>4
    <3>4. Len(idx) = 2 => idx[2][2] \in Int
      BY <1>3, <1>4
    <3>5. Range(Positions(idx, m)) \subseteq 0 .. m - 1 /\ IsInjective(Positions(idx, m))
      BY <3>1, <3>2, <3>3, <3>4, PositionsDistinct
    <3> QED BY <3>5 DEF IsInjective, Range
  <2> QED BY <2>1, <2>2
<1>11. \A x \in Addresses :
         mem'[x] # mem[x] => x - (a + 1 + AddrSize) \in 0 .. n * ElemSize(type) - 1
  <2> PICK first \in Int : first = a + 1 + AddrSize
    BY <1>9
  <2>1. first >= 0 /\ mem' = WithElems(first, type, positions, xs)
    BY <1>8, <1>9
  <2>2. \A x \in Addresses : mem'[x] # mem[x] => x - first \in 0 .. n * ElemSize(type) - 1
    <3>1. IsSequence(type) /\ n \in Nat \ {0} /\ DOMAIN xs = DOMAIN positions
      BY <1>7, <1>10
    <3>2. \A i \in DOMAIN positions : positions[i] \in 0 .. n - 1
      BY <1>10
    <3>3. \A i, j \in DOMAIN positions : positions[i] = positions[j] => i = j
      BY <1>10
    <3> QED BY <2>1, <3>1, <3>2, <3>3, ElementsInside, SMTT(60)
  <2> QED BY <2>2
<1>12. DataAt(a) \notin Bad => DataAt(a)' = Updated(DataAt(a), positions, xs)
  <2>1. type \in AnyType
    BY <1>7, Types DEF AnyType
  <2> QED BY <1>7, <1>8, <1>9, <1>10, <2>1, ArrayUpdated
<1> QED BY <1>11, <1>12

LEMMA ElementsStep == Machine /\ [Next]_vars => [ElementsOnly]_vars
<1> SUFFICES ASSUME Machine, WrArr, status' = "running" PROVE ElementsOnly
  BY DEF ElementsOnly
<1> PICK k : k = IF opcode = "WRARR" THEN 1 ELSE 2
  OBVIOUS
<1> QED BY WrArrStores DEF ElementsOnly

\* In every program and however the array came to be in memory, WRARR and WRARRR
\* change no memory outside the elements of the array or string they name, also for
\* indices that no address can hold, and replace exactly the elements at the
\* positions the indices stand for once they have been narrowed to addresses
\* (WriteArrayElem and WriteArrayElemRange, safe_array_index<t_addr>).
THEOREM ElementsReplaced == Spec => StoresElements
<1>1. Machine /\ [Next]_vars => [ElementsOnly]_vars
  BY ElementsStep
<1>2. IInv => Machine
  BY DEF IInv
<1> QED BY <1>1, <1>2, MachineTyped, PTL DEF Spec, StoresElements
=============================================================================
