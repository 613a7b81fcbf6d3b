----------------------------- MODULE VMFrameProofs -----------------------------
(***************************************************************************)
(* Proofs about calls, for every program and every interleaving with       *)
(* interrupts: as long as nothing reaches the registers that are saved in  *)
(* memory, they link the frames of all activations, and each RET goes back *)
(* to where its CALL or its interrupt came from.                           *)
(***************************************************************************)
EXTENDS VMProofs

\* The frame of activation i, or of the program for 0.
Base(i) == IF i = 0 THEN MemSize ELSE calls[i].frame

\* The address n is saved at a.
SavedAddr(m, a, n) ==
  /\ a \in Int /\ a >= 0 /\ a + 1 + AddrSize <= MemSize
  /\ m[a] = <<"type", "ADDR_MEM", 1>>
  /\ \A k \in 1 .. AddrSize : m[a + k] = <<"addr", n, k>>

\* The registers that activation i has saved.
SavedRegisters(i) ==
  /\ SavedAddr(mem, calls[i].frame, Base(i - 1))
  /\ SavedAddr(mem, calls[i].frame + 1 + AddrSize, calls[i].ret)
  /\ calls[i].bp = Base(i - 1)
  /\ calls[i].frame # Base(i - 1)
  /\ calls[i].ret \in 0 .. MemSize - 1

Linked ==
  /\ codeEnd \in 1 .. MemSize - 1
  /\ bp = Base(Len(calls))
  /\ \A i \in 1 .. Len(calls) : SavedRegisters(i)

-----------------------------------------------------------------------------
(* What is saved is read back.                                             *)

LEMMA ReadSaved ==
  ASSUME NEW a, NEW n, SavedAddr(mem, a, n)
  PROVE  DataAt(a) = <<"ADDR_MEM", n>>
<1> DEFINE desc == Raw(a, "type")
           addr == Raw(a + 1, "addr")
<1>1. /\ RawSize["type"] = 1 /\ RawSize["addr"] = AddrSize /\ AddrSize \in Nat \ {0}
      /\ MemSize \in Nat /\ a \in Int /\ a >= 0 /\ a + 1 + AddrSize <= MemSize
  BY ValuesAssumption, MemSizeNat DEF RawSize, SavedAddr
<1>2. desc = <<"type", "ADDR_MEM">>
  <2>1. InBounds(a, 1) /\ mem[a] # Zero /\ mem[a][2] = "ADDR_MEM"
    BY <1>1 DEF InBounds, SavedAddr, Zero
  <2>2. \A k \in 1 .. 1 : mem[a + k - 1] = <<"type", mem[a][2], k>>
    <3>1. a + 1 - 1 = a
      BY <1>1
    <3> QED BY <3>1 DEF SavedAddr
  <2> QED BY <1>1, <2>1, <2>2 DEF Raw
<1>3. addr = <<"addr", n>>
  <2>1. InBounds(a + 1, AddrSize)
    BY <1>1 DEF InBounds
  <2>2. \A k \in 1 .. AddrSize : a + 1 + k - 1 = a + k
    BY <1>1
  <2>3. \A k \in 1 .. AddrSize : mem[a + 1 + k - 1] = <<"addr", n, k>>
    BY <2>2 DEF SavedAddr
  <2>4. mem[a + 1][2] = n
    <3>1. 1 \in 1 .. AddrSize
      BY <1>1
    <3>2. mem[a + 1] = <<"addr", n, 1>>
      BY <3>1 DEF SavedAddr
    <3> QED BY <3>2
  <2> QED BY <1>1, <2>1, <2>3, <2>4 DEF Raw
<1> HIDE DEF desc, addr
<1>4. desc \notin Bad /\ addr \notin Bad /\ desc[2] = "ADDR_MEM" /\ addr[2] = n
  BY <1>2, <1>3 DEF Bad, Throws, Undefined
<1>5. DataAt(a) = IF desc \in Bad THEN desc
                  ELSE IF desc[2] = "UNKNOWN" THEN Throws
                  ELSE IF desc[2] \in AddrTypes
                    THEN IF addr \in Bad THEN addr ELSE <<desc[2], addr[2]>>
                  ELSE DataAt(a)
  BY DEF DataAt, Then, desc, addr
<1> QED BY <1>4, <1>5 DEF AddrTypes

\* An address takes 1 + AddrSize bytes.
LEMMA AddressBytes ==
  ASSUME NEW n \in Int
  PROVE  LET v == <<"ADDR_MEM", n>>
         IN /\ IsValue(v) /\ Size(v) = 1 + AddrSize
            /\ Encode(v)[1] = <<"type", "ADDR_MEM", 1>>
            /\ \A k \in 1 .. AddrSize : Encode(v)[k + 1] = <<"addr", n, k>>
<1> DEFINE v == <<"ADDR_MEM", n>>
<1>1. IsValue(v) /\ v[1] = "ADDR_MEM" /\ v[2] = n
  BY Literals DEF AddrTypes
<1> HIDE DEF v
<1>2. Size(v) = 1 + AddrSize /\ AddrSize \in Nat
  BY <1>1, SizeAtLeast, ValuesAssumption DEF AddrTypes
<1> DEFINE header == 1 + IF IsSequence(v[1]) THEN AddrSize ELSE 0
           X(i) == IF IsSequence(v[1]) THEN v[2][(i \div ElemSize(v[1])) + 1] ELSE v[2]
           Byte(k) == IF k = 1 THEN <<"type", v[1], 1>>
                      ELSE IF v[1] \in AddrTypes \cup {"UNKNOWN"} THEN <<"addr", v[2], k - 1>>
                      ELSE IF k <= header THEN <<"addr", Len(v[2]), k - 1>>
                      ELSE ElemByte(ElemType(v[1]), X(k - 1 - header), k - 1 - header)
<1>3. Encode(v) = [k \in 1 .. Size(v) |-> Byte(k)]
  BY DEF Encode
<1>4. \A k : Byte(k) = IF k = 1 THEN <<"type", "ADDR_MEM", 1>> ELSE <<"addr", n, k - 1>>
  BY <1>1 DEF AddrTypes
<1> HIDE DEF Byte
<1>5. Encode(v)[1] = <<"type", "ADDR_MEM", 1>>
  BY <1>2, <1>3, <1>4
<1>6. ASSUME NEW k \in 1 .. AddrSize
      PROVE  Encode(v)[k + 1] = <<"addr", n, k>>
  <2>1. k + 1 \in 1 .. Size(v) /\ k + 1 # 1 /\ (k + 1) - 1 = k
    BY <1>2
  <2> QED BY <1>3, <1>4, <2>1
<1> QED BY <1>1, <1>2, <1>5, <1>6 DEF v

LEMMA SaveAddress ==
  ASSUME NEW m, NEW a \in Addresses, NEW n \in Int, a + 1 + AddrSize <= MemSize
  PROVE  SavedAddr(Overlay(m, a, Encode(<<"ADDR_MEM", n>>)), a, n)
<1> DEFINE v == <<"ADDR_MEM", n>>
           bytes == Encode(v)
           o == Overlay(m, a, bytes)
<1>1. /\ DOMAIN bytes = 1 .. 1 + AddrSize
      /\ bytes[1] = <<"type", "ADDR_MEM", 1>>
      /\ \A k \in 1 .. AddrSize : bytes[k + 1] = <<"addr", n, k>>
  <2>1. IsValue(v) /\ Size(v) = 1 + AddrSize
    BY AddressBytes
  <2>2. DOMAIN bytes = 1 .. Size(v)
    BY <2>1, EncodeBytes
  <2> QED BY <2>1, <2>2, AddressBytes
<1>2. AddrSize \in Nat \ {0} /\ MemSize \in Nat /\ a \in Int /\ a >= 0
  BY ValuesAssumption, MemSizeNat DEF Addresses
<1>3. o = [x \in Addresses |-> IF x - a + 1 \in 1 .. 1 + AddrSize THEN bytes[x - a + 1] ELSE m[x]]
  BY <1>1 DEF Overlay
<1> HIDE DEF bytes, o
<1>4. ASSUME NEW k \in 0 .. AddrSize
      PROVE  o[a + k] = bytes[k + 1]
  <2>1. a + k \in Addresses /\ (a + k) - a + 1 = k + 1 /\ k + 1 \in 1 .. 1 + AddrSize
    BY <1>2 DEF Addresses
  <2> QED BY <1>3, <2>1
<1>5. o[a] = bytes[1]
  <2>1. 0 \in 0 .. AddrSize /\ a + 0 = a /\ 0 + 1 = 1
    BY <1>2
  <2>2. o[a + 0] = bytes[0 + 1]
    BY <1>4, <2>1
  <2> QED BY <2>1, <2>2
<1>6. \A k \in 1 .. AddrSize : o[a + k] = <<"addr", n, k>>
  BY <1>1, <1>2, <1>4
<1> QED BY <1>1, <1>2, <1>5, <1>6 DEF SavedAddr, o, bytes

-----------------------------------------------------------------------------
(* The two registers that are saved are pushed and popped one by one.      *)

LEMMA PushTwo ==
  ASSUME NEW m, NEW top, NEW v, NEW w
  PROVE  PushedOn(m, top, <<v, w>>) = PushNext(PushNext(Moved(m, top), v), w)
<1> DEFINE first == Moved(m, top)
           vs == <<v, w>>
           IsPush(f) == f = [n \in 0 .. 2 |-> IF n = 0 THEN first ELSE PushNext(f[n - 1], vs[n])]
           push == CHOOSE f : IsPush(f)
           g == [n \in 0 .. 2 |-> IF n = 0 THEN first
                                  ELSE IF n = 1 THEN PushNext(first, v)
                                  ELSE PushNext(PushNext(first, v), w)]
<1>1. Len(vs) = 2 /\ vs[1] = v /\ vs[2] = w
  OBVIOUS
<1>2. PushedOn(m, top, vs) = push[2]
  <2> HIDE DEF first
  <2> QED BY <1>1 DEF PushedOn, first
<1> HIDE DEF vs, first
<1>3. ASSUME NEW n \in 0 .. 2
      PROVE  g[n] = IF n = 0 THEN first ELSE PushNext(g[n - 1], vs[n])
  <2>1. n = 0 \/ n = 1 \/ n = 2
    OBVIOUS
  <2> QED BY <1>1, <2>1
<1>4. IsPush(g)
  BY <1>3
<1>5. IsPush(push)
  <2> HIDE DEF IsPush, g
  <2> QED BY <1>4
<1> HIDE DEF push, g
<1>6. push[0] = first /\ push[1] = PushNext(push[0], vs[1]) /\ push[2] = PushNext(push[1], vs[2])
  BY <1>5
<1>7. push[2] = PushNext(PushNext(first, v), w)
  BY <1>1, <1>6
<1> QED BY <1>2, <1>7 DEF vs, first

LEMMA PopTwo ==
  ASSUME NEW a, NEW S, NEW T, NEW floor
  PROVE  Popped(a, <<S, T>>, floor) =
           PopNext(PopNext([vals |-> <<>>, sp |-> a, bad |-> Ok], S, floor), T, floor)
<1> DEFINE first == [vals |-> <<>>, sp |-> a, bad |-> Ok]
           types == <<S, T>>
           IsPop(f) == f = [n \in 0 .. 2 |-> IF n = 0 THEN first
                                            ELSE PopNext(f[n - 1], types[n], floor)]
           pop == CHOOSE f : IsPop(f)
           g == [n \in 0 .. 2 |-> IF n = 0 THEN first
                                  ELSE IF n = 1 THEN PopNext(first, S, floor)
                                  ELSE PopNext(PopNext(first, S, floor), T, floor)]
<1>1. Len(types) = 2 /\ types[1] = S /\ types[2] = T
  OBVIOUS
<1>2. Popped(a, types, floor) = pop[2]
  <2> HIDE DEF first
  <2> QED BY <1>1 DEF Popped, first
<1> HIDE DEF types, first
<1>3. ASSUME NEW n \in 0 .. 2
      PROVE  g[n] = IF n = 0 THEN first ELSE PopNext(g[n - 1], types[n], floor)
  <2>1. n = 0 \/ n = 1 \/ n = 2
    OBVIOUS
  <2> QED BY <1>1, <2>1
<1>4. IsPop(g)
  BY <1>3
<1>5. IsPop(pop)
  <2> HIDE DEF IsPop, g
  <2> QED BY <1>4
<1> HIDE DEF pop, g
<1>6. pop[0] = first /\ pop[1] = PopNext(pop[0], types[1], floor)
      /\ pop[2] = PopNext(pop[1], types[2], floor)
  BY <1>5
<1>7. pop[2] = PopNext(PopNext(first, S, floor), T, floor)
  BY <1>1, <1>6
<1> QED BY <1>2, <1>7 DEF types, first

\* What is saved when a frame is made: the base pointer at the frame, and the
\* return address above it.
LEMMA EnterSaved ==
  ASSUME NEW m, NEW top \in Int, top <= MemSize, NEW ret \in Int, NEW base \in Int,
         NEW s, s = PushedOn(m, top, <<<<"ADDR_MEM", ret>>, <<"ADDR_MEM", base>>>>), s.bad = Ok
  PROVE  /\ s.sp \in Addresses
         /\ SavedAddr(s.mem, s.sp, base)
         /\ SavedAddr(s.mem, s.sp + 1 + AddrSize, ret)
<1> DEFINE v == <<"ADDR_MEM", ret>>
           w == <<"ADDR_MEM", base>>
           zero == Moved(m, top)
           one == PushNext(zero, v)
           n == 1 + AddrSize
<1>1. /\ IsValue(v) /\ Size(v) = n /\ IsValue(w) /\ Size(w) = n
      /\ DOMAIN Encode(w) = 1 .. n
  <2>1. IsValue(v) /\ Size(v) = n /\ IsValue(w) /\ Size(w) = n
    BY AddressBytes
  <2> QED BY <2>1, EncodeBytes
<1>2. s = PushNext(one, w)
  BY PushTwo
<1>3. n \in Nat \ {0} /\ n = 1 + AddrSize /\ AddrSize \in Nat /\ MemSize \in Nat
  BY ValuesAssumption, MemSizeNat
<1>4. /\ one = PushValue(zero, v, PushOutcome(top, v)) /\ zero.sp = top /\ zero.mem = m
      /\ zero.bad = Ok
  BY DEF PushNext, Moved
<1> HIDE DEF zero, one, n, v, w
<1>5. one.bad = Ok
  <2>1. one.bad # Ok => s = one
    BY <1>2 DEF PushNext
  <2> QED BY <2>1
<1>6. /\ PushOutcome(top, v) = Ok /\ one.sp = top - n
      /\ one.mem = Overlay(m, top - n, Encode(v))
  <2>1. CASE PushOutcome(top, v) # Ok
    <3>1. one = [zero EXCEPT !.bad = PushOutcome(top, v)]
      BY <1>4, <2>1 DEF PushValue
    <3>2. one.bad = PushOutcome(top, v)
      BY <3>1 DEF zero, Moved
    <3> QED BY <1>5, <2>1, <3>2
  <2>2. CASE PushOutcome(top, v) = Ok
    <3>1. one = [zero EXCEPT !.sp = @ - Size(v), !.mem = Overlay(@, zero.sp - Size(v), Encode(v))]
      BY <1>4, <2>2 DEF PushValue
    <3> QED BY <1>1, <1>4, <2>2, <3>1 DEF zero, Moved
  <2> QED BY <2>1, <2>2
<1>7. top - n \in Addresses
  BY <1>1, <1>6, PushRoom
<1>8. /\ PushOutcome(one.sp, w) = Ok /\ s.sp = one.sp - n
      /\ s.mem = Overlay(one.mem, one.sp - n, Encode(w))
  <2>0. one = [mem |-> one.mem, sp |-> one.sp, bad |-> one.bad]
    BY <1>4 DEF PushValue, zero, Moved
  <2>1. s = PushValue(one, w, PushOutcome(one.sp, w))
    BY <1>2, <1>5 DEF PushNext
  <2>2. CASE PushOutcome(one.sp, w) # Ok
    <3>1. s = [one EXCEPT !.bad = PushOutcome(one.sp, w)]
      BY <2>1, <2>2 DEF PushValue
    <3>2. s.bad = PushOutcome(one.sp, w)
      BY <2>0, <3>1
    <3> QED BY <2>2, <3>2
  <2>3. CASE PushOutcome(one.sp, w) = Ok
    <3>1. s = [one EXCEPT !.sp = @ - Size(w), !.mem = Overlay(@, one.sp - Size(w), Encode(w))]
      BY <2>1, <2>3 DEF PushValue
    <3> QED BY <1>1, <2>0, <2>3, <3>1
  <2> QED BY <2>2, <2>3
<1>9. s.sp \in Addresses /\ s.sp = top - n - n
  <2>1. one.sp \in Int
    BY <1>3, <1>6
  <2>2. one.sp - n \in Addresses
    BY <1>1, <1>8, <2>1, PushRoom
  <2> QED BY <1>6, <1>8, <2>2
<1>10. SavedAddr(one.mem, top - n, ret)
  <2>1. (top - n) + 1 + AddrSize <= MemSize
    BY <1>3
  <2> QED BY <1>6, <1>7, <2>1, SaveAddress DEF v
<1>11. SavedAddr(s.mem, s.sp, base)
  <2>1. s.sp + 1 + AddrSize <= MemSize
    BY <1>3, <1>9
  <2> QED BY <1>8, <1>9, <2>1, SaveAddress DEF w
<1>12. \A x \in Addresses : x >= top - n => s.mem[x] = one.mem[x]
  <2>1. s.mem = [x \in Addresses |-> IF x - (one.sp - n) + 1 \in 1 .. n
                                      THEN Encode(w)[x - (one.sp - n) + 1] ELSE one.mem[x]]
    BY <1>1, <1>8 DEF Overlay
  <2>2. \A x \in Addresses : x >= top - n => x - (one.sp - n) + 1 \notin 1 .. n
    BY <1>3, <1>6 DEF Addresses
  <2> QED BY <2>1, <2>2
<1>13. SavedAddr(s.mem, top - n, ret)
  <2>1. \A k \in 0 .. AddrSize : s.mem[top - n + k] = one.mem[top - n + k]
    <3>1. \A k \in 0 .. AddrSize : top - n + k \in Addresses /\ top - n + k >= top - n
      BY <1>3, <1>7 DEF Addresses
    <3> QED BY <1>12, <3>1
  <2>2. s.mem[top - n] = one.mem[top - n]
    BY <1>3, <1>7, <1>12 DEF Addresses
  <2> DEFINE x == top - n
  <2>3. SavedAddr(one.mem, x, ret) /\ s.mem[x] = one.mem[x]
        /\ \A k \in 0 .. AddrSize : s.mem[x + k] = one.mem[x + k]
    BY <1>10, <2>1, <2>2
  <2> HIDE DEF x
  <2>4. \A k \in 1 .. AddrSize : k \in 0 .. AddrSize
    BY <1>3
  <2>5. SavedAddr(s.mem, x, ret)
    BY <2>3, <2>4 DEF SavedAddr
  <2> QED BY <2>5 DEF x
<1>14. s.sp + 1 + AddrSize = top - n
  BY <1>3, <1>9
<1> QED BY <1>9, <1>11, <1>13, <1>14

\* One address is popped.
LEMMA PopAddr ==
  ASSUME NEW a \in Int, a <= MemSize, NEW n \in Int, DataAt(a) = <<"ADDR_MEM", n>>,
         NEW p, p = [vals |-> p.vals, sp |-> p.sp, bad |-> p.bad], p.sp = a, p.bad = Ok
  PROVE  LET q == PopNext(p, AddrTypes, MemSize + 1)
         IN /\ q = [vals |-> q.vals, sp |-> q.sp, bad |-> q.bad]
            /\ q.vals = Append(p.vals, <<"ADDR_MEM", n>>)
            /\ q.sp = a + 1 + AddrSize /\ q.bad = Ok
<1> DEFINE v == <<"ADDR_MEM", n>>
           q == PopNext(p, AddrTypes, MemSize + 1)
<1>1. Size(v) = 1 + AddrSize /\ v \notin Bad /\ v[1] \in AddrTypes
  BY AddressBytes DEF Bad, Throws, Undefined, AddrTypes
<1> HIDE DEF v
<1>2. ~(a >= MemSize + 1) /\ AddrSize \in Nat
  BY MemSizeNat, ValuesAssumption
<1>3. q = PopValue(p, v, AddrTypes)
  BY <1>2 DEF PopNext, v
<1>4. q = [p EXCEPT !.vals = Append(@, v), !.sp = @ + Size(v)]
  BY <1>1, <1>3 DEF PopValue
<1>5. /\ q = [vals |-> q.vals, sp |-> q.sp, bad |-> q.bad]
      /\ q.vals = Append(p.vals, v) /\ q.sp = a + Size(v) /\ q.bad = Ok
  BY <1>4
<1>6. a + Size(v) = a + 1 + AddrSize
  BY <1>1, <1>2
<1> QED BY <1>5, <1>6 DEF v

LEMMA BaseInt ==
  ASSUME Machine, NEW i \in 0 .. Len(calls)
  PROVE  Base(i) \in Int
<1>1. i # 0 => calls[i] \in Activation
  BY DEF Machine
<1> QED BY <1>1, MemSizeNat DEF Base, Activation, Addresses

\* RET pops the registers that its activation has saved.
LEMMA RetReads ==
  ASSUME Machine, Linked, status = "running", calls # <<>>
  PROVE  LET b == Popped(bp, Copies(2, AddrTypes), MemSize + 1)
         IN /\ b.bad = Ok
            /\ b.vals[1] = <<"ADDR_MEM", Base(Len(calls) - 1)>>
            /\ b.vals[2] = <<"ADDR_MEM", calls[Len(calls)].ret>>
<1> DEFINE n == Len(calls)
           old == Base(n - 1)
           ret == calls[n].ret
           first == [vals |-> <<>>, sp |-> bp, bad |-> Ok]
<1>1. n \in Nat \ {0}
  BY DEF Machine
<1>2. bp = calls[n].frame /\ SavedRegisters(n)
  BY <1>1 DEF Linked, Base
<1>3. SavedAddr(mem, bp, old) /\ SavedAddr(mem, bp + 1 + AddrSize, ret) /\ ret \in Int
  BY <1>2, MemSizeNat DEF SavedRegisters
<1>4. old \in Int
  BY <1>1, BaseInt
<1>5. /\ bp \in Int /\ bp <= MemSize /\ bp + 1 + AddrSize \in Int
      /\ bp + 1 + AddrSize <= MemSize
  BY <1>3, MemSizeNat, ValuesAssumption DEF SavedAddr
<1>6. /\ DataAt(bp) = <<"ADDR_MEM", old>>
      /\ DataAt(bp + 1 + AddrSize) = <<"ADDR_MEM", ret>>
  BY <1>3, ReadSaved
<1> HIDE DEF old, ret, n
<1> DEFINE second == PopNext(first, AddrTypes, MemSize + 1)
           third == PopNext(second, AddrTypes, MemSize + 1)
<1>7. Popped(bp, Copies(2, AddrTypes), MemSize + 1) = third
  <2>1. Copies(2, AddrTypes) = <<AddrTypes, AddrTypes>>
    BY DEF Copies
  <2> QED BY <2>1, PopTwo
<1>8. /\ first = [vals |-> first.vals, sp |-> first.sp, bad |-> first.bad]
      /\ first.vals = <<>> /\ first.sp = bp /\ first.bad = Ok
  OBVIOUS
<1> HIDE DEF first
<1>9. /\ second = [vals |-> second.vals, sp |-> second.sp, bad |-> second.bad]
      /\ second.vals = Append(<<>>, <<"ADDR_MEM", old>>)
      /\ second.sp = bp + 1 + AddrSize /\ second.bad = Ok
  BY <1>4, <1>5, <1>6, <1>8, PopAddr
<1> HIDE DEF second
<1>10. third.vals = Append(Append(<<>>, <<"ADDR_MEM", old>>), <<"ADDR_MEM", ret>>)
       /\ third.bad = Ok
  <2> DEFINE a == bp + 1 + AddrSize
  <2>1. /\ a \in Int /\ a <= MemSize /\ DataAt(a) = <<"ADDR_MEM", ret>> /\ ret \in Int
        /\ second = [vals |-> second.vals, sp |-> second.sp, bad |-> second.bad]
        /\ second.sp = a /\ second.bad = Ok
    BY <1>3, <1>5, <1>6, <1>9
  <2> HIDE DEF a
  <2>2. third.vals = Append(second.vals, <<"ADDR_MEM", ret>>) /\ third.bad = Ok
    BY <2>1, PopAddr, ZenonT(60)
  <2> QED BY <1>9, <2>2
<1> HIDE DEF third
<1>11. third.vals[1] = <<"ADDR_MEM", old>> /\ third.vals[2] = <<"ADDR_MEM", ret>>
  <2>1. \A x, y : Append(Append(<<>>, x), y)[1] = x /\ Append(Append(<<>>, x), y)[2] = y
    OBVIOUS
  <2> QED BY <1>10, <2>1
<1> QED BY <1>7, <1>10, <1>11 DEF old, ret, n

-----------------------------------------------------------------------------
(* One step.                                                               *)

LEMMA SavedKept ==
  ASSUME NEW a, NEW n, SavedAddr(mem, a, n),
         \A k \in 0 .. AddrSize : mem'[a + k] = mem[a + k]
  PROVE  SavedAddr(mem', a, n)
<1>1. AddrSize \in Nat /\ a \in Int
  BY ValuesAssumption DEF SavedAddr
<1>2. mem'[a] = mem[a]
  <2>1. 0 \in 0 .. AddrSize /\ a + 0 = a
    BY <1>1
  <2>2. mem'[a + 0] = mem[a + 0]
    BY <2>1
  <2> QED BY <2>1, <2>2
<1>3. \A k \in 1 .. AddrSize : k \in 0 .. AddrSize
  BY <1>1
<1> QED BY <1>2, <1>3 DEF SavedAddr

\* What activation i has saved stays, unless the step is its return.
LEMMA RegistersKept ==
  ASSUME KeepsFrames, NEW i \in 1 .. Len(calls), calls \in Seq(Activation),
         i <= Len(calls'), calls'[i] = calls[i],
         Base(i - 1)' = Base(i - 1), SavedRegisters(i)
  PROVE  SavedRegisters(i)'
<1> DEFINE a == calls[i].frame
           b == a + 1 + AddrSize
<1>1. AddrSize \in Nat /\ a \in Int /\ i \in DOMAIN calls
  <2>1. calls[i] \in Activation
    OBVIOUS
  <2> QED BY <2>1, ValuesAssumption, MemSizeNat, SMTT(30) DEF Activation, Addresses
<1>2. \A k \in 0 .. 2 * (1 + AddrSize) - 1 : mem'[a + k] = mem[a + k]
  BY <1>1 DEF KeepsFrames
<1> HIDE DEF a
<1>3. \A k \in 0 .. AddrSize : mem'[a + k] = mem[a + k]
  <2>1. \A k \in 0 .. AddrSize : k \in 0 .. 2 * (1 + AddrSize) - 1
    BY <1>1
  <2> QED BY <1>2, <2>1
<1>4. \A k \in 0 .. AddrSize : mem'[b + k] = mem[b + k]
  <2>1. \A k \in 0 .. AddrSize : /\ k + 1 + AddrSize \in 0 .. 2 * (1 + AddrSize) - 1
                                 /\ b + k = a + (k + 1 + AddrSize)
    BY <1>1
  <2> HIDE DEF b
  <2> QED BY <1>2, <2>1
<1>5. SavedAddr(mem, a, Base(i - 1)) /\ SavedAddr(mem, b, calls[i].ret)
  BY DEF SavedRegisters, a
<1> HIDE DEF b
<1>6. SavedAddr(mem', a, Base(i - 1)) /\ SavedAddr(mem', b, calls[i].ret)
  BY <1>3, <1>4, <1>5, SavedKept
<1> QED BY <1>6 DEF SavedRegisters, a, b

\* The steps that begin and end no activation.
SameFrame == calls' = calls /\ bp' = bp

LEMMA SameFrameStep ==
  ASSUME Machine, Linked, KeepsFrames, codeEnd' = codeEnd, SameFrame
  PROVE  Linked'
<1>1. calls' = calls /\ bp' = bp /\ calls \in Seq(Activation)
  BY DEF SameFrame, Machine
<1>2. \A i : Base(i)' = Base(i)
  BY <1>1 DEF Base
<1>3. bp' = Base(Len(calls))'
  BY <1>1 DEF Linked, Base
<1>4. ASSUME NEW i \in 1 .. Len(calls')
      PROVE  SavedRegisters(i)'
  <2>1. i \in 1 .. Len(calls) /\ i <= Len(calls') /\ calls'[i] = calls[i] /\ SavedRegisters(i)
    BY <1>1 DEF Linked
  <2> QED BY <1>1, <1>2, <2>1, RegistersKept
<1>5. codeEnd' \in 1 .. MemSize - 1
  BY DEF Linked
<1> QED BY <1>3, <1>4, <1>5 DEF Linked

\* The step begins an activation that is to go back to ret.
Begun(ret) ==
  /\ Len(calls') = Len(calls) + 1
  /\ \A i \in 1 .. Len(calls) : calls'[i] = calls[i]
  /\ calls'[Len(calls) + 1].ret = ret

\* The step ends the activation made last, which is left as it was entered.
Ended ==
  /\ calls # <<>>
  /\ Len(calls') = Len(calls) - 1
  /\ \A i \in 1 .. Len(calls) - 1 : calls'[i] = calls[i]
  /\ ip' = calls[Len(calls)].ret /\ bp' = calls[Len(calls)].bp

\* A frame that is saved below those of the active functions is not made where the
\* running one has its own: it would hold another base pointer.
LEMMA OtherFrame ==
  ASSUME Machine, Linked, KeepsFrames, Len(calls') >= Len(calls), NEW a,
         SavedAddr(mem', a, bp)
  PROVE  a # bp
<1> SUFFICES ASSUME a = bp PROVE FALSE
  OBVIOUS
<1> PICK n \in Nat : n = Len(calls)
  BY DEF Machine
<1>1. bp = Base(n) /\ AddrSize \in Nat \ {0} /\ MemSize \in Nat
  BY ValuesAssumption, MemSizeNat DEF Linked
<1>2. n # 0
  BY <1>1 DEF SavedAddr, Base
<1>3. bp = calls[n].frame /\ SavedRegisters(n) /\ n \in DOMAIN calls /\ n <= Len(calls')
  BY <1>1, <1>2 DEF Linked, Base, Machine
<1>4. mem'[bp + 1] = mem[bp + 1]
  <2>1. 1 \in 0 .. 2 * (1 + AddrSize) - 1
    BY <1>1
  <2> QED BY <1>3, <2>1 DEF KeepsFrames
<1>5. mem'[bp + 1] = <<"addr", bp, 1>> /\ mem[bp + 1] = <<"addr", Base(n - 1), 1>>
  <2>1. 1 \in 1 .. AddrSize
    BY <1>1
  <2>2. SavedAddr(mem', bp, bp) /\ SavedAddr(mem, bp, Base(n - 1))
    BY <1>3 DEF SavedRegisters
  <2> QED BY <2>1, <2>2 DEF SavedAddr
<1>6. bp # Base(n - 1)
  BY <1>3 DEF SavedRegisters
<1>7. mem'[bp + 1][2] = bp /\ mem[bp + 1][2] = Base(n - 1)
  BY <1>5
<1> QED BY <1>4, <1>6, <1>7

\* An activation begins: its registers are saved next to each other.
LEMMA EnterLinked ==
  ASSUME Machine, Linked, Looping, KeepsFrames, codeEnd' = codeEnd,
         NEW m, NEW target, NEW framesize, NEW top \in Int, top <= MemSize,
         NEW ret \in 0 .. MemSize - 1, Enter(m, target, framesize, top, ret)
  PROVE  Linked' /\ (SameFrame \/ Begun(ret))
<1> DEFINE s == PushedOn(m, top, <<<<"ADDR_MEM", ret>>, <<"ADDR_MEM", bp>>>>)
           new == [frame |-> s.sp, size |-> framesize, ret |-> ret, bp |-> bp]
<1>1. IF s.bad # Ok THEN Fail(s.bad) ELSE MakeFrame(s, target, framesize, ret)
  BY DEF Enter, With
<1>2. /\ Memory(mem) /\ bp \in Int /\ ret \in Int /\ calls \in Seq(Activation)
      /\ status = "running"
  BY MemSizeNat DEF Machine, Looping
<1> PICK n \in Nat : n = Len(calls)
  BY <1>2
<1>3. CASE s.bad # Ok
  <2> HIDE DEF s
  <2>1. SameFrame
    BY <1>1, <1>3 DEF Fail, regs, SameFrame
  <2> QED BY <2>1, SameFrameStep
<1>4. CASE s.bad = Ok
  <2>1. /\ s.sp \in Addresses /\ SavedAddr(s.mem, s.sp, bp)
        /\ SavedAddr(s.mem, s.sp + 1 + AddrSize, ret)
    BY <1>2, <1>4, EnterSaved
  <2>2. mem' = s.mem /\ bp' = s.sp /\ calls' = Append(calls, new)
    BY <1>1, <1>4 DEF MakeFrame
  <2> HIDE DEF s
  <2>3. /\ Len(calls') = n + 1 /\ \A i \in 1 .. n : calls'[i] = calls[i]
        /\ calls'[n + 1] = new
    <3>1. calls \in Seq(Range(calls))
      BY <1>2, SeqShape DEF Range
    <3> HIDE DEF new
    <3> QED BY <2>2, <3>1, AppendAny
  <2>4. \A i \in 0 .. n : Base(i)' = Base(i)
    BY <1>2, <2>3 DEF Base
  <2>5. bp = Base(n) /\ \A i \in 1 .. n : SavedRegisters(i)
    BY <1>2 DEF Linked
  <2>6. \A i \in 1 .. n : SavedRegisters(i)'
    <3> TAKE i \in 1 .. n
    <3>1. i <= Len(calls') /\ calls'[i] = calls[i] /\ i - 1 \in 0 .. n
      BY <1>2, <2>3
    <3> QED BY <1>2, <2>4, <2>5, <3>1, RegistersKept
  <2>7. SavedRegisters(n + 1)'
    <3>1. Base((n + 1) - 1)' = bp
      <4>1. (n + 1) - 1 = n /\ n \in 0 .. n
        BY <1>2
      <4> QED BY <2>4, <2>5, <4>1
    <3>2. /\ calls'[n + 1].frame = s.sp /\ calls'[n + 1].ret = ret
          /\ calls'[n + 1].bp = bp
      BY <2>3
    <3> HIDE DEF new
    <3>3. s.sp # bp
      BY <1>2, <2>1, <2>2, <2>3, OtherFrame
    <3> QED BY <2>1, <2>2, <3>1, <3>2, <3>3 DEF SavedRegisters
  <2>8. bp' = Base(Len(calls))'
    <3>1. Len(calls') # 0
      BY <1>2, <2>3
    <3> QED BY <2>2, <2>3, <3>1 DEF Base
  <2>9. codeEnd' \in 1 .. MemSize - 1
    BY DEF Linked
  <2>10. \A i \in 1 .. Len(calls') : SavedRegisters(i)'
    <3>1. \A i \in 1 .. n + 1 : i \in 1 .. n \/ i = n + 1
      BY <1>2
    <3> QED BY <2>3, <2>6, <2>7, <3>1
  <2>11. Begun(ret)
    <3>1. calls'[n + 1].ret = ret
      BY <2>3
    <3> QED BY <2>3, <3>1 DEF Begun
  <2> QED BY <2>8, <2>9, <2>10, <2>11 DEF Linked
<1> QED BY <1>3, <1>4

LEMMA CallLinked ==
  ASSUME Machine, Linked, KeepsFrames, codeEnd' = codeEnd, Call
  PROVE  Linked' /\ (SameFrame \/ Begun(next))
<1>1. Looping
  BY Fetched DEF Call
<1> DEFINE types == <<AddrTypes, {"INT"}>>
           p == Operands(types)
<1>2. IF p.bad # Ok THEN Fail(p.bad) ELSE Enter(mem, Target(p), p.vals[2][2], p.sp, next)
  BY DEF Call, With
<1>3. Len(types) \in Nat
  OBVIOUS
<1> HIDE DEF types
<1>4. p.bad = Ok => p.sp \in Int /\ p.sp <= MemSize
  BY <1>1, <1>3, OperandsPopped
<1>5. next \in 0 .. MemSize - 1
  BY <1>1, MemSizeNat DEF Looping, PointersInBounds, Linked, next
<1> HIDE DEF p
<1>6. CASE p.bad # Ok
  <2>1. SameFrame
    BY <1>1, <1>2, <1>6 DEF Fail, regs, SameFrame
  <2> QED BY <2>1, SameFrameStep
<1>7. CASE p.bad = Ok
  BY <1>1, <1>2, <1>4, <1>5, <1>7, EnterLinked
<1> QED BY <1>6, <1>7

LEMMA CallISRLinked ==
  ASSUME Machine, Linked, KeepsFrames, codeEnd' = codeEnd, CallISR
  PROVE  Linked' /\ (SameFrame \/ Begun(ip))
<1> DEFINE irq == CHOOSE n \in Pending : \A k \in Pending : n <= k
           s == Pushed(sp, <<<<"ADDR_MEM", isrs[irq]>>>>)
           types == <<{"INT"}>>
           p == Operands(types)
<1>1. /\ Looping
      /\ IF s.bad # Ok THEN Fail(s.bad)
         ELSE IF p.bad # Ok THEN Fail(p.bad) ELSE Enter(s.mem, isrs[irq], p.vals[1][2], p.sp, ip)
  BY DEF CallISR, With
<1>2. Len(types) \in Nat
  OBVIOUS
<1> HIDE DEF types
<1>3. p.bad = Ok => p.sp \in Int /\ p.sp <= MemSize
  BY <1>1, <1>2, OperandsPopped
<1>4. ip \in 0 .. MemSize - 1
  BY <1>1, MemSizeNat DEF Looping, PointersInBounds, Linked
<1> HIDE DEF p, s, irq
<1>5. CASE s.bad # Ok \/ p.bad # Ok
  <2>1. SameFrame
    BY <1>1, <1>5 DEF Fail, regs, SameFrame
  <2> QED BY <2>1, SameFrameStep
<1>6. CASE s.bad = Ok /\ p.bad = Ok
  BY <1>1, <1>3, <1>4, <1>6, EnterLinked
<1> QED BY <1>5, <1>6

\* RET goes back to the frame below, and to where its activation came from.
LEMMA RetLinked ==
  ASSUME Machine, Linked, KeepsFrames, codeEnd' = codeEnd, Ret
  PROVE  Linked' /\ (SameFrame \/ Ended)
<1>1. Looping
  BY Fetched DEF Ret
<1> DEFINE o == Operands(<<{"INT"}, {"INT"}>>)
           r == Popped(o.sp, Copies(bp - o.sp, AnyType), bp - o.vals[2][2])
           b == Popped(bp, Copies(2, AddrTypes), MemSize + 1)
           a == Popped(b.sp, Copies(o.vals[1][2], AnyType), MemSize + 1)
           s == Pushed(a.sp, [i \in DOMAIN r.vals |-> Untyped(r.vals[i])])
           oldbp == Resolve(b.vals[1], next, bp + 1 + AddrSize, bp)
           target == Resolve(b.vals[2], next, b.sp, oldbp)
<1>2. IF o.bad # Ok THEN Fail(o.bad)
      ELSE IF r.bad # Ok THEN Fail(r.bad)
      ELSE IF b.bad # Ok THEN Fail(b.bad)
      ELSE IF a.bad # Ok THEN Fail(a.bad)
      ELSE IF s.bad # Ok THEN Fail(s.bad)
      ELSE /\ mem' = s.mem /\ sp' = s.sp /\ bp' = oldbp /\ GoTo(target)
           /\ calls' = SubSeq(calls, 1, Len(calls) - 1)
           /\ UNCHANGED <<env, status, isrs>>
  BY ZenonT(60) DEF Ret, With
<1>3. /\ status = "running" /\ Memory(mem) /\ bp \in Int /\ calls \in Seq(Activation)
      /\ MemSize \in Nat
  BY <1>1, MemSizeNat DEF Machine, Looping
<1> PICK n \in Nat : n = Len(calls)
  BY <1>3
<1> HIDE DEF o, r, a, s
<1>4. CASE \E e : Fail(e)
  <2>1. SameFrame
    BY <1>4 DEF Fail, regs, SameFrame
  <2> QED BY <2>1, SameFrameStep
<1>5. CASE ~\E e : Fail(e)
  <2>1. /\ b.bad = Ok /\ bp' = oldbp /\ GoTo(target)
        /\ calls' = SubSeq(calls, 1, n - 1)
    <3> HIDE DEF b, oldbp, target
    <3> QED BY <1>2, <1>5
  <2>2. n # 0
    <3> SUFFICES ASSUME n = 0 PROVE FALSE
      OBVIOUS
    <3>1. bp = MemSize
      BY <1>3 DEF Linked, Base
    <3>2. Copies(2, AddrTypes) = <<AddrTypes, AddrTypes>>
      BY DEF Copies
    <3> HIDE DEF b
    <3>5. DataAt(MemSize) \in Bad
      <4>1. DataAt(MemSize) \notin Bad => FALSE
        <5> SUFFICES ASSUME DataAt(MemSize) \notin Bad PROVE FALSE
          OBVIOUS
        <5>1. IsValue(DataAt(MemSize)) /\ MemSize + Size(DataAt(MemSize)) <= MemSize
          BY <1>3, DataRead
        <5>2. Size(DataAt(MemSize)) \in Nat \ {0}
          BY <5>1, SizeAtLeast
        <5> QED BY <1>3, <5>1, <5>2
      <4> QED BY <4>1
    <3> DEFINE first == [vals |-> <<>>, sp |-> bp, bad |-> Ok]
               second == PopNext(first, AddrTypes, MemSize + 1)
    <3>6. second.bad # Ok
      <4>1. first.bad = Ok /\ first.sp = MemSize /\ ~(MemSize >= MemSize + 1)
        BY <1>3, <3>1
      <4>2. second = [first EXCEPT !.bad = DataAt(MemSize)]
        <5> HIDE DEF first
        <5> QED BY <3>5, <4>1 DEF PopNext, PopValue
      <4>3. second.bad = DataAt(MemSize)
        BY <4>2
      <4> QED BY <3>5, <4>3, OkNotBad
    <3>7. b = second
      <4>1. b = PopNext(second, AddrTypes, MemSize + 1)
        BY <3>2, PopTwo DEF b
      <4> HIDE DEF second
      <4> QED BY <3>6, <4>1 DEF PopNext
    <3> HIDE DEF second
    <3> QED BY <2>1, <3>6, <3>7
  <2>3. /\ b.vals[1] = <<"ADDR_MEM", Base(n - 1)>>
        /\ b.vals[2] = <<"ADDR_MEM", calls[n].ret>>
    <3>1. calls # <<>>
      BY <2>2
    <3> HIDE DEF b
    <3> QED BY <1>3, <3>1, RetReads DEF b
  <2> HIDE DEF b
  <2>4. oldbp = Base(n - 1)
    <3>1. b.vals[1][1] = "ADDR_MEM" /\ b.vals[1][2] = Base(n - 1) /\ Base(n - 1) \in Int
      BY <1>3, <2>2, <2>3, BaseInt
    <3> QED BY <3>1 DEF Resolve
  <2>5. SavedRegisters(n) /\ bp = Base(n) /\ \A i \in 1 .. n : SavedRegisters(i)
    BY <1>3, <2>2 DEF Linked
  <2>6. target = calls[n].ret /\ calls[n].ret \in 0 .. MemSize - 1
    <3>1. b.vals[2][1] = "ADDR_MEM" /\ b.vals[2][2] = calls[n].ret
      BY <2>3
    <3>2. calls[n].ret \in 0 .. MemSize - 1
      BY <2>5 DEF SavedRegisters
    <3> HIDE DEF oldbp
    <3>3. target = calls[n].ret + 0
      BY <3>1 DEF Resolve
    <3> QED BY <1>3, <3>2, <3>3
  <2>7. ip' = calls[n].ret /\ bp' = calls[n].bp
    <3>1. ip' = calls[n].ret
      <4> HIDE DEF target
      <4> QED BY <1>3, <2>1, <2>6 DEF GoTo
    <3>2. calls[n].bp = Base(n - 1)
      BY <2>5 DEF SavedRegisters
    <3> QED BY <2>1, <2>4, <3>1, <3>2
  <2>8. Len(calls') = n - 1 /\ \A i \in 1 .. n - 1 : calls'[i] = calls[i]
    BY <1>3, <2>1, <2>2
  <2>9. \A i \in 0 .. n - 1 : Base(i)' = Base(i)
    BY <1>3, <2>8 DEF Base
  <2>10. bp' = Base(Len(calls))'
    <3>1. n - 1 \in 0 .. n - 1
      BY <2>2
    <3> QED BY <2>1, <2>4, <2>8, <2>9, <3>1 DEF Base
  <2>11. \A i \in 1 .. Len(calls') : SavedRegisters(i)'
    <3> SUFFICES ASSUME NEW i \in 1 .. n - 1 PROVE SavedRegisters(i)'
      BY <2>8
    <3>1. /\ i \in 1 .. n /\ i <= Len(calls') /\ calls'[i] = calls[i]
          /\ i - 1 \in 0 .. n - 1
      BY <2>8
    <3> QED BY <1>3, <2>5, <2>9, <3>1, RegistersKept
  <2>12. Ended
    <3>1. calls # <<>>
      BY <2>2
    <3> QED BY <2>7, <2>8, <3>1 DEF Ended
  <2>13. codeEnd' \in 1 .. MemSize - 1
    BY DEF Linked
  <2> QED BY <2>10, <2>11, <2>12, <2>13 DEF Linked
<1> QED BY <1>4, <1>5

\* The other steps neither begin nor end an activation.
LEMMA OtherStep ==
  ASSUME [Next]_vars
  PROVE  Call \/ CallISR \/ Ret \/ SameFrame
<1>1. ASSUME NEW e, Fail(e), status = "running"
      PROVE  SameFrame
  BY <1>1 DEF Fail, regs, SameFrame
<1>2. ASSUME NEW s, NEW addr, Continue(s, addr), status = "running"
      PROVE  SameFrame
  BY <1>2 DEF Continue, With, Fail, regs, SameFrame
<1>3. CASE Compute \/ MakeArr \/ Push \/ RdMem \/ WrMem \/ WrArr \/ Nop \/ Jmp \/ JmpCnd
           \/ Frame \/ Halt \/ ExtCall
  <2>1. status = "running"
    <3>1. \E ops : Fetch(ops)
      BY <1>3 DEF Compute, MakeArr, Push, RdMem, WrMem, WrArr, Nop, Jmp, JmpCnd, Frame,
                  Halt, ExtCall
    <3> QED BY <3>1, Fetched DEF Looping
  <2>2. CASE Compute
    BY <1>1, <1>2, <2>1, <2>2 DEF Compute, With
  <2>3. CASE MakeArr
    BY <1>1, <1>2, <2>1, <2>3 DEF MakeArr, MakeFrom, With
  <2>4. CASE Push \/ RdMem
    BY <1>1, <1>2, <2>1, <2>4 DEF Push, RdMem, With
  <2>5. CASE WrMem \/ WrArr
    BY <1>1, <1>2, <2>1, <2>5 DEF WrMem, Write, WrArr, With
  <2>6. CASE Nop \/ Jmp \/ JmpCnd \/ Frame
    BY <1>1, <1>2, <2>1, <2>6 DEF Nop, Jmp, JmpCnd, Frame, With
  <2>7. CASE ExtCall
    <3> DEFINE f == Operands(<<{"STR"}>>)
               name == f.vals[1][2][1]
               p == Popped(f.sp, ExtArgs(name), MemSize + 1)
    <3>1. Fail(f.bad) \/ Fail(p.bad) \/ CallExternal(name, f.sp, p)
      BY <2>7 DEF ExtCall, With
    <3>2. ASSUME NEW num, NEW addr, NEW m, NEW top, SetISR(num, addr, m, top)
          PROVE  SameFrame
      BY <1>1, <2>1, <3>2 DEF SetISR, SameFrame
    <3>3. ASSUME NEW c, NEW s, Answer(name, p, c, s)
          PROVE  SameFrame
      <4> HIDE DEF name, p
      <4>1. CASE name = "set_isr"
        BY <3>2, <3>3, <4>1, Zenon DEF Answer
      <4>2. CASE name = "to_string"
        BY <1>2, <2>1, <3>3, <4>2, Zenon DEF Answer
      <4>3. CASE name # "set_isr" /\ name # "to_string"
        <5>1. \E r : Fail(r) \/ Continue(PushedOn(s.mem, p.sp, r), next)
          BY <3>3, <4>3, Zenon DEF Answer
        <5> QED BY <1>1, <1>2, <2>1, <5>1
      <4> QED BY <4>1, <4>2, <4>3
    <3>4. CallExternal(name, f.sp, p) => SameFrame
      <4> SUFFICES ASSUME CallExternal(name, f.sp, p) PROVE SameFrame
        OBVIOUS
      <4> HIDE DEF f, name, p
      <4>1. PICK c \in Conversions(name, p.vals) :
              With(Convert(f.sp, p.vals, c), LAMBDA s : Answer(name, p, c, s))
        BY DEF CallExternal
      <4> DEFINE s == Convert(f.sp, p.vals, c)
      <4>2. Fail(s.bad) \/ Answer(name, p, c, s)
        BY <4>1 DEF With
      <4> HIDE DEF s
      <4> QED BY <1>1, <2>1, <3>3, <4>2
    <3> HIDE DEF f, name, p
    <3> QED BY <1>1, <2>1, <3>1, <3>4
  <2>8. CASE Halt
    BY <2>1, <2>8 DEF Halt, regs, SameFrame
  <2> QED BY <1>3, <2>2, <2>3, <2>4, <2>5, <2>6, <2>7, <2>8
<1>4. CASE Invalid
  BY <1>4 DEF Invalid, regs, SameFrame, Looping
<1>5. CASE PointerFault
  BY <1>5, <1>1 DEF PointerFault
<1>6. CASE RequestInterrupt
  BY <1>6 DEF RequestInterrupt, regs, SameFrame
<1>7. CASE Stopped \/ UNCHANGED vars
  BY <1>7 DEF Stopped, vars, regs, SameFrame
<1> QED BY <1>3, <1>4, <1>5, <1>6, <1>7 DEF Next, Run

-----------------------------------------------------------------------------
(* The invariant and what it implies.                                      *)

LEMMA LinkedInit == Init => Linked
<1> SUFFICES ASSUME Init PROVE Linked
  OBVIOUS
<1>1. codeEnd \in 1 .. MemSize - 1 /\ bp = MemSize /\ calls = <<>>
  <2>1. Len(Programs[prog]) \in 1 .. MemSize - Pad /\ MemSize \in Nat /\ Pad \in Nat \ {0}
    BY VMAssumption DEF Init
  <2> QED BY <2>1 DEF Init
<1>2. Len(calls) = 0
  BY <1>1
<1> QED BY <1>1, <1>2 DEF Linked, Base

\* A step that leaves the saved registers alone links the frames again, and it
\* begins an activation, ends the one made last, or does neither.
LEMMA LinkedStep ==
  ASSUME IInv, Linked, [Next]_vars, [KeepsFrames]_vars
  PROVE  Linked' /\ (SameFrame \/ Begun(next) \/ Begun(ip) \/ Ended)
<1>1. Machine /\ codeEnd' = codeEnd
  BY NextStep DEF IInv, Stored
<1>2. KeepsFrames
  <2>1. CASE UNCHANGED vars
    BY <2>1 DEF vars, KeepsFrames
  <2> QED BY <2>1
<1>3. CASE Call
  BY <1>1, <1>2, <1>3, CallLinked
<1>4. CASE CallISR
  BY <1>1, <1>2, <1>4, CallISRLinked
<1>5. CASE Ret
  BY <1>1, <1>2, <1>5, RetLinked
<1>6. CASE SameFrame
  BY <1>1, <1>2, <1>6, SameFrameStep
<1> QED BY <1>3, <1>4, <1>5, <1>6, OtherStep

LEMMA LinkedChain == IInv /\ Linked => FrameChain
<1> SUFFICES ASSUME IInv, Linked, status = "running" PROVE FrameChain
  BY DEF FrameChain
<1>1. bp = Base(Len(calls)) /\ \A i \in 1 .. Len(calls) : SavedRegisters(i)
  BY DEF Linked
<1>2. DOMAIN calls = 1 .. Len(calls)
  BY DEF IInv, Machine
<1>3. ASSUME NEW i \in DOMAIN calls
      PROVE  /\ DataAt(calls[i].frame) = <<"ADDR_MEM", Base(i - 1)>>
             /\ DataAt(calls[i].frame + 1 + AddrSize) = <<"ADDR_MEM", calls[i].ret>>
  <2>1. SavedRegisters(i)
    BY <1>1, <1>2
  <2> QED BY <2>1, ReadSaved DEF SavedRegisters
<1> QED BY <1>1, <1>3 DEF FrameChain, Base

\* As long as no store and no value that is pushed reaches the registers saved
\* by the activations, they link all frames up to that of the program, however
\* deep the calls are and whatever interrupts are served in between (OpCode::CALL
\* and OpCode::RET in VM::Run).
THEOREM FramesLinked == Spec /\ FramesKept => []FrameChain
<1>1. Init => Linked
  BY LinkedInit
<1>2. IInv /\ Linked /\ [Next]_vars /\ [KeepsFrames]_vars => Linked'
  BY LinkedStep
<1>3. IInv /\ Linked => FrameChain
  BY LinkedChain
<1> QED BY <1>1, <1>2, <1>3, MachineTyped, PTL DEF Spec, FramesKept

\* Under the same condition every RET goes on where its own activation was called
\* or interrupted, with the base pointer of that time.
THEOREM ReturnsCorrect == Spec /\ FramesKept => ReturnsToCaller
<1>1. Init => Linked
  BY LinkedInit
<1>2. IInv /\ Linked /\ [Next]_vars /\ [KeepsFrames]_vars => Linked'
  BY LinkedStep
<1>3. IInv /\ Linked /\ [Next]_vars /\ [KeepsFrames]_vars =>
        [Len(calls') < Len(calls) => ip' = Last(calls).ret /\ bp' = Last(calls).bp]_vars
  <2> SUFFICES ASSUME IInv, Linked, [Next]_vars, [KeepsFrames]_vars
               PROVE  Len(calls') < Len(calls) =>
                        ip' = Last(calls).ret /\ bp' = Last(calls).bp
    OBVIOUS
  <2>1. SameFrame \/ Begun(next) \/ Begun(ip) \/ Ended
    BY LinkedStep
  <2>2. Len(calls) \in Nat
    BY DEF IInv, Machine
  <2> QED BY <2>1, <2>2 DEF SameFrame, Begun, Ended, Last
<1> QED BY <1>1, <1>2, <1>3, MachineTyped, PTL DEF Spec, FramesKept, ReturnsToCaller

-----------------------------------------------------------------------------
(* The machine implements CallStack.                                       *)

\* What the activations, in memory, will go back to.
Remembered ==
  /\ Len(calls) \in Nat /\ DOMAIN calls = 1 .. Len(calls)
  /\ \A i \in 1 .. Len(calls) : Saved(i) = [ret |-> calls[i].ret, base |-> Base(i - 1)]

LEMMA MemoryRemembers == Machine /\ Linked => Remembered
<1> SUFFICES ASSUME Machine, Linked PROVE Remembered
  OBVIOUS
<1>1. Len(calls) \in Nat /\ DOMAIN calls = 1 .. Len(calls)
  BY DEF Machine
<1>2. ASSUME NEW i \in 1 .. Len(calls)
      PROVE  Saved(i) = [ret |-> calls[i].ret, base |-> Base(i - 1)]
  <2>1. SavedRegisters(i)
    BY DEF Linked
  <2>2. /\ DataAt(calls[i].frame) = <<"ADDR_MEM", Base(i - 1)>>
        /\ DataAt(calls[i].frame + 1 + AddrSize) = <<"ADDR_MEM", calls[i].ret>>
    BY <2>1, ReadSaved DEF SavedRegisters
  <2> QED BY <2>2 DEF Saved
<1> QED BY <1>1, <1>2 DEF Remembered

LEMMA StillRemembered == Machine' /\ Linked' => Remembered'
BY MemoryRemembers, PTL

\* Every step that leaves saved registers alone is one of the abstract stack.
LEMMA StepImplementsCalls ==
  IInv /\ IInv' /\ Linked /\ [Next]_vars /\ [KeepsFrames]_vars =>
    [Abstract!Next]_(Abstract!vars)
<1> SUFFICES ASSUME IInv, IInv', Linked, [Next]_vars, [KeepsFrames]_vars
             PROVE  Abstract!Next
  OBVIOUS
<1> DEFINE stack == [i \in DOMAIN calls |-> Saved(i)]
<1> PICK n \in Nat : n = Len(calls)
  BY DEF IInv, Machine
<1>1. /\ Linked' /\ ip' \in Int /\ bp' \in Int /\ bp = Base(n)
      /\ SameFrame \/ Begun(next) \/ Begun(ip) \/ Ended
  BY LinkedStep DEF IInv, Machine, Linked
<1>2. /\ DOMAIN calls = 1 .. n
      /\ \A i \in 1 .. n : Saved(i) = [ret |-> calls[i].ret, base |-> Base(i - 1)]
  BY MemoryRemembers DEF IInv, Remembered
<1>3. /\ DOMAIN calls' = 1 .. Len(calls')
      /\ \A i \in 1 .. Len(calls') :
           Saved(i)' = [ret |-> calls'[i].ret, base |-> Base(i - 1)']
  BY <1>1, StillRemembered DEF IInv, Remembered
<1>4. ASSUME NEW k \in 0 .. n, k <= Len(calls'), Len(calls') \in Nat,
             \A i \in 1 .. k : calls'[i] = calls[i]
      PROVE  /\ \A i \in 0 .. k : Base(i)' = Base(i)
             /\ \A i \in 1 .. k : Saved(i)' = Saved(i)
  <2>1. \A i \in 0 .. k : Base(i)' = Base(i)
    BY <1>4 DEF Base
  <2>2. ASSUME NEW i \in 1 .. k
        PROVE  Saved(i)' = Saved(i)
    <3>1. i \in 1 .. n /\ i \in 1 .. Len(calls') /\ i - 1 \in 0 .. k /\ calls'[i] = calls[i]
      BY <1>4
    <3> QED BY <1>2, <1>3, <2>1, <3>1
  <2> QED BY <2>1, <2>2
<1>5. CASE SameFrame
  <2>1. n \in 0 .. n /\ Len(calls') = n /\ \A i \in 1 .. n : calls'[i] = calls[i]
    BY <1>5 DEF SameFrame
  <2>2. \A i \in 1 .. n : Saved(i)' = Saved(i)
    BY <1>4, <2>1
  <2>3. stack' = stack
    BY <1>2, <1>3, <2>1, <2>2
  <2>4. Abstract!Local
    BY <1>1, <1>5, <2>3 DEF Abstract!Local, SameFrame
  <2> QED BY <2>4 DEF Abstract!Next
<1>6. ASSUME NEW ret, Begun(ret)
      PROVE  Abstract!Begin(ret)
  <2>1. /\ n \in 0 .. n /\ Len(calls') = n + 1 /\ \A i \in 1 .. n : calls'[i] = calls[i]
        /\ calls'[n + 1].ret = ret
    BY <1>6 DEF Begun
  <2>2. /\ \A i \in 0 .. n : Base(i)' = Base(i)
        /\ \A i \in 1 .. n : Saved(i)' = Saved(i)
    BY <1>4, <2>1
  <2>3. Saved(n + 1)' = [ret |-> ret, base |-> bp]
    <3>1. n + 1 \in 1 .. Len(calls') /\ (n + 1) - 1 = n
      BY <2>1
    <3>2. Base((n + 1) - 1)' = bp
      BY <1>1, <2>1, <2>2, <3>1
    <3> QED BY <1>3, <2>1, <3>1, <3>2
  <2>4. stack' = Append(stack, [ret |-> ret, base |-> bp])
    <3>1. stack = [i \in 1 .. n |-> stack[i]]
      BY <1>2
    <3> DEFINE e == [ret |-> ret, base |-> bp]
               t == Append(stack, e)
    <3>2. stack \in Seq(Range(stack)) /\ Len(stack) = n
      BY <3>1, IsSeq
    <3> HIDE DEF e
    <3>3. /\ DOMAIN t = 1 .. n + 1 /\ t[n + 1] = e /\ \A i \in 1 .. n : t[i] = stack[i]
          /\ t = [i \in 1 .. n + 1 |-> t[i]]
      <4> HIDE DEF stack
      <4>1. /\ DOMAIN t = 1 .. n + 1 /\ t[n + 1] = e /\ \A i \in 1 .. n : t[i] = stack[i]
            /\ t \in Seq(Range(t)) /\ Len(t) = n + 1
        BY <3>2, AppendAny
      <4> QED BY <4>1, SeqShape
    <3>4. stack' = [i \in 1 .. n + 1 |-> Saved(i)']
      BY <1>3, <2>1
    <3>5. \A i \in 1 .. n + 1 : t[i] = Saved(i)'
      <4>1. \A i \in 1 .. n : t[i] = Saved(i)'
        BY <1>2, <2>2, <3>3
      <4> QED BY <2>3, <3>3, <4>1 DEF e
    <3> HIDE DEF t, stack
    <3> QED BY <3>3, <3>4, <3>5 DEF e, t
  <2>5. bp' # bp
    <3>1. SavedRegisters(n + 1)' /\ bp' = Base(n + 1)' /\ Base((n + 1) - 1)' = bp
      <4>1. n + 1 \in 1 .. Len(calls') /\ (n + 1) - 1 = n
        BY <2>1
      <4> QED BY <1>1, <2>1, <2>2, <4>1 DEF Linked
    <3>2. n + 1 # 0
      OBVIOUS
    <3> QED BY <3>1, <3>2 DEF SavedRegisters, Base
  <2> QED BY <1>1, <2>4, <2>5 DEF Abstract!Begin
<1>7. CASE Begun(next) \/ Begun(ip)
  <2>1. Abstract!Begin(ip + 1) \/ Abstract!Begin(ip)
    BY <1>6, <1>7 DEF next
  <2> QED BY <2>1 DEF Abstract!Next, Abstract!Enter, Abstract!Interrupt
<1>8. CASE Ended
  <2>1. /\ n # 0 /\ n - 1 \in 0 .. n /\ Len(calls') = n - 1
        /\ \A i \in 1 .. n - 1 : calls'[i] = calls[i]
        /\ ip' = calls[n].ret /\ bp' = calls[n].bp
    BY <1>8 DEF Ended
  <2>2. \A i \in 1 .. n - 1 : Saved(i)' = Saved(i)
    BY <1>4, <2>1
  <2>3. stack # <<>> /\ Len(stack) = n
    <3>1. stack = [i \in 1 .. n |-> stack[i]]
      BY <1>2
    <3> HIDE DEF stack
    <3> QED BY <2>1, <3>1, IsSeq
  <2>4. stack' = SubSeq(stack, 1, n - 1)
    BY <1>2, <1>3, <2>1, <2>2
  <2>5. stack[n] = [ret |-> calls[n].ret, base |-> calls[n].bp]
    <3>1. n \in 1 .. n /\ calls[n].bp = Base(n - 1)
      BY <2>1 DEF Linked, SavedRegisters
    <3> QED BY <1>2, <3>1
  <2>6. Abstract!Leave
    <3>1. /\ ip' = stack[Len(stack)].ret /\ bp' = stack[Len(stack)].base
          /\ stack' = SubSeq(stack, 1, Len(stack) - 1)
      <4> HIDE DEF stack
      <4> QED BY <2>1, <2>3, <2>4, <2>5
    <3> QED BY <2>3, <3>1, Zenon DEF Abstract!Leave
  <2> QED BY <2>6 DEF Abstract!Next
<1> QED BY <1>1, <1>5, <1>7, <1>8

\* As long as nothing reaches the registers that are saved in memory, memory is
\* a stack of calls: CALL and interrupts push the place and frame to go back to,
\* RET goes there, and no other instruction changes what any activation will find
\* (VM::Run).
THEOREM CallsImplemented == Spec /\ FramesKept => ImplementsCalls
<1>1. Init => Linked
  BY LinkedInit
<1>2. IInv /\ Linked /\ [Next]_vars /\ [KeepsFrames]_vars => Linked'
  BY LinkedStep
<1>3. Init => Abstract!Init
  BY DEF Init, Abstract!Init
<1>4. IInv /\ IInv' /\ Linked /\ [Next]_vars /\ [KeepsFrames]_vars =>
        [Abstract!Next]_(Abstract!vars)
  BY StepImplementsCalls
<1> QED
  BY <1>1, <1>2, <1>3, <1>4, MachineTyped, PTL
  DEF Spec, FramesKept, ImplementsCalls, Abstract!Spec
=============================================================================
