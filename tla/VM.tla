---------------------------------- MODULE VM ----------------------------------
(***************************************************************************)
(* The zero-address virtual machine: VM::Run (vm/run.cpp) with the stack   *)
(* and memory operations it uses (vm/mem.h, vm/vm.cpp), its operators      *)
(* (module VMValues) and its external functions (vm/extfuncs.cpp).         *)
(*                                                                         *)
(* Memory is a sequence of typed bytes.  A byte of an item of data is      *)
(* <<kind, payload, k>>, byte number k of the item, so that reading an     *)
(* item whose bytes have been partly overwritten, or reading it as another *)
(* kind, is noticed: the model then stops with status "undefined".         *)
(* An instruction is one step.  It either succeeds or the exception it     *)
(* throws ends the program (main() catches it), so what it had changed     *)
(* before is not kept.  Bounds checks are on and popped values are not     *)
(* zeroed, the defaults of vm/main.cpp; memory images are not drawn.       *)
(***************************************************************************)
EXTENDS VMValues

CONSTANTS
  MemSize,    \* m_memsize
  Pad,        \* sizeof(t_data) + 1, what Reset leaves free above the stack
  Programs,   \* a function from program names to sequences of bytes
  HostIrqs,   \* interrupts raised from outside
  MaxIrqs     \* bound on how often they are

VARIABLES
  prog,       \* the name of the program
  codeEnd,    \* m_code_range[1]; the code is loaded at address 0
  ip, sp, bp, \* m_ip, m_sp, m_bp
  mem,        \* m_mem
  status,     \* "running", or how the run ended
  isrs,       \* m_isrs, a function on the interrupts that have a routine
  irqs,       \* m_irqs, the set of raised flags
  raised,     \* number of interrupts raised so far
  calls       \* history: the activations that have not returned

regs == <<ip, sp, bp>>
vars == <<prog, codeEnd, ip, sp, bp, mem, status, isrs, irqs, raised, calls>>

ASSUME VMAssumption ==
  /\ MemSize \in Nat /\ Pad \in Nat \ {0} /\ MaxIrqs \in Nat
  /\ MemSize < 2 ^ (AddrBits - 1)
  /\ \A p \in DOMAIN Programs :
       /\ Programs[p] \in Seq(Range(Programs[p]))
       /\ Len(Programs[p]) \in 1 .. MemSize - Pad
       /\ \A b \in Range(Programs[p]) : IsByte(b)

Addresses == 0 .. MemSize - 1

\* Reset fills the memory with HALT, which is a zero byte.
Zero == <<"op", "HALT", 1>>

InitialSP == MemSize - Pad

\* Faulty variant: the global variables are addressed from the end of the code.
CodeBased == codeEnd

gbp == MemSize

Ok == <<"ok", 0>>

\* What follows from a value that was read: a failure is passed on.
Then(x, F(_)) == IF x \in Bad THEN x ELSE F(x)

-----------------------------------------------------------------------------
(* Reading memory.                                                         *)

\* CheckMemoryBounds
InBounds(a, n) == a >= 0 /\ a + n \in 0 .. MemSize

\* ReadMemRaw: the payload of the item of a kind at address a, as <<kind,
\* payload>>.  A zero byte is no valid type descriptor.
Raw(a, kind) ==
  LET n == RawSize[kind]
  IN IF ~InBounds(a, n) \/ (kind = "type" /\ mem[a] = Zero) THEN Throws
     ELSE IF \A k \in 1 .. n : mem[a + k - 1] = <<kind, mem[a][2], k>>
       THEN <<kind, mem[a][2]>> ELSE Undefined

\* The payload of an element or of a scalar value.
ElemAt(a, type) ==
  LET kind == RawKind[type]
      items == {Raw(a + k * RawSize[kind], kind) : k \in 0 .. RawCount[type] - 1}
  IN IF Throws \in items THEN Throws ELSE IF Undefined \in items THEN Undefined
     ELSE CHOOSE x \in items : TRUE

\* The n elements of a string or array whose first is at address a.
ElemsAt(a, n, type) ==
  LET elems == [i \in 1 .. n |-> ElemAt(a + (i - 1) * ElemSize(type), ElemType(type))]
  IN IF ~InBounds(a, n * ElemSize(type)) THEN Throws
     ELSE IF n < 0 \/ Undefined \in Range(elems) THEN Undefined
     ELSE <<type, [i \in 1 .. n |-> elems[i][2]]>>

\* ReadMemData, and what PopData finds at the stack pointer.
DataAt(a) ==
  Then(Raw(a, "type"), LAMBDA desc :
    IF desc[2] = "UNKNOWN" THEN Throws
    ELSE IF desc[2] \in AddrTypes
      THEN Then(Raw(a + 1, "addr"), LAMBDA addr : <<desc[2], addr[2]>>)
    ELSE IF IsSequence(desc[2])
      THEN Then(Raw(a + 1, "addr"), LAMBDA len :
             ElemsAt(a + 1 + AddrSize, len[2], desc[2]))
    ELSE Then(ElemAt(a + 1, desc[2]), LAMBDA elem : <<desc[2], elem[2]>>))

\* The value v, of one of the accepted types, is popped off p.
PopValue(p, v, accepted) ==
  IF v \in Bad THEN [p EXCEPT !.bad = v]
  ELSE IF v[1] \notin accepted THEN [p EXCEPT !.bad = Throws]
  ELSE [p EXCEPT !.vals = Append(@, v), !.sp = @ + Size(v)]

\* Values are popped from address a on, the i-th being of one of types[i], as
\* long as the stack pointer is below "floor".
PopNext(p, accepted, floor) ==
  IF p.bad # Ok \/ p.sp >= floor THEN p ELSE PopValue(p, DataAt(p.sp), accepted)
Popped(a, types, floor) ==
  LET pop[n \in 0 .. Len(types)] ==
        IF n = 0 THEN [vals |-> <<>>, sp |-> a, bad |-> Ok]
        ELSE PopNext(pop[n - 1], types[n], floor)
  IN pop[Len(types)]

\* The operands of an instruction, types[1] being what is accepted on top, and
\* a value in memory.
Operands(types) == Popped(sp, types, MemSize + 1)
ReadAt(a, accepted) == Popped(a, <<accepted>>, a + 1)

\* PopAddress: the base register is added.  m_ip has been advanced by the
\* fetch, m_sp by the pop, base is m_bp.
Resolve(v, next, top, base) ==
  v[2] + CASE v[1] = "ADDR_MEM" -> 0 [] v[1] = "ADDR_IP" -> next
           [] v[1] = "ADDR_SP" -> top [] v[1] = "ADDR_BP" -> base
           [] v[1] = "ADDR_GBP" -> gbp

-----------------------------------------------------------------------------
(* Writing memory.                                                         *)

Overlay(m, a, bytes) ==
  [x \in Addresses |-> IF x - a + 1 \in DOMAIN bytes THEN bytes[x - a + 1] ELSE m[x]]

\* PushData and PushAddress.  Elements of arrays and parts of complex numbers
\* are checked downwards, single items upwards, from the pointer they are
\* pushed at: a single item may be written below the memory.
PushOutcome(top, v) ==
  LET block == IF IsSequence(v[1]) THEN Size(v) - 1 - AddrSize
               ELSE IF v[1] \in {"CPLX", "QUAT"} THEN Size(v) - 1 ELSE 0
      single == IF IsSequence(v[1]) THEN AddrSize
                ELSE IF v[1] \in {"CPLX", "QUAT"} THEN 1 ELSE Size(v) - 1
  IN IF top - block < 0 \/ top - block + single > MemSize THEN Throws
     ELSE IF top - Size(v) < 0 THEN Undefined ELSE Ok

\* Faulty variant: the value is written one byte too low.
PushLow(s, v, outcome) ==
  IF outcome # Ok THEN [s EXCEPT !.bad = outcome]
  ELSE [s EXCEPT !.sp = @ - Size(v), !.mem = Overlay(@, s.sp - Size(v) - 1, Encode(v))]

\* The value v is pushed on s, if the outcome of that is Ok.
PushValue(s, v, outcome) ==
  IF outcome # Ok THEN [s EXCEPT !.bad = outcome]
  ELSE [s EXCEPT !.sp = @ - Size(v), !.mem = Overlay(@, s.sp - Size(v), Encode(v))]

\* The memory m and the stack pointer after pushing the values vs in turn.
Moved(m, top) == [mem |-> m, sp |-> top, bad |-> Ok]
PushNext(s, v) == IF s.bad # Ok THEN s ELSE PushValue(s, v, PushOutcome(s.sp, v))
PushedOn(m, top, vs) ==
  LET push[n \in 0 .. Len(vs)] ==
        IF n = 0 THEN Moved(m, top) ELSE PushNext(push[n - 1], vs[n])
  IN push[Len(vs)]
Pushed(top, vs) == PushedOn(mem, top, vs)

\* A value that is returned or pushed without its type: the descriptor of an
\* address is lost (PushData with VMType::UNKNOWN).
Untyped(v) == IF v[1] \in AddrTypes THEN <<"UNKNOWN", v[2]>> ELSE v

-----------------------------------------------------------------------------
(* The main loop.                                                          *)

\* Faulty variant: the stack pointer is not checked.
StackUnchecked ==
  /\ ip \in 0 .. codeEnd - 1
  /\ {bp, gbp} \subseteq codeEnd .. MemSize

\* CheckPointerBounds
PointersInBounds ==
  /\ ip \in 0 .. codeEnd - 1
  /\ {sp, bp, gbp} \subseteq codeEnd .. MemSize

\* An iteration of the loop starts.
Looping == status = "running" /\ PointersInBounds

Pending == irqs \cap DOMAIN isrs

\* No interrupt has a routine: flags without one are dropped, and the next
\* instruction is fetched.
Fetch(ops) ==
  /\ Looping /\ Pending = {}
  /\ mem[ip][1] = "op" /\ mem[ip][2] \in ops
  /\ irqs' = {}

opcode == mem[ip][2]
next == ip + 1

env == <<prog, codeEnd, raised>>

\* The run ends: b[1] says how.
Fail(b) == status' = b[1] /\ UNCHANGED <<env, regs, mem, isrs, calls>>

\* An instruction goes on with what it has read or written, or the exception
\* ends the run.  The quantifier names what p is, so that TLC evaluates it once.
With(p, A(_)) == \E q \in {p} : IF q.bad # Ok THEN Fail(q.bad) ELSE A(q)

\* Faulty variant: no wrap-around.
RunOff(addr) == ip' = addr

\* Instructions go on at ip, wrapping around at the end of memory.
GoTo(addr) == ip' = IF addr >= MemSize THEN addr % MemSize ELSE addr

\* The instruction has left memory and stack pointer as in s.
Continue(s, addr) ==
  With(s, LAMBDA t :
    /\ mem' = t.mem /\ sp' = t.sp /\ GoTo(addr)
    /\ UNCHANGED <<env, bp, status, isrs, calls>>)

-----------------------------------------------------------------------------
(* Instructions that pop operands and push one result.                     *)

AnyType == DataTypes \cup AddrTypes
ArithOps == {"ADD", "SUB", "MUL", "DIV", "MOD", "POW"}
CompareOps == {"GT", "LT", "GEQU", "LEQU", "EQU", "NEQU"}
LogicOps == {"AND", "OR", "XOR"}
BinaryOps == {"BINAND", "BINOR", "BINXOR", "SHL", "SHR", "ROTL", "ROTR"}
CastTo == [TOR |-> "REAL", TOI |-> "INT", TOC |-> "CPLX", TOQ |-> "QUAT",
           TOB |-> "BOOL", TOS |-> "STR"]
CastToArr == [TOREALARR |-> "REALARR", TOINTARR |-> "INTARR",
              TOCPLXARR |-> "CPLXARR", TOQUATARR |-> "QUATARR"]

ComputeOps == {"USUB", "NOT", "BINNOT", "RDARR", "RDARRR", "MATMUL"}
  \cup ArithOps \cup CompareOps \cup LogicOps \cup BinaryOps
  \cup DOMAIN CastTo \cup DOMAIN CastToArr

\* What is popped, the top of the stack first.
OperandTypes(op) ==
  CASE op \in {"USUB", "BINNOT"} \cup DOMAIN CastTo -> <<AnyType>>
    [] op = "NOT" -> <<{"BOOL", "INT"}>>
    [] op \in LogicOps -> <<{"BOOL", "INT"}, {"BOOL", "INT"}>>
    [] op \in ArithOps \cup CompareOps \cup BinaryOps -> <<AnyType, AnyType>>
    [] op \in DOMAIN CastToArr -> <<AddrTypes, AnyType>>
    [] op = "RDARR" -> <<{"INT"}, AnyType>>
    [] op = "RDARRR" -> <<{"INT"}, {"INT"}, AnyType>>
    [] op = "MATMUL" -> <<{"INT"}, {"INT"}, {"INT"}, {"INT"}, AnyType, AnyType>>

\* The possible results for the operands v; top is the stack pointer after the
\* first of them.
Results(op, v, top) ==
  CASE op = "USUB" -> {Negate(v[1])}
    [] op = "NOT" -> {BoolVal(~Truth(v[1]))}
    [] op = "BINNOT" -> {IF v[1][1] = "INT" THEN IntVal(-v[1][2] - 1) ELSE Throws}
    [] op \in ArithOps -> {Arith(op, v[2], v[1])}
    [] op \in CompareOps -> Compare(op, v[2], v[1])
    [] op \in LogicOps -> {Logic(op, v[2], v[1])}
    [] op \in BinaryOps -> {Binary(op, v[2], v[1])}
    [] op \in DOMAIN CastTo -> Cast(CastTo[op], v[1])
    [] op \in DOMAIN CastToArr ->
         CastToArray(CastToArr[op], v[2], Resolve(v[1], next, top, bp))
    [] op = "RDARR" -> {ReadElem(v[2], v[1][2])}
    [] op = "RDARRR" -> {ReadRange(v[3], v[2][2], v[1][2])}
    [] op = "MATMUL" -> {MatMul(v[6], v[5], v[4][2], v[3][2], v[2][2], v[1][2])}

Compute ==
  /\ Fetch(ComputeOps)
  /\ With(Operands(OperandTypes(opcode)), LAMBDA p :
       \E r \in Results(opcode, p.vals, sp + Size(p.vals[1])) :
         IF r \in Bad THEN Fail(r) ELSE Continue(Pushed(p.sp, <<r>>), next))

\* MAKEREALARR etc.: the elements were pushed first to last, then their number.
MakeOps == [MAKEREALARR |-> "REALARR", MAKEINTARR |-> "INTARR",
            MAKECPLXARR |-> "CPLXARR", MAKEQUATARR |-> "QUATARR"]
MakeFrom(top, n, type) ==
  IF n < 0 THEN Fail(Throws)
  ELSE With(Popped(top, Copies(n, {Elem[type]}), MemSize + 1), LAMBDA p :
         LET arr == <<type, [i \in 1 .. n |-> p.vals[n - i + 1][2]]>>
         IN Continue(Pushed(p.sp, <<arr>>), next))
MakeArr ==
  /\ Fetch(DOMAIN MakeOps)
  /\ With(Operands(<<AddrTypes>>), LAMBDA p :
       MakeFrom(p.sp, Resolve(p.vals[1], next, p.sp, bp), MakeOps[opcode]))

-----------------------------------------------------------------------------
(* Instructions that access memory.                                        *)

\* PUSH: the data follows the opcode.  GetDataSize does not know arrays.
Push ==
  /\ Fetch({"PUSH"})
  /\ With(ReadAt(next, AnyType \ ArrayTypes), LAMBDA data :
       Continue(Pushed(sp, data.vals), data.sp))

\* RDMEM
RdMem ==
  /\ Fetch({"RDMEM"})
  /\ With(Operands(<<AddrTypes>>), LAMBDA p :
       With(ReadAt(Resolve(p.vals[1], next, p.sp, bp), AnyType), LAMBDA data :
         Continue(Pushed(p.sp, data.vals), next)))

\* WRMEM: the data is written with its type and its length over whatever was
\* there.  Addresses cannot be written.
Write(a, v, top) ==
  IF v[1] \in AddrTypes \/ ~InBounds(a, Size(v)) THEN Fail(Throws)
  ELSE Continue(Moved(Overlay(mem, a, Encode(v)), top), next)
WrMem ==
  /\ Fetch({"WRMEM"})
  /\ With(Operands(<<AddrTypes, AnyType>>), LAMBDA p :
       Write(Resolve(p.vals[1], next, sp + Size(p.vals[1]), bp), p.vals[2], p.sp))

\* Writes the elements xs at the positions, all different, of an array or string
\* that has its first element at "first".
WithElems(first, type, positions, xs) ==
  LET size == ElemSize(type)
      Offset(x, i) == x - first - positions[i] * size
      At(x) == {i \in DOMAIN xs : Offset(x, i) \in 0 .. size - 1}
  IN [x \in Addresses |-> IF At(x) = {} THEN mem[x]
                          ELSE LET i == CHOOSE i \in At(x) : TRUE
                               IN ElemByte(ElemType(type), xs[i], Offset(x, i))]

\* What WRARR and WRARRR store into an array or string of a type and length n: idx
\* are the operands above the data, which become addresses first (safe_array_index
\* <t_addr>).  A scalar may fill a range.
Positions(idx, n) ==
  IF Len(idx) = 1 THEN <<SafeIndex(ToAddr(idx[1][2]), n)>>
  ELSE IndexRange(ToAddr(idx[2][2]), ToAddr(idx[1][2]), n)
IsWhole(idx, data, type) == Len(idx) = 2 /\ data[1] = type
NewElems(idx, data, type, n) ==
  [i \in DOMAIN Positions(idx, n) |->
     IF IsWhole(idx, data, type) THEN data[2][i] ELSE data[2]]

StoreElems(idx, data, a) ==
  LET desc == Raw(a, "type")
      type == desc[2]
      len == Raw(a + 1, "addr")
      n == len[2]
      positions == Positions(idx, n)
      whole == IsWhole(idx, data, type)
      scalar == type \in ArrayTypes /\ data[1] = Elem[type]
      xs == NewElems(idx, data, type, n)
      first == a + 1 + AddrSize
  IN CASE desc \in Bad -> [Moved(mem, sp) EXCEPT !.bad = desc]
       [] desc \notin Bad /\ (~(whole \/ scalar)
                              \/ ~IsSequence(type) \/ len = Throws) ->
            [Moved(mem, sp) EXCEPT !.bad = Throws]
       [] desc \notin Bad /\ (whole \/ scalar) /\ IsSequence(type) /\ len # Throws ->
            IF len = Undefined \/ n <= 0
              THEN [Moved(mem, sp) EXCEPT !.bad = Undefined]
            ELSE IF \/ whole /\ Len(positions) > Len(data[2])
                    \/ \E i \in DOMAIN positions :
                         ~InBounds(first + positions[i] * ElemSize(type), ElemSize(type))
              THEN [Moved(mem, sp) EXCEPT !.bad = Throws]
            ELSE Moved(WithElems(first, type, positions, xs), sp)

\* The operands with k indices: those, the data and the address of the array.
ArrayOperands(k) == Operands(Copies(k, {"INT"}) \o <<AnyType, AddrTypes>>)
ArrayAddr(k, p) == Resolve(p.vals[k + 2], next, p.sp, bp)

WrArr ==
  /\ Fetch({"WRARR", "WRARRR"})
  /\ LET k == IF opcode = "WRARR" THEN 1 ELSE 2
     IN With(ArrayOperands(k), LAMBDA p :
          With(StoreElems(SubSeq(p.vals, 1, k), p.vals[k + 1], ArrayAddr(k, p)), LAMBDA s :
            Continue(Moved(s.mem, p.sp), next)))

-----------------------------------------------------------------------------
(* Control flow.                                                           *)

Nop == Fetch({"NOP"}) /\ Continue(Moved(mem, sp), next)

Jmp ==
  /\ Fetch({"JMP"})
  /\ With(Operands(<<AddrTypes>>), LAMBDA p :
       Continue(Moved(mem, p.sp), Resolve(p.vals[1], next, p.sp, bp)))

\* The address a jump with a condition goes to.
Target(p) == Resolve(p.vals[1], next, sp + Size(p.vals[1]), bp)

\* Faulty variant: the jump is taken when the condition does not hold.
JmpUnless ==
  /\ Fetch({"JMPCND"})
  /\ With(Operands(<<AddrTypes, {"BOOL", "INT"}>>), LAMBDA p :
       Continue(Moved(mem, p.sp), IF Truth(p.vals[2]) THEN next ELSE Target(p)))

JmpCnd ==
  /\ Fetch({"JMPCND"})
  /\ With(Operands(<<AddrTypes, {"BOOL", "INT"}>>), LAMBDA p :
       Continue(Moved(mem, p.sp), IF Truth(p.vals[2]) THEN Target(p) ELSE next))

\* Faulty variant: the frame pointer is set, but no room is made for locals.
MakeFrameless(s, target, framesize, ret) ==
  /\ mem' = s.mem
  /\ bp' = s.sp
  /\ sp' = s.sp
  /\ GoTo(target)
  /\ calls' = Append(calls, [frame |-> s.sp, size |-> framesize,
                             ret |-> ret, bp |-> bp])
  /\ UNCHANGED <<env, status, isrs>>

\* A function's frame is made below the saved registers at s.sp.
MakeFrame(s, target, framesize, ret) ==
  /\ mem' = s.mem
  /\ bp' = s.sp
  /\ sp' = ToAddr(s.sp - framesize)
  /\ GoTo(target)
  /\ calls' = Append(calls, [frame |-> s.sp, size |-> framesize,
                             ret |-> ret, bp |-> bp])
  /\ UNCHANGED <<env, status, isrs>>

\* Faulty variant: the saved registers are swapped.
EnterSwapped(m, target, framesize, top, ret) ==
  With(PushedOn(m, top, <<<<"ADDR_MEM", bp>>, <<"ADDR_MEM", ret>>>>), LAMBDA s :
    MakeFrame(s, target, framesize, ret))

\* CALL with the function's address "target" and the frame size popped off the
\* stack, which now ends at top, in memory m: the return address and the base
\* pointer are saved, and the frame is made below them.
Enter(m, target, framesize, top, ret) ==
  With(PushedOn(m, top, <<<<"ADDR_MEM", ret>>, <<"ADDR_MEM", bp>>>>), LAMBDA s :
    MakeFrame(s, target, framesize, ret))

Call ==
  /\ Fetch({"CALL"})
  /\ With(Operands(<<AddrTypes, {"INT"}>>), LAMBDA p :
       Enter(mem, Target(p), p.vals[2][2], p.sp, next))

\* An interrupt is served in place of a fetch: the address of its routine is
\* pushed and CALL is executed, which pops that address and finds its frame size
\* above it.  What CALL saves need not cover all bytes of the address.  Flags up
\* to the one served have been cleared.
CallISR ==
  /\ Looping /\ Pending # {}
  /\ LET irq == CHOOSE n \in Pending : \A k \in Pending : n <= k
     IN /\ irqs' = {n \in irqs : n > irq}
        /\ With(Pushed(sp, <<<<"ADDR_MEM", isrs[irq]>>>>), LAMBDA s :
             With(Operands(<<{"INT"}>>), LAMBDA p :
               Enter(s.mem, isrs[irq], p.vals[1][2], p.sp, ip)))

\* RET: the number of arguments and the frame size are popped, what else is on
\* the stack above the frame are the results.  The saved registers and the
\* arguments are popped, and the results pushed, the last value first.
Ret ==
  /\ Fetch({"RET"})
  /\ With(Operands(<<{"INT"}, {"INT"}>>), LAMBDA o :
     With(Popped(o.sp, Copies(bp - o.sp, AnyType), bp - o.vals[2][2]), LAMBDA r :
     With(Popped(bp, Copies(2, AddrTypes), MemSize + 1), LAMBDA b :
     With(Popped(b.sp, Copies(o.vals[1][2], AnyType), MemSize + 1), LAMBDA a :
     With(Pushed(a.sp, [i \in DOMAIN r.vals |-> Untyped(r.vals[i])]), LAMBDA s :
       LET oldbp == Resolve(b.vals[1], next, bp + 1 + AddrSize, bp)
       IN /\ mem' = s.mem
          /\ sp' = s.sp
          /\ bp' = oldbp
          /\ GoTo(Resolve(b.vals[2], next, b.sp, oldbp))
          /\ calls' = SubSeq(calls, 1, Len(calls) - 1)
          /\ UNCHANGED <<env, status, isrs>>)))))

\* ADDFRAME and REMFRAME
Frame ==
  /\ Fetch({"ADDFRAME", "REMFRAME"})
  /\ With(Operands(<<{"INT"}>>), LAMBDA p :
       LET n == p.vals[1][2]
           top == IF opcode = "ADDFRAME" THEN p.sp - n ELSE p.sp + n
       IN Continue(Moved(mem, ToAddr(top)), next))

Halt ==
  /\ Fetch({"HALT"})
  /\ status' = "halted"
  /\ UNCHANGED <<env, regs, mem, isrs, calls>>

OpCodes == {"HALT", "NOP", "PUSH", "WRMEM", "RDMEM", "JMP", "JMPCND", "CALL",
            "RET", "EXTCALL", "ADDFRAME", "REMFRAME", "WRARR", "WRARRR"}
           \cup ComputeOps \cup DOMAIN MakeOps

\* An unknown opcode ends Run.  The byte of an item of data is one of many.
Invalid ==
  /\ Looping /\ Pending = {}
  /\ ~(mem[ip][1] = "op" /\ mem[ip][2] \in OpCodes)
  /\ irqs' = {}
  /\ status' = IF mem[ip][1] = "op" THEN "invalid" ELSE "undefined"
  /\ UNCHANGED <<env, regs, mem, isrs, calls>>

\* CheckPointerBounds throws.
PointerFault ==
  /\ status = "running" /\ ~PointersInBounds
  /\ Fail(Throws)
  /\ UNCHANGED irqs

-----------------------------------------------------------------------------
(* External functions (CallExternal).  A function's name is a string of    *)
(* one character here.                                                     *)

NumInterrupts == 16

RealFunctions == {"sqrt", "sin", "cos", "tan", "set_eps"}
IntFunctions == {"set_prec", "sleep", "set_timer", "set_debug"}
TextFunctions == {"to_string", "strlen", "write", "write_no_cr", "read_real",
                  "read_integer"}

\* What a function pops.  Names that are not known do nothing.
ExtArgs(name) ==
  CASE name \in {"abs", "fabs", "norm"} \cup RealFunctions \cup IntFunctions
                \cup TextFunctions -> <<AnyType>>
    [] name = "pow" -> <<AnyType, AnyType>>
    [] name = "set_isr" -> <<AnyType, AddrTypes>>
    [] OTHER -> <<>>

\* The types that a function converts its arguments to; abs, fabs and norm take
\* theirs as they are.
Converts(name) ==
  CASE name \in RealFunctions -> <<"REAL">>
    [] name = "pow" -> <<"REAL", "REAL">>
    [] name \in IntFunctions \cup {"set_isr"} -> <<"INT">>
    [] name \in TextFunctions -> <<"STR">>
    [] OTHER -> <<>>

\* OpCast, then std::get: what an argument may become.
Casted(type, v) == {IF c[1] = type THEN c ELSE Throws : c \in Cast(type, v)}

\* What the arguments v may become.
Conversions(name, v) ==
  LET types == Converts(name)
      some == UNION {Casted(types[i], v[i]) : i \in DOMAIN types}
  IN {c \in [DOMAIN types -> some] : \A i \in DOMAIN types : c[i] \in Casted(types[i], v[i])}

\* OpCast replaces the argument v that ends below address "end" by c, on the stack:
\* the argument is popped and c pushed, unless it has the type already.
Recast(s, v, c, end) ==
  IF s.bad # Ok \/ c[1] = v[1] THEN s
  ELSE IF c \in Bad THEN [s EXCEPT !.bad = c]
  ELSE PushNext([s EXCEPT !.sp = end], c)

\* Where argument i ends, if the arguments v start at address a.
ArgEnd(a, v, i) == a + Size(v[1]) + IF i = 1 THEN 0 ELSE Size(v[2])

\* Memory and stack pointer after each of the arguments has become one of c.
Convert(a, v, c) ==
  LET one == IF c = <<>> THEN Moved(mem, a)
             ELSE Recast(Moved(mem, a), v[1], c[1], ArgEnd(a, v, 1))
  IN IF Len(c) < 2 THEN one ELSE Recast(one, v[2], c[2], ArgEnd(a, v, 2))

\* abs of an integer asks the variant for a real number.
Absolute(v) ==
  CASE v[1] \in {"REAL", "REALARR"} -> <<Number("REAL")>>
    [] v[1] = "INT" -> Throws
    [] OTHER -> <<Untyped(v)>>

\* The possible results of a function for the arguments v, converted to c: the
\* values pushed, or how it fails.
ExtResults(name, v, c) ==
  CASE name \in {"abs", "fabs", "norm"} -> {Absolute(v[1])}
    [] name \in (RealFunctions \ {"set_eps"}) \cup {"pow", "get_eps", "read_real"} ->
         {<<Number("REAL")>>}
    [] name = "strlen" -> {<<IntVal(Len(c[1][2]))>>}
    [] name = "read_integer" -> {<<IntVal(n)>> : n \in SomeInts}
    [] OTHER -> {<<>>}

\* What the compiler is told of these functions (add_ext_funcs, common/
\* ext_funcs.h): the types of the arguments and of the result, if any.
Declared ==
  [f \in {"pow", "exp", "sin", "cos", "sqrt", "fabs", "strlen", "set_debug",
          "sleep", "set_timer", "set_eps", "get_eps", "write", "write_no_cr",
          "read_real", "read_integer", "real_to_string", "integer_to_string"} |->
     [args |-> CASE f = "pow" -> <<"REAL", "REAL">>
                 [] f \in {"exp", "sin", "cos", "sqrt", "fabs", "set_eps"} -> <<"REAL">>
                 [] f \in {"strlen", "write", "write_no_cr", "read_real",
                           "read_integer"} -> <<"STR">>
                 [] f \in {"set_debug", "sleep", "set_timer"} -> <<"INT">>
                 [] f = "get_eps" -> <<>>
                 [] f = "real_to_string" -> <<"REAL", "STR", "INT">>
                 [] f = "integer_to_string" -> <<"INT", "STR", "INT">>,
      result |-> CASE f \in {"pow", "exp", "sin", "cos", "sqrt", "fabs", "get_eps",
                             "read_real"} -> <<"REAL">>
                   [] f \in {"strlen", "read_integer"} -> <<"INT">>
                   [] OTHER -> <<>>]]

\* set_isr: indexing the array of routines outside of its bounds is undefined.
SetISR(num, addr, m, top) ==
  IF num \notin 0 .. NumInterrupts - 1 THEN Fail(Undefined)
  ELSE /\ isrs' = [n \in DOMAIN isrs \cup {num} |-> IF n = num THEN addr ELSE isrs[n]]
       /\ mem' = m /\ sp' = top
       /\ GoTo(next)
       /\ UNCHANGED <<env, bp, status, calls>>

\* Faulty variant: the arguments are converted, but left on the stack.
LeaveArgs(name, p, c, s) ==
  \E r \in ExtResults(name, p.vals, c) :
    IF r \in Bad THEN Fail(r) ELSE Continue(PushedOn(s.mem, s.sp, r), next)

\* CallExternal: the arguments p.vals, which start at address a, are converted and
\* popped, and the result is pushed; to_string leaves its argument on the stack.
Answer(name, p, c, s) ==
  CASE name = "set_isr" ->
         SetISR(ToAddr(c[1][2]), Resolve(p.vals[2], next, p.sp, bp), s.mem, p.sp)
    [] name = "to_string" -> Continue(s, next)
    [] OTHER -> \E r \in ExtResults(name, p.vals, c) :
         IF r \in Bad THEN Fail(r) ELSE Continue(PushedOn(s.mem, p.sp, r), next)
CallExternal(name, a, p) ==
  \E c \in Conversions(name, p.vals) :
    With(Convert(a, p.vals, c), LAMBDA s : Answer(name, p, c, s))

\* EXTCALL
ExtCall ==
  /\ Fetch({"EXTCALL"})
  /\ With(Operands(<<{"STR"}>>), LAMBDA f :
       LET name == f.vals[1][2][1]
       IN With(Popped(f.sp, ExtArgs(name), MemSize + 1), LAMBDA p :
            CallExternal(name, f.sp, p)))

-----------------------------------------------------------------------------
(* The embedding program or the timer thread raises an interrupt between   *)
(* two instructions (see module VMTimer for the scan of the flags).        *)
RequestInterrupt ==
  /\ status = "running" /\ raised < MaxIrqs
  /\ \E n \in HostIrqs : irqs' = irqs \cup {n}
  /\ raised' = raised + 1
  /\ UNCHANGED <<prog, codeEnd, regs, mem, status, isrs, calls>>

Stopped == status # "running" /\ UNCHANGED vars

\* Reset, and the program loaded at address 0 by SetMem.
Init ==
  /\ prog \in DOMAIN Programs
  /\ ip = 0 /\ sp = InitialSP /\ bp = MemSize
  /\ \E code \in {Programs[prog]} :
        /\ codeEnd = Len(code)
        /\ mem = [a \in Addresses |-> IF a < Len(code) THEN code[a + 1] ELSE Zero]
  /\ status = "running"
  /\ isrs = <<>> /\ irqs = {} /\ raised = 0
  /\ calls = <<>>

Run == \/ Compute \/ MakeArr \/ Push \/ RdMem \/ WrMem \/ WrArr \/ Nop \/ Jmp
       \/ JmpCnd \/ Call \/ CallISR \/ Ret \/ Frame \/ Halt \/ Invalid
       \/ PointerFault \/ ExtCall

Next == Run \/ RequestInterrupt \/ Stopped

Spec == Init /\ [][Next]_vars

\* The machine goes on with Run as long as it can, which is as long as it is
\* running: this is WF_vars(Run), written without ENABLED.
FairSpec == Spec /\ ([]<>(status # "running") \/ []<><<Run>>_vars)

-----------------------------------------------------------------------------
Statuses == {"running", "halted", "invalid", "throws", "undefined"}

TypeOK ==
  /\ prog \in DOMAIN Programs /\ codeEnd \in Nat
  /\ {ip, sp, bp} \subseteq Int /\ ip < MemSize
  /\ DOMAIN mem = Addresses
  /\ status \in Statuses
  /\ DOMAIN isrs \subseteq 0 .. NumInterrupts - 1
  /\ irqs \subseteq HostIrqs
  /\ raised \in 0 .. MaxIrqs
  /\ \A i \in DOMAIN calls : calls[i].frame \in Addresses

\* The frames of the activations that have not returned are linked in memory:
\* whatever the functions did to their locals and their stacks, each frame
\* still holds the base pointer and the return address its CALL saved.
FrameChain ==
  status = "running" =>
    LET Base(i) == IF i = 0 THEN MemSize ELSE calls[i].frame
    IN /\ bp = Base(Len(calls))
       /\ \A i \in DOMAIN calls :
            /\ DataAt(calls[i].frame) = <<"ADDR_MEM", Base(i - 1)>>
            /\ DataAt(calls[i].frame + 1 + AddrSize) = <<"ADDR_MEM", calls[i].ret>>

\* The values of expressions stay below the local variables of the running
\* function.
StackBelowFrame ==
  status = "running" /\ calls # <<>> =>
    sp <= Last(calls).frame - Last(calls).size

\* An exhausted stack never lets overwritten code run: however a recursion, the
\* frames and the values that are pushed use up the stack, whenever the loop
\* fetches, the program is the one that was loaded.
CodeIntact ==
  LET code == Programs[prog]
  IN Looping => \A a \in 0 .. codeEnd - 1 : mem[a] = code[a + 1]

\* What the machine writes below the stack and pops again: the address of the
\* routine of an interrupt it serves, and each argument of an external function
\* that is converted, as long as what it becomes (VM::Run, VM::OpCast).
InScratch(a) ==
  \/ Pending # {} /\ a \in sp - (1 + AddrSize) .. sp - 1
  \/ /\ Pending = {} /\ opcode = "EXTCALL"
     /\ \E f \in {Operands(<<{"STR"}>>)} :
          LET name == f.vals[1][2][1]
          IN \E p \in {Popped(f.sp, ExtArgs(name), MemSize + 1)} :
             \E c \in Conversions(name, p.vals) : \E i \in DOMAIN c :
               LET end == ArgEnd(f.sp, p.vals, i) IN a \in end - Size(c[i]) .. end - 1

\* An instruction that stores nothing writes only what it pushes: no memory below
\* the stack pointer it leaves or, for a CALL, below the frame pointer, except
\* where it converts an argument or serves an interrupt.
KeepsBelow ==
  \A a \in Addresses :
    mem'[a] # mem[a] =>
      a >= (IF Len(calls') > Len(calls) THEN bp' ELSE sp') \/ InScratch(a)
OnlyPushes == [][WrMem \/ WrArr \/ KeepsBelow]_vars

\* The program never stores over its own code, nor lets the machine convert an
\* argument or serve an interrupt so close to its code that this overwrites it,
\* unless the stack is found to be exhausted after that (CheckPointerBounds).
OffCode ==
  \A a \in 0 .. codeEnd - 1 :
    mem'[a] # mem[a] => ~(WrMem \/ WrArr) /\ ~(InScratch(a) /\ PointersInBounds')
StoresOffCode == [][OffCode]_vars

\* No store and no value that is pushed reaches the registers which the
\* activations that do not return have saved.
KeepsFrames ==
  \A i \in DOMAIN calls :
    i <= Len(calls') =>
      \A k \in 0 .. 2 * (1 + AddrSize) - 1 :
        mem'[calls[i].frame + k] = mem[calls[i].frame + k]
FramesKept == [][KeepsFrames]_vars

\* RET goes on after the CALL that made the activation, with its base pointer.
ReturnsToCaller ==
  [][Len(calls') < Len(calls) =>
       ip' = Last(calls).ret /\ bp' = Last(calls).bp]_vars

\* The machine implements an abstract stack of calls, which is what memory holds:
\* the return address and the base pointer that each activation has saved are
\* what the machine is to go back to, however its callees and the interrupts in
\* between use the stack (OpCode::CALL and OpCode::RET in VM::Run).
Saved(i) == [ret |-> DataAt(calls[i].frame + 1 + AddrSize)[2],
             base |-> DataAt(calls[i].frame)[2]]
Abstract == INSTANCE CallStack WITH
  Top <- MemSize, stack <- [i \in DOMAIN calls |-> Saved(i)],
  base <- bp, here <- ip
ImplementsCalls == Abstract!Spec

\* The step writes one value, and no other memory: v can be read at address a.
Holds(a, v) ==
  /\ \A x \in {a} : DataAt(x)' = <<v[1], v[2]>>
  /\ \A x \in Addresses \ (a .. a + Size(v) - 1) : mem'[x] = mem[x]

\* The step replaces what was on the stack up to address a by the value v.
OnTop(a, v) == sp' = a - Size(v) /\ Holds(sp', v)

\* Values arrive as they were: what PUSH, RDMEM and operators bring to the stack,
\* and WRMEM to memory, can be read there, whatever was there before, and the
\* rest of the stack and of the memory is untouched.
Arrive ==
  status' = "running" =>
    /\ Push => OnTop(sp, DataAt(next))
    /\ RdMem => \E p \in {Operands(<<AddrTypes>>)} :
         OnTop(p.sp, DataAt(Resolve(p.vals[1], next, p.sp, bp)))
    /\ Compute => \E p \in {Operands(OperandTypes(opcode))} :
         \E r \in Results(opcode, p.vals, sp + Size(p.vals[1])) : OnTop(p.sp, r)
    /\ WrMem => \E p \in {Operands(<<AddrTypes, AnyType>>)} :
         /\ sp' = p.sp
         /\ Holds(Resolve(p.vals[1], next, sp + Size(p.vals[1]), bp), p.vals[2])
ValuesArrive == [][Arrive]_vars

\* The array or string v with other elements at some positions.
Updated(v, positions, xs) ==
  <<v[1], [j \in DOMAIN v[2] |->
             IF \E i \in DOMAIN positions : positions[i] = j - 1
               THEN xs[CHOOSE i \in DOMAIN positions : positions[i] = j - 1]
               ELSE v[2][j]]>>

\* WRARR and WRARRR replace the elements that their indices, narrowed to addresses,
\* name, whatever the indices and the type of the array: no memory outside its
\* elements changes, and the array that is read afterwards has the other elements
\* as before.
ElementsOnly ==
  WrArr /\ status' = "running" =>
    LET k == IF opcode = "WRARR" THEN 1 ELSE 2
    IN \E p \in {ArrayOperands(k)} :
         LET a == ArrayAddr(k, p)
             type == Raw(a, "type")[2]
             n == Raw(a + 1, "addr")[2]
             idx == SubSeq(p.vals, 1, k)
         IN /\ \A x \in Addresses :
                 mem'[x] # mem[x] =>
                   x - (a + 1 + AddrSize) \in 0 .. n * ElemSize(type) - 1
            /\ DataAt(a) \notin Bad =>
                 \A x \in {a} : DataAt(x)' =
                   Updated(DataAt(a), Positions(idx, n),
                           NewElems(idx, p.vals[k + 1], type, n))
StoresElements == [][ElementsOnly]_vars

\* The values on the stack, the top first.
Stack == Popped(sp, Copies(InitialSP - sp, AnyType), InitialSP).vals

\* A program whose loops end is left by the machine: it halts, fails, or has
\* exhausted the stack by its recursion.
Terminates == <>(status # "running")
=============================================================================
