# muF: a verification project in TLA+

muF is a compiler and a virtual machine for a small language inspired by
Fortran 90. These modules model the parts of it that carry its logic, TLC checks
them on small instances, and TLAPS proves the results that do not depend on the
size of the instance. Paths below are relative to the repository.

## The system

A source file passes through these parts. Every component is listed in
`PROJECT.json`, those that are not modelled with the reason.

| part | code | state | operations |
|---|---|---|---|
| Lexer | `src/parser/lexer.cpp` | input stream, line number, text and longest match of a token | next token, all tokens |
| Parser, semantic rules | `src/parser/*.cpp`, external LALR(1) library | parser context | one action per grammar rule, builds the tree |
| Parser context, symbol table | `src/common/context.h`, `sym.cpp` | stack of scopes, symbols by scoped name, dimensions and labels being read | enter and leave scope, declare, find |
| Syntax tree | `src/ast/ast.h` | - | visited by optimiser and code generator |
| Optimiser | `src/ast/opt.cpp` | - | one visitor per node, replaces its children |
| Code generator | `src/codegen/*.cpp` | output position, stack of local frames, current function, loops, labels, jumps and calls to patch, constants | one visitor per node, `Start`, `Finish` |
| Virtual machine | `src/vm/run.cpp`, `vm.cpp`, `mem.h`, `ops.h` | memory, `ip`, `sp`, `bp`, `gbp`, code range | one instruction per opcode |
| External functions | `src/vm/extfuncs.cpp` | - | called by name from `EXTCALL` |
| Interrupts and timer | `src/vm/vm.cpp`, `run.cpp` | 16 atomic flags, routines, timer thread and its flag | `RequestInterrupt`, `SetISR`, `StartTimer`, `StopTimer`, `TimerFunc` |

The parts of the compiler run one after the other and meet in the tree and the
symbol table. Compiler and machine meet in the byte code: layout of values,
frame layout, relative addresses, the order of operands, and the names of the
external functions. Only the machine is concurrent: the timer thread, and
whoever else calls `RequestInterrupt`, set flags that `VM::Run` scans before every
instruction.

What is hard, and what would make each part correct:

- **Interrupts and timer.** Two threads, no lock, atomic flags and one plain bool; a
  `std::thread` member that must never be overwritten while joinable; a `join()` in
  an instruction and in the destructor. Correct: no request is lost, stopping
  returns and leaves no thread, nothing touches a dead VM.
- **Machine.** One stack holds frames, saved registers, temporaries and globals, in
  the same memory as the code; values have different sizes; array bounds wrap
  around. Correct: frames stay linked whatever the functions do, `RET` undoes
  `CALL`, an exhausted stack ends the program before damaged code runs, operators
  obey the laws of arithmetic, array accesses touch only what they name.
- **Code generator.** Addresses are patched after the fact (casts, jumps, calls,
  constants), frames are sized in one place and used in others. Correct: a compiled
  program leaves what an evaluation of its source does.
- **Optimiser.** It has arithmetic of its own and rewrites the tree from below, with a
  rule for each visitor. Correct: the optimised program means the same.
- **Symbol table.** Correct: declarations are found from the scopes that see them.
- **Lexer.** The character after a token is read, put back and read again, while
  strings, comments and lines begin and end anywhere. Correct: every token is the
  longest there is, every character is in one token or skipped once, lines are
  counted right, and reading ends.

`PROJECT.json` lists under "hazards" each of these at its line, with the properties
that cover it.

## Modules

| module | models |
|---|---|
| `VMTimer` | interrupt flags, service routines, timer thread, destruction |
| `Interrupts` | what interrupts promise to a program; `VMTimer` implements it |
| `MCVMTimer` | instance of `VMTimer` for TLC |
| `VMTimerProofs` | proofs about `VMTimer` |
| `VMValues` | typed values, their layout in bytes, the operators and casts |
| `VM` | the main loop, stack and memory, all instructions, external functions |
| `CallStack` | what calls, returns and interrupts promise to a program; `VM` implements it |
| `VMValuesProofs` | lemmas on values, their layout and the operators |
| `VMProofs` | proofs about `VM`: types, memory below the stack, the code |
| `VMFrameProofs` | proofs about calls and returns in `VM`, and that it implements `CallStack` |
| `VMMemoryProofs` | proofs about the data in the memory of `VM`: values that arrive, arrays that are changed |
| `MCVM` | an assembler and suites of small programs with their expected results |
| `Grammar` | parser context, symbol table, what the semantic rules do to them and to the tree |
| `Opt` | the optimiser |
| `Codegen` | the code generator: one operator per visitor, `Start`, `Finish`, the calls of `main` |
| `Semantics` | what a program means: the specification the compiler is compared with |
| `MCCodegen` | source programs, compiled with `Grammar`, `Opt` and `Codegen` and run in `VM` |
| `Lexer` | the lexer, one action per pass of its loop |
| `MCLexer` | texts for the lexer |
| `SequenceLemmas` | lemmas on sequences the other proofs use |
| `LexerProofs` | proofs about `Lexer` |

### VMTimer

State: `irqs` is `m_irqs`, `isrs` the indices with a routine in `m_isrs`, `running`
is `m_timer_running`, `handle` the thread that `m_timer_thread` owns, `timer` the
place of each timer thread in `TimerFunc`; `pc` and `cur` are the place of the VM
thread and the variable of its scan. `unserved` is a history variable: interrupts
requested and not yet served or dropped. Each access to a flag is one action
(`TestFlag`, `ClearFlag`, `TimerCheck`, `TimerRequest`, ...), so that every
interleaving of the scan with the requests is explored; instructions that concern
neither flags nor timer are the one action `Instruction`. `BeginStop` and `Join` are
the two halves of `StopTimer`, used by `set_timer` and by the destructor.
`m_timer_running` is not atomic. The calls of `sleep_for` and `join` around its
accesses keep a compiler from caching it, so a read returns the old or the new value
and the model treats it as an atomic flag.

`Interrupts` has no threads, flags or scan. A request is pending until it is accepted
for its routine or, if there is none, dropped; the timer ticks from the instruction
that starts it to the end of the one that stops it; nobody raises anything once the
machine is gone. `VMTimer` implements it with `pending <- irqs`,
`serving <- Accepted` (the interrupt whose
routine is about to be called), `routines <- isrs`, `ticking <- handle # NoThread` and
`phase <- Phase`. The scan tests a flag, clears it and then looks up the routine; the
acceptance, or the drop, is the step that clears the flag, and a request between test
and clearing merges with the one it found. The flag `m_timer_running` is not the abstract
`ticking`: `StopTimer` lowers it while the thread may still raise one more interrupt, so
that only the end of `join()` stops the abstract timer.

### VMValues and VM

Memory is a function from addresses to bytes, and a byte is `<<kind, payload, k>>`,
byte `k` of a raw item of data or an opcode. Reading takes all bytes of an item;
if they do not belong together, because something was written over a part of
them, the outcome is `Undefined`. That is coarser than the machine, which would go
on with some bit pattern, and no property depends on what it would do then.
An instruction is one action (those that pop operands and push one result are
the action `Compute`, with `Results` giving the results). It has the outcome of the
code for all operands, the exceptions included: they end the program, as nothing
between `Run` and `main` catches them, and the model then keeps the state from
before the instruction. `calls` is a history variable with the activations that
have not returned.

What an instruction writes below the stack and pops again stays in memory, and is in the
model: `Convert` is the work of `OpCast` in `CallExternal`, which pops an argument and
pushes what it becomes, with the bounds checks of that push, before it is popped again;
`CallISR` pushes the address of the routine, which `CALL` pops, so that some of its bytes
are left below the registers that `CALL` saves (`PushAddress`, `src/vm/run.cpp:42`). A
conversion by an instruction of its own (`TOI` and the like) leaves its result on the stack
and is part of `Compute`.

Integers have `IntBits` bits and signed overflow is `Undefined`. Addresses have `AddrBits`
bits, fewer, as in the code (32 of 64): `ToAddr` is the conversion of an integer to an
address. The index of a store is converted before it is taken modulo the length of the
array (`src/vm/mem.h:263`, `:296`), that of a read is not (`SafeIndex` alone); a stack
pointer that a frame size is subtracted from is converted too. A real, complex or
quaternion number is known by its type only, so comparing reals has both
results and a cast of a real to an integer any of `SomeInts`. Bounds checks are on
and popped values are not zeroed, the defaults of `src/vm/main.cpp`.

`CallStack` has no memory and no stack pointer, and says only which activation goes on
where and with which frame: a call and an interrupt begin an activation, a return
ends the last one, any other instruction touches no frame. `VM` implements it
with `stack <- [i |-> Saved(i)]`, `base <- bp`, `here <- ip` (operator `Abstract`). `Saved(i)`
is not the history variable but what is read from memory at the frame of activation `i`, so
the refinement says that the registers a program keeps in its own memory, among
variables and temporaries, are an intact stack of calls at every step.

The scan for interrupts is atomic in `VM` (`CallISR` serves the first pending one
with a routine and clears the flags up to it); `VMTimer` has its fine structure.
`RequestInterrupt` stands for the timer thread and for an embedding program, and
happens between any two instructions.

### Grammar, Opt and Codegen

A source program is a tree of nodes `[k, v, kids]`, the shape in which the LALR(1)
parser meets its parts. `Parse` visits it in the order in which the parser calls the
semantic rules: `Before` is what a rule does at a partial match (`full_match`
false), when the parser has seen the beginning of a production, such as the type of
a declaration or the name of a function, and `After` what it does when the rule is
complete. The state is the parser context: scope, type and dimensions read last,
symbols by scoped name. Because type and dimensions stay there after a declaration,
lists are typed by the last declared type and scalars inherit dimensions, as in the
code. An outcome of `err` is `"throws"` for an exception and `"undefined"` where the
code dereferences null or takes from an empty list.

`Optimise` is the pass `codegen/main.cpp` makes between parser and generator when it
is called with `-O`. A visitor visits its children and replaces those that have
become an operator on two constants (`OptConsts`); the node itself is replaced by
the visitor above it. Hence a bound of a counted loop, the expression of a `select` and an
expression used as a statement stay as they are. The arithmetic is that of C++ on the
width of the machine's integers. A constant division by zero breaks the compiler itself,
which is the node "broken". The bitwise exclusive or is kept, though no text leads to it:
the lexer takes the word `xor` for an identifier first (`src/parser/lexer.cpp:351`).

The generator's state is the record `Generator`: bytes written so far (the position
in the stream is their number), scope, symbols, frame positions, loops, the
places to patch with labels, jumps, calls and constants. An operator `Gen...` is
the visitor of the same name and returns the changed record, with the symbol the
visitor returns in `ret`. `Patch` is a `seekp` with the write and the `seekp` back.
`Compile` is the part of `main` between the lexer and the output file. Its result is
loaded into `VM` unchanged: compiler and machine share the byte layout of
`VMValues`.

Not in the model because nothing reaches it: the visitor of the unary minus, whose
rule is commented out (`src/parser/ops.cpp:52`), and returns with values. A function
inside a function is always rejected, as the scope of its symbols is not the one the
generator looks in. Labels of other functions and the scope the context keeps for
labels are left out.

`Semantics` evaluates the same trees: environments of variables, statements with an
outcome ("break" and "next" with a number of loops, "return"), functions by their
bodies, operators by the arithmetic of mathematics on integers, arrays by rows and
columns. It knows of no addresses, no frames, no casts inserted after the fact and
no stack. Types of results are a table of its own (`Common`). Programs whose meaning
is not defined, as by an overflow, are left out of the suites, and so are a sum of
an integer array and a text and an assignment of an integer array to a real one, for
which the language gives no conversion.

### Lexer

`GetAllTokens` calls `GetNextToken` until it gets the token of the end, and both run
on one stream; the model joins their loops, and `Return` is the end of one call and the
beginning of the next. An action is one way through the body of the loop, by the
character read and by what has been matched before. `IsInt`, `IsReal`, `Word` and
`Operators` are the tests of `GetMatchingTokens`, in its order; the first match counts.
Regular expressions are written as conditions on the text. A token is kept with its
place in the text, which is what the properties are about, and the value of strings.

What follows from the code, and is in the model, though one may not expect it:
`1.eq.2` is the real number `1.e`, the name `q` and a dot that is a partial match; `0xff`
is the number 0 and the name `ff`, as only digits follow `0x`; `0b2` throws, and so does
a carriage return; a new line in a string is skipped and a string that the
text ends in is silently lost; `xor` is a name.

## Runs

The first five runs stop without error, the last seven show disagreements.

| run | properties | instance |
|---|---|---|
| `timer` | `TypeOK`, `LiveIsOwned`, `NoTerminate`, `StoppedIsQuiet`, `NoUseAfterDestroy`, `RequestsNotLost`, `ImplementsInterrupts`, `TimerNotPutOff`, `TimerServed`, `StopReturns` | 3 interrupts (one for the timer, one raised by the host, one unused), 2 thread identities |
| `programs` | `TypeOK`, `EndsAsExpected`, `FrameChain`, `StackBelowFrame`, `CodeIntact`, `Balanced`, `ReturnsToCaller`, `ImplementsCalls`, `ValuesArrive`, `StoresElements`, `OnlyPushes`, `Terminates` | 816 programs: 7 laws of integers over -7 .. 3 with 12 bits, 3 laws of vectors and 2 x 2 matrices; an array and a string of 3 elements, all pairs of indices in -4 .. 4 and ten indices around what 10 bits can hold, up to -1025 and 1024; each external function the machine implements, with an argument of the declared type and one that is converted, and three that show what it was converted to; calls with 2 arguments and 2 results, recursion to depth 4, endless recursion with 4 x 7 stack layouts, loops, an invalid opcode, a jump past the end of memory |
| `frames` | `ImplementsCalls` | one program, interrupts 0 and 1, two requests |
| `compiled` | `CompiledCorrectly`, `FrameChain`, `StoresOffCode`, `FramesKept`, `Terminates` | 298 programs. Expressions: two operators nested both ways, operands of all pairs of types with complex numbers and quaternions, assignments, conditions, arrays, matrices, texts; control: `break` and `next` of depth 0 to 3 in three nested loops, counted loops, branches, cases, jumps; functions: the programs `test/fibo.muf`, `comb.muf` and functions of `tst_func.muf`, and eight more; those of all these that the optimiser changes, once more with it |
| `lexer` | `TypeOK`, `EveryCharacterOnce`, `LongestMatch`, `RightLine`, `Terminates` | 9510 texts: all up to length 5 over `.eq1`, 4 over `0xb2e.+`, 5 over quote, `!`, new line, blank and `a`, 4 over quote, backslash, `n` and `t`, 3 over `=<>/*:\|&~.`, and 28 longer ones |
| `interrupt` | `InterruptTransparent`, violated | as `frames` |
| `codegen_next`, `codegen_results`, `codegen_scaled`, `codegen_ignored`, `codegen_text` | `CompiledCorrectly`, violated | one program each |
| `lexer_partial` | `NoPartialLeft`, violated | the longer texts of `lexer` |

`EndsAsExpected` compares how a program ended, and all that is on its stack, with a
result computed by a definition that does not use the machine: a law is to leave
"true", an array program the elements an index arithmetic by cardinalities
gives and the neighbouring variables untouched, a recursive sum its closed form.

`CompiledCorrectly` compares the global variables of a program that has ended with
the environment `Semantics` gives for its source, optimised or not, and the stack
pointer with its initial value: nothing may be left over. A program that the compiler rejects, or
that the machine ends with an error, violates it. As programs count and weigh what
they execute in a variable, a wrong order or a skipped statement changes the result.
Real numbers are known by type only, so for them it says that each is cast where it
has to be. Each run starts in one initial state per program.

`Balanced` is about the external functions that the machine implements, called by what the
compiler is told of them (`src/common/ext_funcs.h`): the arguments are gone, also those that
were converted on the stack first, and there is one result of the declared type or none. It
says nothing of the functions that are declared only (see the findings).

`ImplementsCalls` is the refinement of `CallStack`: `programs` checks it with calls and
recursion, `frames` with interrupts between any two instructions. Two
properties of single steps are about data. `ValuesArrive`: what `PUSH`, `RDMEM` and the
operators bring to the stack, and `WRMEM` to memory, is what is read back from there in
the next state, and the bytes around it are as before. `StoresElements`: `WRARR`
and `WRARRR` change no byte outside the elements of the array they name; the
array read afterwards is the one before with new elements at the positions the indices,
narrowed to addresses, stand for, counted from either end and in either direction.

Three more look at every byte of memory. `OnlyPushes`: an
instruction that is no store changes nothing below the stack pointer it leaves, or, for
a call, below the new frame pointer, except where it converts the argument of an external
function or pushes the address of an interrupt's routine (`InScratch` says which bytes
these are). `StoresOffCode`: a store leaves the code alone, and so do these two writes
unless the stack is out of bounds afterwards, which ends the program.
`FramesKept`: no step changes the saved registers of an activation that does not end
with it. The first holds for every program and is proved; the others are what a program
has to do for its part, `compiled` checks them for what the compiler makes, and the
theorems about code and frames assume them.

The properties of the lexer do not use its loop: `LongestMatch` looks for a longer
match anywhere in the rest of the text, `EveryCharacterOnce` asks that tokens are in
order and what is between them is blank, comment or line end, and `RightLine` counts
lines in the text before a token. `TimerNotPutOff` is the fairness of `Interrupts`: a
request for the timer that could be accepted again and again is accepted, although the
scan begins anew with every instruction.

Bounds. Two thread identities are enough to start a second timer thread if the code
ever allowed one; three interrupts give the scan one below, at and above the one it
serves. Indices from -4 to 4 cross both ends of three elements. Addresses, integers
and reals occupy two bytes or three, so that an item can be partly overwritten; in the suites
for `VM` memory has 90 bytes in `frames` and `interrupt` and 280 in `programs`, what
the longest program needs besides its stack, and little enough that endless recursion
exhausts it.
The sizes of the endless recursions shift the stack against the code by every
alignment of a frame. Compiled programs get 640 or 900 bytes, more than any of them
needs. Integers have 12 bits and addresses 10 or 11, enough for every address of the memory
and little enough that an index can exceed them; in `frames` and `interrupt` an integer has
three bytes, so that, as in the code, the registers that `CALL` saves do not cover all of
the routine's address. A text has up to 4 characters of declared size
(`DefaultStringSize`, 128 in the code): nothing in the generator depends on the
numbers. Three nested loops and depths up to 3 have every relation of a depth to the
number of loops; matrices are 2 x 3 and 3 x 2 so that rows and columns differ. The alphabets of the lexer
hold the characters that interact: a dot is part of a number, a word or a label; an
`e` begins an exponent, a sign goes on with it; a quote, an exclamation mark and a
new line switch between texts, comments and tokens. Five characters are enough to enter
and leave a text or comment twice.

Fairness. `timer` assumes for `TimerServed` and `StopReturns` that the operating
system schedules both threads and that a sleep ends (`WF` of `Run` and of each
`TimerFunc`); nothing is assumed about the choice of instructions. `TimerNotPutOff`
is checked under the same assumption. `Terminates` of the lexer assumes that
`GetNextToken` goes on (`WF`). `Terminates` of the machine
needs only that it goes on, in `programs` and `compiled` (`FairSpec` of `VM`;
written with `[]<><<Run>>_vars` because TLC evaluates `ENABLED Run` very slowly, and
`Run` is enabled as long as the program runs).

Deadlock is checked in every run; a program that has ended stutters in `Stopped`.

## Findings

- `interrupt`: the routine of an interrupt is entered with `CALL`, which pops a
  frame size that nobody pushed (`src/vm/run.cpp:42` and `:710`). A routine that
  does nothing changes or ends the interrupted program. The run `frames` therefore
  says no more than that activations begun by an interrupt are entered and left like
  others.
- `codegen_next`: `next` in a counted loop jumps to the test and skips the increment
  (`src/codegen/loops.cpp:358`), so the loop does not end unless its body leaves it.
- `codegen_results`: the types of two calls are compared before their return types
  are substituted (`src/codegen/ops.cpp:24`), so their results are not cast.
- `codegen_scaled`: a scalar declared after an array keeps its dimensions
  (`src/common/context.h:65`), and times a vector is compiled as a product of
  matrices (`src/codegen/ops.cpp:244`).
- `codegen_ignored`: the result of a call that nobody uses stays on the stack and is
  returned by the caller as well (`src/codegen/func.cpp:219`).
- `codegen_text`: arguments after a text are addressed by its declared size and
  pushed with its actual one (`src/codegen/func.cpp:86`).

- `lexer_partial`: a dot that begins no word is given to the parser as the token
  PARTIAL (`src/parser/lexer.cpp:298`, `:501`), which `src/parser/lexer.h:102` says
  should not be left; the grammar does not have it, and its index in the parse tables
  stays 0 (`:561`). The text `x=.5` does so.

More constructs fail, in the model as in the code, without a run of their own:

- `exp`, `real_to_string` and `integer_to_string` are registered for the compiler
  (`src/common/ext_funcs.h:42`, `:108`, `:110`) and unknown to the machine
  (`CallExternal`), so a call leaves its arguments on the stack. `fabs` of an integer throws
  (`src/vm/extfuncs.cpp:41`; `Absolute`).
- An index beyond 32 bits names one element in a read and in general another in a store
  (`src/vm/mem.h:263`, `:296`; `Positions`). Both are inside the array. These are not left
  out of `programs`, whose reference narrows the indices of stores.
- An argument that is converted to a longer text by an external function, or an interrupt,
  on a stack that is nearly full may overwrite the code, and the stack pointer is back in
  bounds when `VM::CheckPointerBounds` looks at it (`src/vm/extfuncs.cpp:117`,
  `src/vm/run.cpp:42`; `InScratch`). Arguments that keep their size, and all values that stay
  on the stack, cannot.
- A vector divided by a scalar throws: the branch announced as "vec / scalar" is
  compiled only for products (`src/vm/ops.h:506` and `:529`; `Arith` of `VMValues`).
- `integer :: a, b = 5` is rejected: the assignment is generated for `a` already,
  when `b` has no address (`src/codegen/var.cpp:190`; `Initialise`).
- The rule for complex arrays casts an integer to a list and dereferences the null
  pointer it gets (`src/parser/var.cpp:414`; `Declaration`).
- A division of constants by zero, also one that is never executed, breaks the optimiser
  (`src/ast/opt.cpp:54`; `Replacement`).
- A string that is not closed is lost with all that follows, without an error
  (`src/parser/lexer.cpp:490`; `EndOfInput`).

But for such indices, the suites of the passing runs avoid the constructs of this section,
and those left out of `Semantics`, and nothing else.

## Proofs

### Interrupts and timer

`VMTimerProofs` proves, for any number of interrupts, any set of interrupts raised
by the host and any set of threads (assumption `TimerAssumption`: the number is
positive, the host's interrupts exist, `NoThread` is no thread), that every property
of `timer` that is an invariant is one of `Spec`.

The properties are not inductive: `LiveIsOwned` speaks of live threads only, and a
thread that has ended and was not joined would let `StartTimer` overwrite a joinable
`m_timer_thread`. The inductive invariant `IInv` adds `Bookkeeping`: threads other
than the owned one were never started or have been joined; if the flag is down and
nobody is in `join()`, no thread is owned; the flag is down during `join()`. Its
three parts are preserved by `TypeStep`, `BookkeepingStep` and `RequestsStep`, each
with one step per action, and `InvariantHolds` puts them together.

THEOREM `Refinement` proves that `VMTimer` implements `Interrupts`, for the same
constants: `StepImplements` has one step per action and shows that it is a step of
the abstract specification or changes nothing there. It needs more than `IInv` had
before: that a flag the scan has seen is up until the scan clears it, whoever sets
flags in between (`SeenIsUp`, preserved by `SeenStep`), for the acceptance of a
request that is not pending would be no abstract step.

### The machine

`VMProofs`, `VMFrameProofs` and `VMMemoryProofs` hold for every table of programs, every memory size and every
set of interrupts that are raised from outside at any time. The assumptions are
`ValuesAssumption` (addresses and numbers have at least one byte, integers at least one bit, the
samples `SomeInts` are integers of that width and `Texts` are sequences) and `VMAssumption`: a program consists of bytes and fits below the padding that
`Reset` leaves free, that padding, `sizeof(t_data) + 1` in the code, is not empty, and the
size of the memory is an address.

`TypeOK` is not inductive. An instruction reads its operands from memory, so that a
jump has an integer for its target only if every byte of an address in memory belongs to an integer, and
it computes results from them, so that whatever an operator returns has to be made of such bytes again. The
invariant `IInv` says so: every byte of memory satisfies `IsByte`, and registers, routines
and the saved frames in `calls` are integers. `VMValuesProofs` has a lemma per operator
and cast (the result is a value or an exception), `Encode` turns values into bytes
(`EncodeBytes`), and reading gives values (`DataRead`). `VMProofs` then has two
inductions, over the values an instruction pops (`PopAll`) and pushes (`PushAll`), and a
lemma per action. Popping and pushing are recursive functions inside a `LET`; the
induction is over a set of numbers instead of a predicate, from the well-foundedness of
`<` (`SetInduction` of `SequenceLemmas`).

The lemmas per action prove at the same time what a step leaves alone (`KeepsBelow`), and
that is

- `MachineTyped`, `VMTypes`: the invariant, and with it `TypeOK`. Of the instruction pointer
  it says that it is an integer below the end of memory, as jumps wrap around there. A
  program may jump to a negative address, which `VM::CheckPointerBounds` rejects.
- `StackOnlyGrows`: other than `WRMEM`, `WRARR` and `WRARRR`, only the conversion of an
  argument by an external function and the service of an interrupt change memory below the
  stack, and there only the bytes in `InScratch`. That covers `RET`, which moves results over
  the frame it leaves. `RecastMemory` and `ConvertMemory` follow the conversions of up to
  two arguments, `ExtCallStep` the whole instruction.
- `CodeKept`: `StoresOffCode` implies `[]CodeIntact`. `VM::CheckPointerBounds` looks at the stack
  pointer only between instructions, so an instruction may have written over the code
  when it is called; the proof is that the loop does not fetch then, and never again
  (`LoopingStep`). The hypothesis is about three kinds of writes: stores, conversions of
  arguments and the address of an interrupt's routine. The last two are popped again, and
  for them the check of the stack pointer is no protection; for everything that is
  pushed and stays, however deep the recursion, the theorem says that it is.
- `FramesLinked`, `ReturnsCorrect`: `FramesKept` implies `[]FrameChain` and `ReturnsToCaller`. The
  inductive invariant `Linked` says which bytes of memory hold the two registers of each
  activation, at which address, and that a return address lies inside the memory, without which `GoTo`
  would wrap it around. `EnterSaved` is about `CALL`: two pushes one after the
  other, of which the second leaves the first alone. `RetReads` is about `RET`: what it pops is what
  was pushed. A `RET` of the program itself ends the run, as there is nothing above the
  end of memory to pop.
- `CallsImplemented`: under the same condition `VM` implements `CallStack`. `Linked` holds
  whatever the status, and says that frames of different activations differ, as the
  abstract specification gives each activation a frame of its own. `Begun` shows that `CALL` and
  the service of an interrupt append what they have saved, `Ended` that `RET` takes the
  last activation off, `SameFrame` that any other instruction keeps `bp`, and
  `FramesKept` that it keeps what is saved.
- `ValuesKept`: `[][Arrive]_vars`, without any condition on the program. `DataStored` is the
  round trip of the layout: a value that `Encode` has laid out in bytes at an address is
  what `DataAt` reads there, for scalars and for texts and arrays of any length.
  Bytes are placed by quotient and remainder, so it rests on their
  uniqueness (`DivisionUnique`). `ReadsWritten` is the same for a memory that has just been
  written, and the steps of the four kinds of instruction follow from it. `IsResult`, in
  `VMValuesProofs`, is stronger than types need: no operator returns a value of
  the type "UNKNOWN", for which nothing could be read back.
- `ElementsReplaced`: `[][ElementsOnly]_vars`, again for every program. The positions that indices
  and ranges stand for are inside the array and distinct (`PositionsInside`, from
  `IndexInside`, `RangeInside` and `RangeDistinct`, for the indices that `ToAddr` leaves), so each byte of the array belongs to at
  most one of the new elements (`ElementsChanged`) and reading the array finds
  each of them at its position (`ArrayUpdated`).

The hypotheses cannot be dropped: a program may store anywhere, and with an address of
its own make a `RET` go anywhere. They say nothing of the registers' values, of pops, or of which
frame belongs to which activation, which is what is proved.

For these proofs some definitions have another form than a model for TLC alone would
have: `Encode` gives a value's bytes one by one, `Arith` decides by `IF` in the order of
the code, and sums, pops and pushes are recursive functions instead of folds. The proof
that every result is a value also showed two cases the model had missed: sizes of
matrices may be negative, and sums of products may overflow (`MatMul`, `Undefined` now).

### The lexer

`LexerProofs` proves the four invariants of the run `lexer` for every text. Assumed are
`InputsAssumption` (a text is a sequence of characters) and `SpellingsAssumption`, on the
finite tables of the lexer: no spelling of a keyword or operator holds a new line, each
beginning of one has a match, and texts and the end have names of their own. TLC
evaluates both.

None of the four is inductive, as they speak of the tokens that have been returned.
`IInv` adds what the loop knows while it reads: a match begins at `start` and is the match
of all that has been collected (`TypeInv`); what lies between the last token and
`start` could be skipped, a comment that is open has begun there, and `line` is the number of line
ends so far (`ReadInv`); an error means that no token begins here (`Rejected`).

The theorem `TokensBegin` is what makes the search right: every beginning of
a token has a match, so the loop may stop at the first character without one. The proof goes
through numbers, words with dots and operators, and uses that a dot alone is a partial
match. The converse does not hold, which is the finding `lexer_partial`.

### What is only model-checked

Liveness, with `TimerNotPutOff`: fairness is out of reach of the prover here. What
individual programs compute (`EndsAsExpected`, `Balanced`, `CompiledCorrectly`) is about
the suites, and the compiler with its optimiser is recursive over trees,
which keeps TLAPS out of those modules. `StackBelowFrame` depends on the program: one that
pops more than it has pushed violates it. `StoresOffCode` and `FramesKept` are
properties of what the compiler makes.

## Not modelled

- The tree printer (`src/ast/print.cpp`) and memory images (`src/vm/memdump.cpp`): they
  format what is there and change no state.
- The parser generator (`src/parser/grammar.cpp` as far as it writes productions and
  precedences) and the LALR(1) library: the library is not part of the repository, and
  which tree a text becomes is its result. `Grammar` starts from the order of its calls.
- The command line programs, but for the order of their calls.
- The values of real, complex and quaternion numbers: TLC has no real numbers, and the
  layout, casts and operators are told apart by types.

## Plan

1. Done: `VMTimer` with its proofs and the refinement of `Interrupts`, `VMValues`, `VM`,
   `Grammar`, `Codegen` and `Semantics`, `Opt`, `Lexer`.
2. Done: proofs of the types, code and frames of `VM` and of the invariants of `Lexer`.
   Proofs that `VM` implements `CallStack`, that values survive the way through memory,
   and that a store into an array changes the elements it names.
3. Not done: labels of other functions, and arrays of complex numbers beyond their failure.
