------------------------------- MODULE CallStack -------------------------------
(***************************************************************************)
(* What calls, interrupts and returns of the virtual machine promise to a  *)
(* program, without memory and registers that are saved in it: VM          *)
(* implements it as long as the program leaves its frames alone.  Whoever   *)
(* is called or interrupted last is left first, for the place where that    *)
(* happened and with the frame in use there; nothing else an activation     *)
(* does changes its frame or what its callers will find.                    *)
(***************************************************************************)
EXTENDS Integers, Sequences

CONSTANT Top  \* the frame of the program itself

VARIABLES
  stack,  \* the activations, each with where it goes on and with which frame
  base,   \* the frame of the running one
  here    \* the instruction that is next

vars == <<stack, base, here>>

Init == stack = <<>> /\ base = Top /\ here = 0

\* Any instruction but a call or a return, jumps and loops included.
Local ==
  /\ here' \in Int
  /\ UNCHANGED <<stack, base>>

\* A new activation, with a frame of its own, is to come back to ret.
Begin(ret) ==
  /\ stack' = Append(stack, [ret |-> ret, base |-> base])
  /\ base' \in Int \ {base}
  /\ here' \in Int

\* A call comes back to the instruction after it, an interrupt to the one before
\* which it came.
Enter == Begin(here + 1)
Interrupt == Begin(here)

\* The program itself cannot return.
Leave ==
  /\ stack # <<>>
  /\ LET saved == stack[Len(stack)]
     IN here' = saved.ret /\ base' = saved.base
  /\ stack' = SubSeq(stack, 1, Len(stack) - 1)

Next == Local \/ Enter \/ Interrupt \/ Leave

Spec == Init /\ [][Next]_vars
===============================================================================
