------------------------------ MODULE Interrupts ------------------------------
(***************************************************************************)
(* What the interrupts of the virtual machine promise to a program, without *)
(* threads, flags and scans: VMTimer implements it.  A request waits until  *)
(* it is accepted for its service routine or, for want of a routine,        *)
(* dropped; nothing else takes it away, and requests of the same interrupt  *)
(* that wait are one.  The timer makes requests from the call of set_timer  *)
(* that starts it to the return of the one that stops it, and nobody makes  *)
(* any when the machine is gone.                                            *)
(***************************************************************************)
EXTENDS Integers

CONSTANTS
  Irqs,      \* the interrupts
  TimerIrq,  \* the one the timer raises
  HostIrqs   \* those the embedding program raises

VARIABLES
  pending,   \* requests that wait
  serving,   \* the request accepted last, until its routine is entered
  routines,  \* interrupts with a service routine
  ticking,   \* the timer has been started and not stopped
  phase      \* "run", "left" when the program has ended, "gone"

vars == <<pending, serving, routines, ticking, phase>>

Init ==
  /\ pending = {} /\ serving = {} /\ routines = {}
  /\ ticking = FALSE
  /\ phase = "run"

\* The program executes an instruction, no routine is about to be entered.
Executing == phase = "run" /\ serving = {}

Raise(n) ==
  /\ phase # "gone"
  /\ n \in HostIrqs \/ (n = TimerIrq /\ ticking)
  /\ pending' = pending \cup {n}
  /\ UNCHANGED <<serving, routines, ticking, phase>>

Accept(n) ==
  /\ Executing
  /\ n \in pending \cap routines
  /\ pending' = pending \ {n}
  /\ serving' = {n}
  /\ UNCHANGED <<routines, ticking, phase>>

Drop(n) ==
  /\ Executing
  /\ n \in pending \ routines
  /\ pending' = pending \ {n}
  /\ UNCHANGED <<serving, routines, ticking, phase>>

EnterRoutine ==
  /\ phase = "run" /\ serving # {}
  /\ serving' = {}
  /\ UNCHANGED <<pending, routines, ticking, phase>>

Install(n) ==
  /\ Executing
  /\ routines' = routines \cup {n}
  /\ UNCHANGED <<pending, serving, ticking, phase>>

Start ==
  /\ Executing /\ ~ticking
  /\ ticking' = TRUE
  /\ UNCHANGED <<pending, serving, routines, phase>>

Stop ==
  /\ Executing /\ ticking
  /\ ticking' = FALSE
  /\ UNCHANGED <<pending, serving, routines, phase>>

Leave ==
  /\ phase = "run"
  /\ phase' = "left" /\ serving' = {}
  /\ UNCHANGED <<pending, routines, ticking>>

Destroy ==
  /\ phase = "left"
  /\ phase' = "gone" /\ ticking' = FALSE
  /\ UNCHANGED <<pending, serving, routines>>

Next ==
  \/ \E n \in Irqs : Raise(n) \/ Accept(n) \/ Drop(n) \/ Install(n)
  \/ EnterRoutine \/ Start \/ Stop \/ Leave \/ Destroy

Spec == Init /\ [][Next]_vars

\* Requests of the timer are never put off for ever, not even by other
\* interrupts.
Fairness == SF_vars(Accept(TimerIrq) \/ Drop(TimerIrq))
=============================================================================
