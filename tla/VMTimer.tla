------------------------------- MODULE VMTimer -------------------------------
(***************************************************************************)
(* Interrupts of the virtual machine and the thread that raises them.      *)
(*                                                                         *)
(* Two threads share the VM object.  The VM thread (VM::Run, vm/run.cpp)   *)
(* scans the interrupt flags before every instruction, and the external    *)
(* functions set_isr and set_timer (vm/extfuncs.cpp) change the service    *)
(* routines and start or stop the timer.  The timer thread (VM::TimerFunc, *)
(* vm/vm.cpp) sleeps and raises the timer interrupt in a loop.  The public *)
(* VM::RequestInterrupt lets the embedding program raise interrupts, too.  *)
(*                                                                         *)
(* An instruction that touches neither the flags nor the timer is one      *)
(* action, Instruction; what instructions do to the memory is the subject  *)
(* of module VM.  The reads and writes of an atomic_bool are single steps. *)
(***************************************************************************)
EXTENDS Integers

CONSTANTS
  NumInterrupts,  \* VM::m_num_interrupts, 16 in the code
  HostIrqs,       \* interrupts the embedding program raises; {} in vm/main.cpp
  Threads,        \* identities of operating system threads
  NoThread        \* the value of m_timer_thread that owns no thread

ASSUME TimerAssumption ==
  /\ NumInterrupts \in Nat \ {0}
  /\ HostIrqs \subseteq 0 .. NumInterrupts - 1
  /\ NoThread \notin Threads

VARIABLES
  pc,         \* where the VM thread is
  cur,        \* loop variable of the interrupt scan
  irqs,       \* m_irqs, the set of raised flags
  isrs,       \* m_isrs, the interrupts that have a service routine
  running,    \* m_timer_running
  handle,     \* m_timer_thread
  timer,      \* where each timer thread is
  unserved    \* history: interrupts raised and neither served nor dropped yet

vars == <<pc, cur, irqs, isrs, running, handle, timer, unserved>>

Irqs == 0 .. NumInterrupts - 1
TimerIrq == 0

\* Outside of these the timer thread is alive and may touch the VM object.
Dormant == {"none", "exit"}
TimerStates == Dormant \cup {"check", "sleep", "request"}

\* "op" fetches and runs an instruction, "stop" and "dtor" wait in join() for
\* set_timer and for the destructor, "terminated" is std::terminate.
VMStates == {"scan", "clear", "call", "op", "stop", "leave", "dtor", "gone",
             "terminated"}

\* VM::Run has not been left.
Running == pc \in {"scan", "clear", "call", "op", "stop"}

Live == {t \in Threads : timer[t] \notin Dormant}

-----------------------------------------------------------------------------
Init ==
  /\ pc = "scan" /\ cur = 0
  /\ irqs = {} /\ isrs = {} /\ unserved = {}
  /\ running = FALSE /\ handle = NoThread
  /\ timer = [t \in Threads |-> "none"]

\* The bottom of the while loop: the next iteration starts a new scan.
NextIteration == pc' = "scan" /\ cur' = 0

timerVars == <<running, handle, timer>>
irqVars == <<irqs, isrs, unserved>>

\* Faulty variant: the loop runs one flag too far.
ScanTooFar ==
  /\ pc = "scan" /\ cur \in 0 .. NumInterrupts
  /\ IF cur \in irqs THEN pc' = "clear" /\ UNCHANGED cur
                     ELSE pc' = "scan" /\ cur' = cur + 1
  /\ UNCHANGED <<timerVars, irqVars>>

\* One test "if(!m_irqs[irq])" of the scan.
TestFlag ==
  /\ pc = "scan" /\ cur \in Irqs
  /\ IF cur \in irqs THEN pc' = "clear" /\ UNCHANGED cur
                     ELSE pc' = "scan" /\ cur' = cur + 1
  /\ UNCHANGED <<timerVars, irqVars>>

\* Faulty variant: the scan goes on past an interrupt that has a routine.
ClearAndGoOn ==
  /\ pc = "clear"
  /\ irqs' = IF cur \in isrs THEN irqs ELSE irqs \ {cur}
  /\ pc' = "scan" /\ cur' = cur + 1
  /\ UNCHANGED <<timerVars, isrs, unserved>>

\* Faulty variant: all flags are cleared instead of the one that was seen.
ClearAllFlags ==
  /\ pc = "clear"
  /\ irqs' = {}
  /\ IF cur \in isrs
       THEN pc' = "call" /\ UNCHANGED <<cur, unserved>>
       ELSE pc' = "scan" /\ cur' = cur + 1 /\ unserved' = unserved \ {cur}
  /\ UNCHANGED <<timerVars, isrs>>

\* The flag is cleared; without a service routine the scan goes on.
ClearFlag ==
  /\ pc = "clear"
  /\ irqs' = irqs \ {cur}
  /\ IF cur \in isrs
       THEN pc' = "call" /\ UNCHANGED <<cur, unserved>>
       ELSE pc' = "scan" /\ cur' = cur + 1 /\ unserved' = unserved \ {cur}
  /\ UNCHANGED <<timerVars, isrs>>

\* The routine's address is pushed and CALL is executed in place of a fetch.  The
\* routine serves a request that has come since the flag was cleared, too.
CallISR ==
  /\ pc = "call"
  /\ unserved' = unserved \ {cur}
  /\ NextIteration
  /\ UNCHANGED <<timerVars, irqs, isrs>>

\* No interrupt was found: the next instruction is fetched.
EndScan ==
  /\ pc = "scan" /\ cur = NumInterrupts
  /\ pc' = "op"
  /\ UNCHANGED <<cur, timerVars, irqVars>>

\* An instruction that concerns neither interrupts nor the timer.
Instruction ==
  /\ pc = "op"
  /\ NextIteration
  /\ UNCHANGED <<timerVars, irqVars>>

\* External function set_isr: a routine is installed or replaced, never removed.
SetISR ==
  /\ pc = "op"
  /\ \E n \in Irqs : isrs' = isrs \cup {n}
  /\ NextIteration
  /\ UNCHANGED <<timerVars, irqs, unserved>>

\* HALT, an invalid opcode, or an exception in an instruction or while the
\* address of a routine is pushed: Run is left and the VM object dies.
LeaveRun ==
  /\ pc \in {"op", "call"}
  /\ pc' = "leave"
  /\ UNCHANGED <<cur, timerVars, irqVars>>

-----------------------------------------------------------------------------
\* Faulty variant: m_timer_running is not tested.
StartAlways ==
  /\ pc = "op"
  /\ running' = TRUE
  /\ \E t \in Threads :
       /\ timer[t] = "none"
       /\ timer' = [timer EXCEPT ![t] = "check"]
       /\ IF handle = NoThread
            THEN handle' = t /\ NextIteration
            ELSE pc' = "terminated" /\ UNCHANGED <<handle, cur>>
  /\ UNCHANGED irqVars

\* StartTimer, from set_timer with a delay that is not negative.  A running
\* timer is left alone.  Assigning to a std::thread that still owns a thread
\* is std::terminate.
StartTimer ==
  /\ pc = "op"
  /\ \/ running /\ NextIteration /\ UNCHANGED timerVars
     \/ /\ ~running
        /\ running' = TRUE
        /\ \E t \in Threads :
             /\ timer[t] = "none"
             /\ timer' = [timer EXCEPT ![t] = "check"]
             /\ IF handle = NoThread
                  THEN handle' = t /\ NextIteration
                  ELSE pc' = "terminated" /\ UNCHANGED <<handle, cur>>
  /\ UNCHANGED irqVars

\* The std::thread constructor throws: the flag has been set already.
StartTimerFails ==
  /\ pc = "op" /\ ~running
  /\ running' = TRUE
  /\ pc' = "leave"
  /\ UNCHANGED <<cur, handle, timer, irqVars>>

\* Faulty variants: the thread is not waited for, it is detached, the flag
\* is not cleared.
StopWithoutJoin(wait, done) ==
  /\ running' = FALSE
  /\ pc' = done
  /\ cur' = 0
  /\ UNCHANGED <<handle, timer, irqVars>>

StopDetached(wait, done) ==
  /\ running' = FALSE
  /\ handle' = NoThread
  /\ pc' = done
  /\ cur' = 0
  /\ UNCHANGED <<timer, irqVars>>

StopWithoutFlag(wait, done) ==
  /\ pc' = IF handle = NoThread THEN done ELSE wait
  /\ cur' = 0
  /\ UNCHANGED <<running, handle, timer, irqVars>>

\* First half of StopTimer: the flag is cleared, and if there is a thread to
\* wait for, the VM thread blocks in join() at "wait".
BeginStop(wait, done) ==
  /\ running' = FALSE
  /\ pc' = IF handle = NoThread THEN done ELSE wait
  /\ cur' = 0
  /\ UNCHANGED <<handle, timer, irqVars>>

\* Second half: join() returns once the thread has ended.
Join(wait, done) ==
  /\ pc = wait
  /\ handle \in Threads /\ timer[handle] = "exit"
  /\ timer' = [timer EXCEPT ![handle] = "none"]
  /\ handle' = NoThread
  /\ pc' = done
  /\ UNCHANGED <<cur, running, irqVars>>

\* External function set_timer with a negative delay.
StopTimer == pc = "op" /\ BeginStop("stop", "scan")
StopTimerJoin == Join("stop", "scan")

\* The destructor of the VM object.
Destroy == pc = "leave" /\ BeginStop("dtor", "gone")
DestroyJoin == Join("dtor", "gone")

-----------------------------------------------------------------------------
\* TimerFunc: the loop condition, the sleep, and the request.
TimerCheck(t) ==
  /\ timer[t] = "check"
  /\ timer' = [timer EXCEPT ![t] = IF running THEN "sleep" ELSE "exit"]
  /\ UNCHANGED <<pc, cur, running, handle, irqVars>>

TimerWake(t) ==
  /\ timer[t] = "sleep"
  /\ timer' = [timer EXCEPT ![t] = "request"]
  /\ UNCHANGED <<pc, cur, running, handle, irqVars>>

\* RequestInterrupt(num)
Request(n) ==
  /\ irqs' = irqs \cup {n}
  /\ unserved' = unserved \cup {n}

TimerRequest(t) ==
  /\ timer[t] = "request"
  /\ Request(TimerIrq)
  /\ timer' = [timer EXCEPT ![t] = "check"]
  /\ UNCHANGED <<pc, cur, running, handle, isrs>>

TimerFunc(t) == TimerCheck(t) \/ TimerWake(t) \/ TimerRequest(t)

\* The embedding program may call RequestInterrupt as long as the VM exists.
HostRequest ==
  /\ pc \notin {"gone", "terminated"}
  /\ \E n \in HostIrqs : Request(n)
  /\ UNCHANGED <<pc, cur, isrs, timerVars>>

\* Nothing moves any more once the object or the process is gone.
Stopped ==
  /\ pc \in {"gone", "terminated"} /\ Live = {}
  /\ UNCHANGED vars

Run == \/ TestFlag \/ ClearFlag \/ CallISR \/ EndScan \/ Instruction \/ SetISR
       \/ LeaveRun \/ StartTimer \/ StartTimerFails \/ StopTimer
       \/ StopTimerJoin \/ Destroy \/ DestroyJoin

Next == \/ Run \/ HostRequest \/ Stopped
        \/ \E t \in Threads : TimerFunc(t)

Spec == Init /\ [][Next]_vars

\* The operating system schedules both threads and ends every sleep.  The VM
\* thread is not blocked in an instruction: a read from the standard input
\* gets an answer.
Fairness ==
  /\ WF_vars(Run)
  /\ \A t \in Threads : WF_vars(TimerFunc(t))

FairSpec == Spec /\ Fairness

-----------------------------------------------------------------------------
TypeOK ==
  /\ pc \in VMStates
  /\ cur \in 0 .. NumInterrupts /\ (pc \in {"clear", "call"} => cur \in Irqs)
  /\ irqs \subseteq Irqs /\ isrs \subseteq Irqs /\ unserved \subseteq Irqs
  /\ running \in BOOLEAN
  /\ handle \in Threads \cup {NoThread}
  /\ timer \in [Threads -> TimerStates]

\* Every timer thread that is alive is the one m_timer_thread owns: StartTimer
\* never leaves a second one behind that no StopTimer would wait for.
LiveIsOwned == Live \subseteq {handle}

\* StartTimer never assigns to a std::thread that still owns a thread
\* (std::terminate), whatever sequence of set_timer calls a program makes.
NoTerminate == pc # "terminated"

\* When StopTimer has returned no timer thread is left that could raise a
\* further interrupt; a request made before may still be pending.
StoppedIsQuiet ==
  ~running /\ pc \notin {"stop", "dtor"} => Live = {}

\* The timer thread does not outlive the VM object whose flags it writes.
NoUseAfterDestroy == pc = "gone" => Live = {}

\* While the program runs a raised interrupt is not forgotten: until its
\* routine is called, or it is dropped for want of one, its flag is up or the
\* scan has just seen it.
RequestsNotLost ==
  Running =>
    \A n \in unserved : n \in irqs \/ (pc \in {"clear", "call"} /\ cur = n)

\* A timer interrupt with a routine is served, unless the program ends first.
TimerServed ==
  (Running /\ TimerIrq \in unserved /\ TimerIrq \in isrs)
    ~> (TimerIrq \notin unserved \/ ~Running)

\* What the threads do is what Interrupts promises: a request is accepted by the
\* test, the reset and the look-up of its flag together, the timer ticks as long
\* as there is a thread to join.
Phase == IF Running THEN "run" ELSE IF pc \in {"leave", "dtor"} THEN "left" ELSE pc
Accepted == IF pc = "call" THEN {cur} ELSE {}
Abstract == INSTANCE Interrupts WITH
  pending <- irqs, serving <- Accepted, routines <- isrs,
  ticking <- handle # NoThread, phase <- Phase
ImplementsInterrupts == Abstract!Spec

\* A request of the timer is not put off for ever, however many others there are:
\* the scan begins anew after every instruction and every call of a routine.
TimerNotPutOff == Abstract!Fairness

\* Stopping the timer never hangs: join() returns for set_timer and for the
\* destructor.
StopReturns == pc \in {"stop", "dtor"} ~> pc \in {"scan", "gone"}
=============================================================================
