---------------------------- MODULE VMTimerProofs ----------------------------
(***************************************************************************)
(* Proofs about the interrupts and the timer thread of the VM (VMTimer),   *)
(* for any number of interrupts, any set of interrupts the host raises and *)
(* any set of threads.                                                     *)
(***************************************************************************)
EXTENDS VMTimer, TLAPS

\* The bookkeeping of StartTimer and StopTimer: a thread that m_timer_thread
\* does not own was never started or has been joined; with m_timer_running
\* cleared and nobody waiting, m_timer_thread owns no thread; and the flag is
\* down while a join is under way.  The safety properties are not inductive
\* without it: they say nothing of a thread that has ended unjoined.
Bookkeeping ==
  /\ \A t \in Threads : t # handle => timer[t] = "none"
  /\ ~running /\ pc \notin {"stop", "dtor"} => handle = NoThread
  /\ pc \in {"stop", "dtor", "gone"} => ~running
  /\ pc # "terminated"

\* Only the VM thread takes a flag down, so the one it has seen is still up.
SeenIsUp == pc = "clear" => cur \in irqs

IInv == TypeOK /\ Bookkeeping /\ RequestsNotLost /\ SeenIsUp

USE TimerAssumption

\* The variables keep their types in every step of the VM thread, the timer
\* threads and the host.
LEMMA TypeStep == TypeOK /\ [Next]_vars => TypeOK'
<1> SUFFICES ASSUME TypeOK, [Next]_vars PROVE TypeOK'
  OBVIOUS
<1> USE DEF TypeOK, VMStates, TimerStates, Dormant, Irqs, NextIteration,
            timerVars, irqVars
<1>1. CASE TestFlag  BY <1>1 DEF TestFlag
<1>2. CASE ClearFlag
  <2>1. cur \in Irqs /\ cur + 1 \in 0 .. NumInterrupts
    BY <1>2 DEF ClearFlag
  <2>2. CASE cur \in isrs  BY <1>2, <2>1, <2>2 DEF ClearFlag
  <2>3. CASE cur \notin isrs
    <3>1. pc' = "scan" /\ cur' = cur + 1 /\ unserved' = unserved \ {cur}
      BY <1>2, <2>3 DEF ClearFlag
    <3>2. irqs' = irqs \ {cur} /\ UNCHANGED <<timerVars, isrs>>
      BY <1>2 DEF ClearFlag
    <3> QED  BY <2>1, <3>1, <3>2
  <2> QED  BY <2>2, <2>3
<1>3. CASE CallISR  BY <1>3 DEF CallISR
<1>4. CASE EndScan  BY <1>4 DEF EndScan
<1>5. CASE Instruction  BY <1>5 DEF Instruction
<1>6. CASE SetISR  BY <1>6 DEF SetISR
<1>7. CASE LeaveRun  BY <1>7 DEF LeaveRun
<1>8. CASE StartTimer
  <2>1. CASE running /\ UNCHANGED timerVars
    BY <1>8, <2>1 DEF StartTimer
  <2>2. CASE ~running
    <3>1. PICK t \in Threads :
            /\ timer' = [timer EXCEPT ![t] = "check"]
            /\ IF handle = NoThread THEN handle' = t /\ NextIteration
               ELSE pc' = "terminated" /\ UNCHANGED <<handle, cur>>
      BY <1>8, <2>2 DEF StartTimer
    <3>2. timer' \in [Threads -> TimerStates]
      BY <3>1
    <3>3. running' \in BOOLEAN /\ UNCHANGED irqVars
      BY <1>8, <2>2 DEF StartTimer
    <3> QED  BY <3>1, <3>2, <3>3
  <2> QED  BY <1>8, <2>1, <2>2 DEF StartTimer
<1>9. CASE StartTimerFails  BY <1>9 DEF StartTimerFails
<1>10. ASSUME NEW wait \in {"stop", "dtor"}, NEW done \in {"scan", "gone"},
              BeginStop(wait, done)
       PROVE  TypeOK'
  <2>1. pc' \in VMStates /\ pc' \notin {"clear", "call"}
    BY <1>10 DEF BeginStop
  <2>2. cur' \in 0 .. NumInterrupts
    BY <1>10 DEF BeginStop
  <2>3. running' \in BOOLEAN /\ UNCHANGED <<handle, timer, irqVars>>
    BY <1>10 DEF BeginStop
  <2> QED  BY <2>1, <2>2, <2>3
<1>11. CASE StopTimerJoin  BY <1>11 DEF StopTimerJoin, Join
<1>12. CASE StopTimer \/ Destroy  BY <1>10, <1>12 DEF StopTimer, Destroy
<1>13. CASE DestroyJoin  BY <1>13 DEF DestroyJoin, Join
<1>14. CASE HostRequest  BY <1>14 DEF HostRequest, Request
<1>15. ASSUME NEW t \in Threads, TimerFunc(t) PROVE TypeOK'
  <2>1. timer' \in [Threads -> TimerStates]
    BY <1>15 DEF TimerFunc, TimerCheck, TimerWake, TimerRequest
  <2>2. irqs' \subseteq Irqs /\ unserved' \subseteq Irqs /\ UNCHANGED isrs
    <3>1. TimerIrq \in Irqs  BY DEF TimerIrq
    <3>2. CASE TimerCheck(t) \/ TimerWake(t)  BY <3>2 DEF TimerCheck, TimerWake
    <3>3. CASE TimerRequest(t)  BY <3>1, <3>3 DEF TimerRequest, Request
    <3> QED  BY <1>15, <3>2, <3>3 DEF TimerFunc
  <2>3. UNCHANGED <<pc, cur, running, handle>>
    BY <1>15 DEF TimerFunc, TimerCheck, TimerWake, TimerRequest
  <2> QED  BY <2>1, <2>2, <2>3
<1>16. CASE Stopped \/ UNCHANGED vars  BY <1>16 DEF Stopped, vars
<1> QED
  BY <1>1, <1>2, <1>3, <1>4, <1>5, <1>6, <1>7, <1>8, <1>9, <1>10, <1>11,
     <1>12, <1>13, <1>14, <1>15, <1>16 DEF Next, Run

\* Starting, stopping and destroying keep the thread bookkeeping consistent
\* whatever the timer thread does in between.
LEMMA BookkeepingStep == TypeOK /\ Bookkeeping /\ [Next]_vars => Bookkeeping'
<1> SUFFICES ASSUME TypeOK, Bookkeeping, [Next]_vars PROVE Bookkeeping'
  OBVIOUS
<1> USE DEF TypeOK, Bookkeeping, NextIteration, timerVars
<1>1. CASE TestFlag  BY <1>1 DEF TestFlag
<1>2. CASE ClearFlag  BY <1>2 DEF ClearFlag
<1>3. CASE CallISR  BY <1>3 DEF CallISR
<1>4. CASE EndScan  BY <1>4 DEF EndScan
<1>5. CASE Instruction  BY <1>5 DEF Instruction
<1>6. CASE SetISR  BY <1>6 DEF SetISR
<1>7. CASE LeaveRun  BY <1>7 DEF LeaveRun
<1>8. CASE StartTimer  BY <1>8 DEF StartTimer
<1>9. CASE StartTimerFails  BY <1>9 DEF StartTimerFails
<1>10. CASE StopTimer  BY <1>10 DEF StopTimer, BeginStop
<1>11. CASE StopTimerJoin  BY <1>11 DEF StopTimerJoin, Join
<1>12. CASE Destroy  BY <1>12 DEF Destroy, BeginStop
<1>13. CASE DestroyJoin  BY <1>13 DEF DestroyJoin, Join
<1>14. CASE HostRequest  BY <1>14 DEF HostRequest
<1>15. ASSUME NEW t \in Threads, TimerFunc(t) PROVE Bookkeeping'
  BY <1>15 DEF TimerFunc, TimerCheck, TimerWake, TimerRequest
<1>16. CASE Stopped \/ UNCHANGED vars  BY <1>16 DEF Stopped, vars
<1> QED
  BY <1>1, <1>2, <1>3, <1>4, <1>5, <1>6, <1>7, <1>8, <1>9, <1>10, <1>11,
     <1>12, <1>13, <1>14, <1>15, <1>16 DEF Next, Run

\* A request raised at any point of the scan stays visible until it is served
\* or dropped.
LEMMA RequestsStep ==
  TypeOK /\ RequestsNotLost /\ [Next]_vars => RequestsNotLost'
<1> SUFFICES ASSUME TypeOK, RequestsNotLost, [Next]_vars PROVE RequestsNotLost'
  OBVIOUS
<1> USE DEF RequestsNotLost, Running, NextIteration, irqVars
<1>1. CASE TestFlag  BY <1>1 DEF TestFlag
<1>2. CASE ClearFlag  BY <1>2 DEF ClearFlag
<1>3. CASE CallISR  BY <1>3 DEF CallISR
<1>4. CASE EndScan  BY <1>4 DEF EndScan
<1>5. CASE Instruction  BY <1>5 DEF Instruction
<1>6. CASE SetISR  BY <1>6 DEF SetISR
<1>7. CASE LeaveRun  BY <1>7 DEF LeaveRun
<1>8. CASE StartTimer  BY <1>8 DEF StartTimer
<1>9. CASE StartTimerFails  BY <1>9 DEF StartTimerFails
<1>10. CASE StopTimer  BY <1>10 DEF StopTimer, BeginStop
<1>11. CASE StopTimerJoin  BY <1>11 DEF StopTimerJoin, Join
<1>12. CASE Destroy  BY <1>12 DEF Destroy, BeginStop
<1>13. CASE DestroyJoin  BY <1>13 DEF DestroyJoin, Join
<1>14. CASE HostRequest  BY <1>14 DEF HostRequest, Request
<1>15. ASSUME NEW t \in Threads, TimerFunc(t) PROVE RequestsNotLost'
  <2>1. CASE TimerCheck(t) \/ TimerWake(t)
    BY <2>1 DEF TimerCheck, TimerWake
  <2>2. CASE TimerRequest(t)
    BY <2>2 DEF TimerRequest, Request
  <2> QED  BY <1>15, <2>1, <2>2 DEF TimerFunc
<1>16. CASE Stopped \/ UNCHANGED vars  BY <1>16 DEF Stopped, vars
<1> QED
  BY <1>1, <1>2, <1>3, <1>4, <1>5, <1>6, <1>7, <1>8, <1>9, <1>10, <1>11,
     <1>12, <1>13, <1>14, <1>15, <1>16 DEF Next, Run

\* Whatever other threads do between the test of a flag and its reset.
LEMMA SeenStep == SeenIsUp /\ [Next]_vars => SeenIsUp'
<1> SUFFICES ASSUME SeenIsUp, [Next]_vars PROVE SeenIsUp'
  OBVIOUS
<1> USE DEF SeenIsUp, NextIteration, irqVars
<1>1. CASE TestFlag  BY <1>1 DEF TestFlag
<1>2. CASE ClearFlag  BY <1>2 DEF ClearFlag
<1>3. CASE CallISR  BY <1>3 DEF CallISR
<1>4. CASE EndScan \/ Instruction \/ SetISR \/ LeaveRun
  BY <1>4 DEF EndScan, Instruction, SetISR, LeaveRun
<1>5. CASE StartTimer \/ StartTimerFails
  BY <1>5 DEF StartTimer, StartTimerFails
<1>6. CASE StopTimer \/ StopTimerJoin \/ Destroy \/ DestroyJoin
  BY <1>6 DEF StopTimer, StopTimerJoin, Destroy, DestroyJoin, BeginStop, Join
<1>7. CASE HostRequest  BY <1>7 DEF HostRequest, Request
<1>8. ASSUME NEW t \in Threads, TimerFunc(t) PROVE SeenIsUp'
  BY <1>8 DEF TimerFunc, TimerCheck, TimerWake, TimerRequest, Request
<1>9. CASE Stopped \/ UNCHANGED vars  BY <1>9 DEF Stopped, vars
<1> QED
  BY <1>1, <1>2, <1>3, <1>4, <1>5, <1>6, <1>7, <1>8, <1>9 DEF Next, Run

\* The inductive invariant holds in every reachable state.
THEOREM InvariantHolds == Spec => []IInv
<1>1. Init => IInv
  <2> SUFFICES ASSUME Init PROVE IInv
    OBVIOUS
  <2>1. cur \in 0 .. NumInterrupts
    BY DEF Init
  <2>2. TypeOK
    BY <2>1 DEF Init, TypeOK, VMStates, TimerStates, Dormant
  <2>3. Bookkeeping /\ RequestsNotLost /\ SeenIsUp
    BY DEF Init, Bookkeeping, RequestsNotLost, SeenIsUp
  <2> QED  BY <2>2, <2>3 DEF IInv
<1>2. IInv /\ [Next]_vars => IInv'
  BY TypeStep, BookkeepingStep, RequestsStep, SeenStep DEF IInv
<1> QED  BY <1>1, <1>2, PTL DEF Spec

\* The state of the VM thread, the flags and the timer threads is well typed.
THEOREM TypeCorrect == Spec => []TypeOK
<1>1. IInv => TypeOK  BY DEF IInv
<1> QED  BY <1>1, InvariantHolds, PTL

\* No program and no schedule leaves a live timer thread behind that the VM
\* object does not own, so StopTimer always waits for the right one.
THEOREM TimerIsOwned == Spec => []LiveIsOwned
<1>1. IInv => LiveIsOwned
  BY DEF IInv, Bookkeeping, LiveIsOwned, Live, Dormant
<1> QED  BY <1>1, InvariantHolds, PTL

\* set_timer can be called in any order and at any time without ever assigning
\* to a joinable std::thread.
THEOREM NeverTerminates == Spec => []NoTerminate
<1>1. IInv => NoTerminate
  BY DEF IInv, Bookkeeping, NoTerminate
<1> QED  BY <1>1, InvariantHolds, PTL

\* After set_timer(-1) has returned no timer thread is alive.
THEOREM QuietAfterStop == Spec => []StoppedIsQuiet
<1>1. IInv => StoppedIsQuiet
  BY DEF IInv, Bookkeeping, StoppedIsQuiet, Live, Dormant
<1> QED  BY <1>1, InvariantHolds, PTL

\* The destructor returns only when nobody is left to write to the VM object.
THEOREM NoLateWriter == Spec => []NoUseAfterDestroy
<1>1. IInv => NoUseAfterDestroy
  BY DEF IInv, Bookkeeping, NoUseAfterDestroy, Live, Dormant
<1> QED  BY <1>1, InvariantHolds, PTL

\* No interleaving of the scan with the threads that raise interrupts loses a
\* request.
THEOREM NoLostRequest == Spec => []RequestsNotLost
<1>1. IInv => RequestsNotLost  BY DEF IInv
<1> QED  BY <1>1, InvariantHolds, PTL

-----------------------------------------------------------------------------
(* VMTimer implements Interrupts.                                          *)

\* Every step of the threads is a step of the abstract interrupts or leaves them
\* alone.
LEMMA StepImplements == IInv /\ IInv' /\ [Next]_vars => [Abstract!Next]_(Abstract!vars)
<1> SUFFICES ASSUME IInv, IInv', [Next]_vars PROVE [Abstract!Next]_(Abstract!vars)
  OBVIOUS
<1> USE DEF IInv, TypeOK, SeenIsUp, Phase, Accepted, Running, Abstract!vars,
            NextIteration, timerVars, irqVars
<1>1. CASE TestFlag  BY <1>1 DEF TestFlag
<1>2. CASE ClearFlag
  <2>1. cur \in Irqs /\ cur \in irqs /\ irqs' = irqs \ {cur} /\ UNCHANGED <<isrs, handle>>
    BY <1>2 DEF ClearFlag
  <2>2. CASE cur \in isrs
    <3>1. Abstract!Accept(cur)
      BY <1>2, <2>1, <2>2 DEF ClearFlag, Abstract!Accept, Abstract!Executing
    <3> QED  BY <2>1, <3>1 DEF Abstract!Next
  <2>3. CASE cur \notin isrs
    <3>1. Abstract!Drop(cur)
      BY <1>2, <2>1, <2>3 DEF ClearFlag, Abstract!Drop, Abstract!Executing
    <3> QED  BY <2>1, <3>1 DEF Abstract!Next
  <2> QED  BY <2>2, <2>3
<1>3. CASE CallISR
  <2>1. Abstract!EnterRoutine  BY <1>3 DEF CallISR, Abstract!EnterRoutine
  <2> QED  BY <2>1 DEF Abstract!Next
<1>4. CASE EndScan \/ Instruction  BY <1>4 DEF EndScan, Instruction
<1>5. CASE SetISR
  <2>1. PICK n \in Irqs : isrs' = isrs \cup {n}  BY <1>5 DEF SetISR
  <2>2. Abstract!Install(n)
    BY <1>5, <2>1 DEF SetISR, Abstract!Install, Abstract!Executing
  <2> QED  BY <2>1, <2>2 DEF Abstract!Next
<1>6. CASE LeaveRun \/ StartTimerFails
  <2>1. Abstract!Leave  BY <1>6 DEF LeaveRun, StartTimerFails, Abstract!Leave
  <2> QED  BY <2>1 DEF Abstract!Next
<1>7. CASE StartTimer
  <2>1. CASE running  BY <1>7, <2>1 DEF StartTimer
  <2>2. CASE ~running
    <3>1. handle = NoThread  BY <1>7, <2>2 DEF StartTimer, Bookkeeping
    <3>2. pc' = "scan" /\ handle' \in Threads /\ UNCHANGED irqVars
      BY <1>7, <2>2, <3>1 DEF StartTimer
    <3>3. Abstract!Start
      BY <1>7, <3>1, <3>2 DEF StartTimer, Abstract!Start, Abstract!Executing
    <3> QED  BY <3>3 DEF Abstract!Next
  <2> QED  BY <2>1, <2>2
<1>8. CASE StopTimer  BY <1>8 DEF StopTimer, BeginStop
<1>9. CASE StopTimerJoin
  <2>1. Abstract!Stop
    BY <1>9 DEF StopTimerJoin, Join, Abstract!Stop, Abstract!Executing
  <2> QED  BY <2>1 DEF Abstract!Next
<1>10. CASE Destroy
  <2>1. CASE handle = NoThread
    <3>1. Abstract!Destroy  BY <1>10, <2>1 DEF Destroy, BeginStop, Abstract!Destroy
    <3> QED  BY <3>1 DEF Abstract!Next
  <2>2. CASE handle # NoThread  BY <1>10, <2>2 DEF Destroy, BeginStop
  <2> QED  BY <2>1, <2>2
<1>11. CASE DestroyJoin
  <2>1. Abstract!Destroy  BY <1>11 DEF DestroyJoin, Join, Abstract!Destroy
  <2> QED  BY <2>1 DEF Abstract!Next
<1>12. CASE HostRequest
  <2>1. PICK n \in HostIrqs : Request(n)  BY <1>12 DEF HostRequest
  <2>2. Abstract!Raise(n)
    BY <1>12, <2>1 DEF HostRequest, Request, VMStates, Abstract!Raise
  <2> QED  BY <2>2 DEF Abstract!Next, Irqs
<1>13. ASSUME NEW t \in Threads, TimerFunc(t) PROVE [Abstract!Next]_(Abstract!vars)
  <2>1. CASE TimerCheck(t) \/ TimerWake(t)
    BY <2>1 DEF TimerCheck, TimerWake
  <2>2. CASE TimerRequest(t)
    <3>1. handle = t /\ pc \notin {"gone", "terminated"}
      BY <2>2 DEF TimerRequest, Bookkeeping
    <3>2. Abstract!Raise(TimerIrq)
      BY <2>2, <3>1 DEF TimerRequest, Request, VMStates, Abstract!Raise
    <3>3. TimerIrq \in Irqs  BY DEF TimerIrq, Irqs
    <3> QED  BY <3>2, <3>3 DEF Abstract!Next
  <2> QED  BY <1>13, <2>1, <2>2 DEF TimerFunc
<1>14. CASE Stopped \/ UNCHANGED vars  BY <1>14 DEF Stopped, vars
<1> QED
  BY <1>1, <1>2, <1>3, <1>4, <1>5, <1>6, <1>7, <1>8, <1>9, <1>10, <1>11,
     <1>12, <1>13, <1>14 DEF Next, Run

\* Flags, scan and threads together are what Interrupts promises: no interleaving
\* shows a program anything else.
THEOREM Refinement == Spec => ImplementsInterrupts
<1>1. Init => Abstract!Init
  BY DEF Init, Abstract!Init, Phase, Accepted, Running
<1>2. IInv /\ IInv' /\ [Next]_vars => [Abstract!Next]_(Abstract!vars)
  BY StepImplements
<1> QED
  BY <1>1, <1>2, InvariantHolds, PTL DEF Spec, ImplementsInterrupts, Abstract!Spec
=============================================================================
