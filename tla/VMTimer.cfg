CONSTANTS
  NumInterrupts = 3
  HostIrqs <- MCHostIrqs
  Threads = {t1, t2}
  NoThread = NoThread
SPECIFICATION FairSpec
INVARIANTS
  TypeOK
  LiveIsOwned
  NoTerminate
  StoppedIsQuiet
  NoUseAfterDestroy
  RequestsNotLost
PROPERTIES
  TimerServed
  StopReturns
  ImplementsInterrupts
  TimerNotPutOff
