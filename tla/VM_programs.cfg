CONSTANTS
  AddrSize = 2
  IntSize = 2
  RealSize = 2
  IntBits = 12
  AddrBits = 10
  SomeInts <- MCInts
  Texts <- MCTexts
  MemSize = 280
  Pad = 5
  Programs <- AllPrograms
  HostIrqs = {}
  MaxIrqs = 0
  Expected <- AllResults
SPECIFICATION FairSpec
INVARIANTS
  TypeOK
  EndsAsExpected
  FrameChain
  StackBelowFrame
  CodeIntact
  Balanced
PROPERTIES
  ReturnsToCaller
  ImplementsCalls
  ValuesArrive
  StoresElements
  OnlyPushes
  Terminates
