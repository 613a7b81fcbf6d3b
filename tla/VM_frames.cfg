CONSTANTS
  AddrSize = 2
  IntSize = 3
  RealSize = 2
  IntBits = 10
  AddrBits = 10
  SomeInts <- MCInts
  Texts <- MCTexts
  MemSize = 90
  Pad = 5
  Programs <- IrqPrograms
  HostIrqs <- IrqSet
  MaxIrqs = 2
  Expected <- IrqResults
SPECIFICATION Spec
PROPERTIES
  ImplementsCalls
