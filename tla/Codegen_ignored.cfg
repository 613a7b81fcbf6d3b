CONSTANTS
  AddrSize = 2
  IntSize = 2
  RealSize = 2
  IntBits = 12
  AddrBits = 11
  SomeInts <- MCInts
  Texts <- MCTexts
  Input = 7
  DefaultStringSize = 4
  MemSize = 640
  Pad = 5
  Sources <- IgnoredResult
  Compiled <- CompiledSources
  Meanings <- SourceMeanings
  Programs <- CompiledPrograms
  HostIrqs = {}
  MaxIrqs = 0
SPECIFICATION Spec
INVARIANTS
  CompiledCorrectly
