CONSTANTS
  Junk = Junk
  Byte <- MCByte
  Chunks <- MCChunks
  MaxExpected = 2
  MinChunk = 2
  Limit = 4
SPECIFICATION Spec
INVARIANTS BufferOK
PROPERTIES ImplementsQueue
