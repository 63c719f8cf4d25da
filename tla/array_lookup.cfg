SPECIFICATION Spec
CONSTANTS
  Fan = 3
  PerChunk = 2
  SizeRange = 256
  MaxElements = 60
INVARIANTS TypeOK TreeUsesAllChunks LookupExact LowTreesWalked
