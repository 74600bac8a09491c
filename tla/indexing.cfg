SPECIFICATION MCSpec
CONSTANTS
  Requests = {q1}
  MaxStalls = 1
  Faults = {"crash"}
  MaxFaults = 1
  NoRun = NoRun
  Paths = {1, 2, 3}
  Contents = {text1, text2, Blank, Binary}
  Blank = Blank
  Binary = Binary
  MaxFiles = 2
  NoFile = NoFile
  Calls = {c1}
  Worker = Worker
  MaxPushes = 1
SYMMETRY Symmetry
INVARIANTS
  IndexTypeOK
  CompletedIsIndexed
  EmbeddingOfItsChunk
PROPERTY EmbeddingsKept
