\* As many blocks as two sessions of MaxLen positions need, and two sessions.
CONSTANTS
  Blocks = {b1, b2, b3, b4}
  BlockSize = 2
  Sessions = {s1, s2}
  Tokens = {1, 2}
  Prompts <- PromptSet
  MaxLen = 4
  MaxEntries = 2
  MaxBatch = 2
  ChunkSize = 2
  Modes = {"online"}
  MaxLive <- Live3
SYMMETRY Sym
SPECIFICATION Spec
INVARIANTS PoolSuffices
CHECK_DEADLOCK FALSE
