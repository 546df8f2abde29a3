\* Safety: three sessions, and a pool that can run out.
CONSTANTS
  Blocks = {b1, b2, b3, b4, b5}
  BlockSize = 2
  Sessions = {s1, s2, s3}
  Tokens = {1, 2}
  Prompts <- PromptSet
  MaxLen = 5
  MaxEntries = 2
  MaxBatch = 3
  ChunkSize = 2
  Modes = {"online", "chunked", "offline"}
  MaxLive <- Live3
SYMMETRY Sym
SPECIFICATION Spec
INVARIANTS TypeOK RefcountExact PoolExact Faithful TrieInStep NeverStuck
PROPERTIES WriteOnce RowsFresh ImplementsContract
CHECK_DEADLOCK FALSE
