\* Three requests in batches of two, on a ring of three slots, under fairness.
CONSTANTS
  Requests = {a, b, c}
  MaxNew = 3
  MaxBatch = 2
  MaxRunning = 1
  CudaGraph = FALSE
  BlockSize = 2
  PromptLen = 1
SPECIFICATION LiveSpec
CHECK_DEADLOCK FALSE
INVARIANTS BlocksHeld NeverRaises InputsResolve
PROPERTIES ImplementsSync BlocksReturned
