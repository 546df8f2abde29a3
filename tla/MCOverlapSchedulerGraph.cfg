CONSTANTS
  Requests = {a}
  MaxNew = 4
  MaxBatch = 1
  MaxRunning = 1
  CudaGraph = TRUE
  BlockSize = 2
  PromptLen = 1
SPECIFICATION Spec
CHECK_DEADLOCK FALSE
PROPERTIES ImplementsSync
