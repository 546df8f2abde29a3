\* Two clients with threads, over pipes; add_request tokenizes and sends; cancellation
\* of requests that wait, run, or are over.
CONSTANTS
  Requests = {r1, r2}
  PromptOf <- Prompts
  MaxNew = 3
  MaxBatch = 2
  KVConc = 1
  MaxRecv = 1
  FillTarget = TRUE
  IpcModes = {"pipe"}
  EmitModes = {"pairs", "tokens"}
  Errors = TRUE
  Crashes = TRUE
  StreamInterval = 1
  HoldsBack = TRUE
  MaxInflight = 0
  Admitters = {}
  AsyncReaders = {}
SYMMETRY Sym
SPECIFICATION Spec
INVARIANTS PlacesExact
PROPERTIES ImplementsStreams
CHECK_DEADLOCK FALSE
