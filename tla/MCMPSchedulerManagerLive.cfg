\* One client with a coroutine, an admit thread, both kinds of channels, under fairness.
CONSTANTS
  Requests = {r1}
  PromptOf <- Prompts
  MaxNew = 3
  MaxBatch = 2
  KVConc = 1
  MaxRecv = 0
  FillTarget = FALSE
  IpcModes = {"queue", "pipe"}
  EmitModes = {"pairs"}
  Errors = TRUE
  Crashes = TRUE
  StreamInterval = 2
  HoldsBack = TRUE
  MaxInflight = 1
  Admitters = {t1}
  AsyncReaders = {r1}
SPECIFICATION LiveSpec
PROPERTIES StreamsEnd
CHECK_DEADLOCK FALSE
