\* A thread that adds two requests, one at a time or in a batch, or a request beside a
\* call to the profiler, or two such calls, whose acks may come late: over both kinds
\* of channels, with token events or counts, under fairness.
CONSTANTS
  Requests = {r1, r2}
  PromptOf <- Prompts
  MaxNew = 2
  MaxBatch = 2
  KVConc = 2
  MaxRecv = 1
  FillTarget = TRUE
  IpcModes = {"queue", "pipe"}
  EmitModes = {"pairs", "tokens", "counts"}
  Errors = TRUE
  Crashes = TRUE
  MaxInflight = 2
  Callers = {c1}
  MaxProfiles = 2
  MaxAsked = 2
SPECIFICATION LiveSpec
INVARIANTS CountsRight PromptsArrive AnswersOwn
PROPERTIES CallsEnd
CHECK_DEADLOCK FALSE
