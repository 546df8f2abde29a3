\* Two clients, a tokenizer thread, one active request at a time with decode_first,
\* and errors of the tokenizer and the engine, under fairness.
CONSTANTS
  Requests = {r1, r2}
  Tokenizers = {t1}
  MaxNew = 2
  MaxBatch = 1
  PrefillBatch = 2
  MaxActive = 1
  MaxInflight = 0
  StreamInterval = 2
  DecodeFirst = TRUE
  Errors = TRUE
SPECIFICATION LiveSpec
INVARIANTS TypeOK WithinLimits NoLostWakeup
PROPERTIES ImplementsStreams StreamsEnd OrphansDropped
CHECK_DEADLOCK FALSE
