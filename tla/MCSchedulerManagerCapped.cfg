\* One active request at a time, admission before decoding.
CONSTANTS
  Requests = {r1, r2}
  Tokenizers = {}
  MaxNew = 3
  MaxBatch = 1
  PrefillBatch = 1
  MaxActive = 1
  MaxInflight = 0
  StreamInterval = 1
  DecodeFirst = FALSE
  Errors = FALSE
SPECIFICATION LiveSpec
PROPERTIES StreamsEnd
CHECK_DEADLOCK FALSE
