\* Two requests of which one may be active, a tokenize thread, copies by the device.
CONSTANTS
  Requests = {r1, r2}
  MaxNew = 2
  MaxPrefill = 2
  MaxTokens = 0
  MaxActive = 1
  MaxInflight = 0
  Tokenizers = {t1}
  AsyncCopy = TRUE
  Errors = TRUE
  StreamInterval = 1
  HoldsBack = FALSE
SPECIFICATION LiveSpec
INVARIANTS CopySafe ActiveBounded
PROPERTIES ImplementsStreams StreamsEnd PrefillReleased
CHECK_DEADLOCK FALSE
