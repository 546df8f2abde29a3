\* Three requests with up to three chunks, with and without overlapped steps.
CONSTANTS
  Requests = {r1, r2, r3}
  MaxNew = 3
  MaxChunks = 3
  MaxBatch = 2
  MaxPrefill = 2
  Overlaps = {TRUE, FALSE}
SPECIFICATION LiveSpec
INVARIANTS TypeOK BlocksHeld NeverRaises OnePlace
PROPERTIES ImplementsSync Completes
CHECK_DEADLOCK FALSE
