\* A chunk is sent again while its first request is still being served.
SPECIFICATION Spec
CONSTANTS
  ChunkCount = 1
  Thread = {t1, t2}
  MaxAttempts = 1
  Habits = {"resend"}
  Faults = {}
INVARIANT RetriedChunksThere
CHECK_DEADLOCK FALSE
