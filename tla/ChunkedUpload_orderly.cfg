\* One chunk at a time, as the documented browser client sends them, with every fault.
SPECIFICATION Spec
CONSTANTS
  ChunkCount = 2
  Thread = {t1, t2, t3}
  MaxAttempts = 2
  Habits = {}
  Faults = {"disconnect", "storage", "disk", "rollback", "in_doubt", "refresh", "expiry", "crash"}
SYMMETRY MCThreads
INVARIANTS TypeOK EvidenceWhole AnsweredChunksThere RegisteredOnce
CHECK_DEADLOCK FALSE
