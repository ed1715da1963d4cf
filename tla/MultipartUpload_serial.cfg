\* Records one at a time, among everything else that may happen to a session;
\* scheduling is fair.
SPECIFICATION FairSpec
CONSTANTS
  Part = {1, 2}
  Thread = {t1, t2}
  MaxRecorders = 1
  Faults = {"storage", "disk", "rollback", "in_doubt", "refresh", "short", "expiry", "crash"}
INVARIANT AnsweredPartsKept
PROPERTY ObjectSettles
CHECK_DEADLOCK FALSE
