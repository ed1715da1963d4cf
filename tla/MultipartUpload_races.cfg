\* Two parts, every kind of fault, three requests at a time, two of which may record.
SPECIFICATION Spec
CONSTANTS
  Part = {1, 2}
  Thread = {t1, t2, t3}
  MaxRecorders = 2
  Faults = {"storage", "in_doubt", "refresh", "expiry", "crash"}
SYMMETRY MCThreads
INVARIANTS TypeOK EvidenceIntact AbortIsFinal NoSilentOrphan
\* Nobody has to send another request.
CHECK_DEADLOCK FALSE
